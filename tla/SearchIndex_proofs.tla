------------------------- MODULE SearchIndex_proofs -------------------------
(***************************************************************************)
(* Theorems about SearchIndex, for any clients, keys, calls and page sizes, *)
(* and about what reads beside it, Queries and IndexReads, for any queries,  *)
(* documents and readers.                                                  *)
(***************************************************************************)
EXTENDS IndexReads, FiniteSetTheorems, NaturalsInduction, WellFoundedInduction, TLAPS

\* Which calls can be at which round trip, and that a pipeline never runs past
\* the records of its call.
CallAt(c) ==
    /\ pc[c] \in {"exists", "overwrite", "create"} => req[c].op = "create"
    /\ pc[c] = "overwrite" => req[c].overwrite
    /\ pc[c] = "drop" => req[c].op = "delete"
    /\ pc[c] = "del" => req[c].op = "dropkeys"
    /\ pc[c] \in {"search", "clear"} => req[c].op = "clear"
    /\ pc[c] \in {"batch", "hset"} => req[c].op = "load"
    /\ pc[c] = "expire" => req[c].op \in {"load", "expire"}
    /\ pc[c] = "batch" => next[c] \in Nat \ {0}
    /\ pc[c] \in {"hset", "expire"} => next[c] \in 1..Len(req[c].keys)

Shape == TypeOK /\ \A c \in Clients : CallAt(c)

\* Sets of documents are finite, so that a page can be counted.
LEMMA FiniteDocs ==
    ASSUME NEW S, S \subseteq Keys
    PROVE  IsFiniteSet(S) /\ Cardinality(S) \in Nat
  BY FS_Subset, FS_CardinalityType, ConstantsAssumption

\* What is in Redis, and what of it is indexed, are keys.
LEMMA PresentIsKeys == Present \subseteq Keys /\ Tracked \subseteq Present
  BY DEF Present, Tracked

\* Keys of a load or an expire request are a sequence of keys.
LEMMA RequestKeys ==
    ASSUME NEW r \in Requests \union {NoRequest}, r.op \in {"load", "expire"}
    PROVE  r.keys \in Seq(Keys)
  BY ConstantsAssumption DEF Request, NoRequest

\* The operations a client may ask for.
LEMMA RequestOp ==
    ASSUME NEW r \in Requests
    PROVE  r.op \in {"create", "delete", "load", "dropkeys", "expire", "clear"}
  BY ConstantsAssumption DEF Request

\* No client is in a call at first.
LEMMA InitShape == Init => Shape
  <1> SUFFICES ASSUME Init PROVE Shape
    OBVIOUS
  <1>1. Cardinality(Present) \in Nat
    BY FiniteDocs, PresentIsKeys
  <1>2. QED
    BY <1>1 DEF Init, Shape, TypeOK, CallAt, Labels, Finished, NoRequest

\* A call begins at the first round trip of its operation.
LEMMA BeginShape ==
    ASSUME Shape, NEW c \in Clients, NEW r \in Requests, Begin(c, r)
    PROVE  Shape'
  <1> USE DEF Shape
  <1>2. First(r) \in Labels
    BY RequestOp DEF First, FirstTrip, Labels, Finished
  <1>3. TypeOK'
    BY <1>2, PresentIsKeys DEF TypeOK, Begin, Goto, server, Present
  <1>4. ASSUME NEW d \in Clients PROVE CallAt(d)'
    <2>1. CASE d # c
      BY <2>1 DEF CallAt, Begin, Goto, TypeOK
    <2>2. CASE d = c
      <3>1. pc'[c] = First(r) /\ req'[c] = r /\ next'[c] = 1
        BY DEF Begin, Goto, TypeOK
      <3>2. First(r) \in {"ok", "err"} \/ First(r) = FirstTrip[r.op]
        BY DEF First
      <3>3. r.op \in {"create", "delete", "load", "dropkeys", "expire", "clear"}
        BY RequestOp
      <3>4. ASSUME First(r) = "expire" PROVE 1 \in 1..Len(r.keys)
        <4>1. r.op = "expire" /\ r.keys # <<>>
          BY <3>3, <3>4 DEF First, FirstTrip
        <4>2. r.keys \in Seq(Keys)
          BY <4>1, RequestKeys
        <4>3. QED
          BY <4>1, <4>2
      <3>5. QED
        BY <2>2, <3>1, <3>2, <3>3, <3>4 DEF CallAt, FirstTrip
    <2>3. QED
      BY <2>1, <2>2
  <1>5. QED
    BY <1>3, <1>4

\* What an answered or failed round trip does to the program counters.
LEMMA AnswerMoves ==
    ASSUME Shape, NEW c \in Clients, NEW l \in Labels, Answer(c, l)
    PROVE  /\ pc' \in [Clients -> Labels] /\ faults' \in Nat
           /\ pc'[c] \in {l, "err"}
           /\ \A d \in Clients \ {c} : pc'[d] = pc[d]
  BY DEF Answer, Goto, LoseReply, Shape, TypeOK, Labels, Finished

\* A step of one client leaves the others where they are in their calls.
LEMMA OthersKeep ==
    ASSUME Shape, NEW c \in Clients, CallAt(c)', req' = req,
           \A d \in Clients \ {c} : pc'[d] = pc[d] /\ next'[d] = next[d]
    PROVE  \A d \in Clients : CallAt(d)'
  BY DEF Shape, CallAt

\* A round trip, answered or failed, moves its client to a label of its own call.
LEMMA RoundTripShape ==
    ASSUME Shape, NEW c \in Clients, RoundTrip(c)
    PROVE  Shape'
  <1>1. CASE Exists(c)
    <2>1. PICK l \in {"create", "overwrite", "ok"} :
             Answer(c, l) /\ (l = "overwrite" => req[c].overwrite)
      BY <1>1 DEF Exists
    <2>2. TypeOK'
      BY <1>1, <2>1, AnswerMoves
      DEF Exists, Shape, TypeOK, Labels, Finished, server, history
    <2>3. CallAt(c)'
      BY <1>1, <2>1, AnswerMoves DEF Exists, Shape, CallAt, Labels, Finished
    <2>4. QED
      BY <1>1, <2>1, <2>2, <2>3, AnswerMoves, OthersKeep DEF Exists, Shape, Labels, Finished
  <1>2. CASE Overwrite(c)
    <2>1. PICK l \in {"create", "err"} : Answer(c, l)
      BY <1>2 DEF Overwrite, DropIndex, Answer
    <2>2. TypeOK'
      BY <1>2, <2>1, AnswerMoves, FiniteDocs, PresentIsKeys
      DEF Overwrite, DropIndex, RemoveDocs, Shape, TypeOK, Labels, Finished, server
    <2>3. CallAt(c)'
      BY <1>2, <2>1, AnswerMoves DEF Overwrite, Shape, CallAt, Labels, Finished
    <2>4. QED
      BY <1>2, <2>1, <2>2, <2>3, AnswerMoves, OthersKeep DEF Overwrite, Shape, Labels, Finished
  <1>3. CASE Delete(c)
    <2>1. PICK l \in {"ok", "err"} : Answer(c, l)
      BY <1>3 DEF Delete, DropIndex, Answer
    <2>2. TypeOK'
      BY <1>3, <2>1, AnswerMoves, FiniteDocs, PresentIsKeys
      DEF Delete, DropIndex, RemoveDocs, Shape, TypeOK, Labels, Finished, server
    <2>3. CallAt(c)'
      BY <1>3, <2>1, AnswerMoves DEF Delete, Shape, CallAt, Labels, Finished
    <2>4. QED
      BY <1>3, <2>1, <2>2, <2>3, AnswerMoves, OthersKeep DEF Delete, Shape, Labels, Finished
  <1>4. CASE CreateIndex(c)
    <2>1. PICK l \in {"ok", "err"} : Answer(c, l)
      BY <1>4 DEF CreateIndex, Answer
    <2>2. TypeOK'
      BY <1>4, <2>1, AnswerMoves DEF CreateIndex, Shape, TypeOK, Labels, Finished, history
    <2>3. CallAt(c)'
      BY <1>4, <2>1, AnswerMoves DEF CreateIndex, Shape, CallAt, Labels, Finished
    <2>4. QED
      BY <1>4, <2>1, <2>2, <2>3, AnswerMoves, OthersKeep DEF CreateIndex, Shape, Labels, Finished
  <1>5. CASE Batch(c)
    <2>1. PICK l \in {"ok", "err", "hset"} :
             Answer(c, l) /\ pc'[c] = l /\ (l = "hset" => ~(next[c] > Len(req[c].keys)))
      BY <1>5 DEF Batch, Answer, Goto, Shape, TypeOK
    <2>2. TypeOK'
      BY <1>5, <2>1, AnswerMoves DEF Batch, Shape, TypeOK, Labels, Finished, server, history
    <2>3. CallAt(c)'
      <3>1. req[c].op = "load" /\ req[c].keys \in Seq(Keys) /\ next[c] \in Nat \ {0}
        BY <1>5, RequestKeys DEF Batch, Shape, TypeOK, CallAt
      <3>2. QED
        BY <1>5, <2>1, <3>1 DEF Batch, CallAt
    <2>4. QED
      BY <1>5, <2>1, <2>2, <2>3, AnswerMoves, OthersKeep DEF Batch, Shape, Labels, Finished
  <1>6. CASE HSet(c) \/ Expire(c)
    <2>1. /\ req[c].op \in {"load", "expire"} /\ req[c].keys \in Seq(Keys)
          /\ HSet(c) => req[c].op = "load"
          /\ next[c] \in 1..Len(req[c].keys)
          /\ req[c].keys[next[c]] \in Keys
      <3>1. pc[c] \in {"hset", "expire"} /\ (HSet(c) => pc[c] = "hset")
        BY <1>6 DEF HSet, Expire
      <3>2. CallAt(c) /\ req[c] \in Requests \union {NoRequest}
        BY DEF Shape, TypeOK
      <3>3. /\ req[c].op \in {"load", "expire"} /\ next[c] \in 1..Len(req[c].keys)
            /\ HSet(c) => req[c].op = "load"
        BY <3>1, <3>2 DEF CallAt
      <3>4. req[c].keys \in Seq(Keys)
        BY <3>2, <3>3, RequestKeys
      <3>5. QED
        BY <3>3, <3>4
    <2>2. PICK l \in {"batch", "hset", "expire", "ok"} :
             /\ Answer(c, l)
             /\ req' = req /\ next' \in [Clients -> Nat]
             /\ \A d \in Clients \ {c} : next'[d] = next[d]
             /\ \/ l = "expire" /\ next'[c] = next[c]
                \/ l = Advance(req[c], next[c]) /\ next'[c] = next[c] + 1
      <3>1. Advance(req[c], next[c]) \in {"batch", "hset", "expire", "ok"}
        BY DEF Advance
      <3>2. next \in [Clients -> Nat] /\ next[c] \in Nat
        BY DEF Shape, TypeOK
      <3>3. CASE HSet(c) /\ req[c].ttl
        BY <3>2, <3>3 DEF HSet
      <3>4. CASE HSet(c) /\ ~req[c].ttl
        BY <3>1, <3>2, <3>4 DEF HSet
      <3>5. CASE Expire(c)
        BY <3>1, <3>2, <3>5 DEF Expire
      <3>6. QED
        BY <1>6, <3>3, <3>4, <3>5
    <2>3. TypeOK'
      <3>1. docs' \in [Keys -> {"none", "plain", "ttl"}]
        BY <1>6 DEF HSet, Expire, Shape, TypeOK
      <3>2. /\ written' \in [Clients -> SUBSET Keys]
            /\ writer' \in [Keys -> Clients \union {"nobody"}]
            /\ due' \in [Clients -> SUBSET Keys] /\ ledger' \in Int
        <4>1. CASE HSet(c)
          BY <2>1, <4>1 DEF HSet, Shape, TypeOK
        <4>2. CASE Expire(c)
          BY <4>2 DEF Expire, history, Shape, TypeOK
        <4>3. QED
          BY <1>6, <4>1, <4>2
      <3>3. UNCHANGED <<index, req, page, total, calls>>
        BY <1>6 DEF HSet, Expire
      <3>4. l \in Labels
        BY <2>2 DEF Labels, Finished
      <3>5. QED
        BY <2>2, <3>1, <3>2, <3>3, <3>4, AnswerMoves DEF Shape, TypeOK
    <2>4. CallAt(c)'
      <3>1. l \in Labels /\ pc'[c] \in {l, "err"}
        BY <2>2, AnswerMoves DEF Labels, Finished
      <3>2. CASE l = "expire" /\ next'[c] = next[c]
        BY <2>1, <2>2, <3>1, <3>2 DEF CallAt
      <3>3. CASE l = Advance(req[c], next[c]) /\ next'[c] = next[c] + 1
        BY <2>1, <2>2, <3>1, <3>3 DEF CallAt, Advance
      <3>4. QED
        BY <2>2, <3>2, <3>3
    <2>5. QED
      BY <2>2, <2>3, <2>4, AnswerMoves, OthersKeep DEF Shape, Labels, Finished
  <1>7. CASE DropKeys(c)
    <2>1. Answer(c, "ok")
      BY <1>7 DEF DropKeys, Del
    <2>2. Cardinality(req[c].keys \intersect Present) \in Nat
      BY FiniteDocs, PresentIsKeys
    <2>3. TypeOK'
      BY <1>7, <2>1, <2>2, AnswerMoves
      DEF DropKeys, Del, RemoveDocs, Shape, TypeOK, Labels, Finished
    <2>4. CallAt(c)'
      BY <1>7, <2>1, AnswerMoves DEF DropKeys, CallAt, Labels, Finished
    <2>5. QED
      BY <1>7, <2>1, <2>3, <2>4, AnswerMoves, OthersKeep DEF DropKeys, Shape, Labels, Finished
  <1>8. CASE ClearSearch(c)
    <2>1. PICK l \in {"ok", "err", "clear"} : Answer(c, l)
      BY <1>8 DEF ClearSearch, Answer
    <2>2. page' \in [Clients -> SUBSET Keys]
      BY <1>8, PresentIsKeys DEF ClearSearch, Shape, TypeOK
    <2>3. TypeOK'
      BY <1>8, <2>1, <2>2, AnswerMoves
      DEF ClearSearch, Shape, TypeOK, Labels, Finished, server, history
    <2>4. CallAt(c)'
      BY <1>8, <2>1, AnswerMoves DEF ClearSearch, Shape, CallAt, Labels, Finished
    <2>5. QED
      BY <1>8, <2>1, <2>3, <2>4, AnswerMoves, OthersKeep DEF ClearSearch, Shape, Labels, Finished
  <1>9. CASE ClearDel(c)
    <2>1. PICK l \in {"ok", "search"} : Answer(c, l)
      BY <1>9 DEF ClearDel, Del
    <2>2. Cardinality(page[c] \intersect Present) \in Nat
      BY FiniteDocs, PresentIsKeys
    <2>3. TypeOK'
      BY <1>9, <2>1, <2>2, AnswerMoves
      DEF ClearDel, Del, RemoveDocs, Shape, TypeOK, Labels, Finished
    <2>4. CallAt(c)'
      BY <1>9, <2>1, AnswerMoves DEF ClearDel, Shape, CallAt, Labels, Finished
    <2>5. QED
      BY <1>9, <2>1, <2>3, <2>4, AnswerMoves, OthersKeep DEF ClearDel, Shape, Labels, Finished
  <1>10. QED
    BY <1>1, <1>2, <1>3, <1>4, <1>5, <1>6, <1>7, <1>8, <1>9 DEF RoundTrip

\* A lost request, and a document that expires or is evicted, keep the shape.
LEMMA OtherShape ==
    ASSUME Shape
    PROVE  /\ \A c \in Clients : LoseRequest(c) => Shape'
           /\ \A k \in Keys : Evict(k) => Shape'
           /\ UNCHANGED vars => Shape'
  <1>1. ASSUME NEW c \in Clients, LoseRequest(c) PROVE Shape'
    BY <1>1 DEF LoseRequest, LoseReply, Shape, TypeOK, CallAt, Labels, Finished, history
  <1>2. ASSUME NEW k \in Keys, Evict(k) PROVE Shape'
    BY <1>2 DEF Evict, Shape, TypeOK, CallAt
  <1>3. ASSUME UNCHANGED vars PROVE Shape'
    BY <1>3 DEF vars, Shape, TypeOK, CallAt
  <1>4. QED
    BY <1>1, <1>2, <1>3

\* The variables of SearchIndex keep their types and every client is at a round
\* trip of its own call, for any number of clients, keys, calls and faults.
THEOREM ShapeInvariant == Spec => []Shape
  <1>1. Shape /\ [Next]_vars => Shape'
    BY BeginShape, RoundTripShape, OtherShape DEF Next
  <1>2. QED
    BY InitShape, <1>1, PTL DEF Spec

\* The variables keep their types.
THEOREM TypeCorrect == Spec => []TypeOK
  BY ShapeInvariant, PTL DEF Shape

-----------------------------------------------------------------------------
(* Clear.  What it still owes, the documents present since it began and not *)
(* written since, never grows; a short page holds all of it.                *)

Owed(c) == due[c] \intersect Present

ClearInv ==
    \A c \in Clients :
        /\ pc[c] = "clear" /\ Cardinality(page[c]) < PageSize => Owed(c) \subseteq page[c]
        /\ req[c].op = "clear" /\ pc[c] = "ok" => Owed(c) = {}

\* No round trip adds to what a Clear owes: a document written again is not owed.
LEMMA OwedShrinks ==
    ASSUME Shape, NEW c \in Clients, RoundTrip(c)
    PROVE  \A d \in Clients : Owed(d)' \subseteq Owed(d)
  <1>1. CASE HSet(c)
    BY <1>1 DEF HSet, Owed, Present, Shape, TypeOK
  <1>2. CASE Expire(c)
    BY <1>2 DEF Expire, history, Owed, Present, Shape, TypeOK
  <1>3. CASE Exists(c) \/ Batch(c) \/ ClearSearch(c) \/ CreateIndex(c)
    BY <1>3 DEF Exists, Batch, ClearSearch, CreateIndex, server, history, Owed, Present
  <1>4. CASE Overwrite(c) \/ Delete(c)
    BY <1>4 DEF Overwrite, Delete, DropIndex, RemoveDocs, server, Owed, Present
  <1>5. CASE DropKeys(c) \/ ClearDel(c)
    BY <1>5 DEF DropKeys, ClearDel, Del, RemoveDocs, Owed, Present
  <1>6. QED
    BY <1>1, <1>2, <1>3, <1>4, <1>5 DEF RoundTrip

\* A round trip of one client leaves the calls of the others alone.
LEMMA OthersStay ==
    ASSUME Shape, NEW c \in Clients, RoundTrip(c), NEW d \in Clients \ {c}
    PROVE  pc'[d] = pc[d] /\ page'[d] = page[d] /\ req'[d] = req[d]
  <1>1. req' = req
    BY DEF RoundTrip, Exists, Overwrite, Delete, CreateIndex, Batch, HSet, Expire,
           DropKeys, ClearSearch, ClearDel
  <1>2. pc'[d] = pc[d]
    BY DEF RoundTrip, Exists, Overwrite, Delete, DropIndex, CreateIndex, Batch, HSet,
           Expire, DropKeys, ClearSearch, ClearDel, Del, Answer, Goto, LoseReply,
           Shape, TypeOK
  <1>3. page'[d] = page[d]
    BY DEF RoundTrip, Exists, Overwrite, Delete, CreateIndex, Batch, HSet, Expire,
           DropKeys, ClearSearch, ClearDel, Shape, TypeOK
  <1>4. QED
    BY <1>1, <1>2, <1>3

\* A round trip of a Clear keeps what it still owes within what its search will find.
LEMMA ClearStep ==
    ASSUME Shape, ClearInv, NEW c \in Clients, RoundTrip(c)
    PROVE  ClearInv'
  <1>1. ASSUME NEW d \in Clients \ {c}
        PROVE  pc'[d] = pc[d] /\ page'[d] = page[d] /\ req'[d] = req[d]
    BY OthersStay
  <1>2. CASE ClearSearch(c)
    <2>1. SUFFICES ASSUME pc'[c] # "err"
                   PROVE  /\ pc'[c] = "clear" /\ Cardinality(page'[c]) < PageSize
                                 => Owed(c)' \subseteq page'[c]
                          /\ pc'[c] = "ok" => Owed(c)' = {}
      BY <1>1, <1>2, OwedShrinks DEF ClearInv
    <2>2. index = "live"
      BY <1>2, <2>1 DEF ClearSearch, Goto, Shape, TypeOK
    <2>3. PICK p \in SUBSET Tracked :
             IsPage(p) /\ page'[c] = p /\ pc'[c] = IF p = {} THEN "ok" ELSE "clear"
      BY <1>2, <2>1, <2>2 DEF ClearSearch, Answer, Goto, LoseReply, Shape, TypeOK
    <2>4. Tracked = Present /\ Owed(c)' \subseteq Present
      BY <1>2, <2>2, OwedShrinks DEF Tracked, Owed, RoundTrip
    <2>5. Cardinality({}) = 0 /\ PageSize \in Nat \ {0}
      BY FS_EmptySet, ConstantsAssumption
    <2>6. Cardinality(p) < PageSize => p = Tracked
      BY <2>3, <2>5 DEF IsPage
    <2>7. QED
      BY <2>3, <2>4, <2>5, <2>6
  <1>3. CASE ClearDel(c)
    <2>1. Present' \subseteq Present \ page[c]
      BY <1>3 DEF ClearDel, Del, RemoveDocs, Present
    <2>2. pc'[c] = "ok" => Cardinality(page[c]) < PageSize
      BY <1>3 DEF ClearDel, Del, Answer, Goto, LoseReply, Shape, TypeOK
    <2>3. pc'[c] \in {"ok", "search", "err"} /\ pc[c] = "clear"
      BY <1>3 DEF ClearDel, Del, Answer, Goto, LoseReply, Shape, TypeOK
    <2>4. pc'[c] = "ok" => Owed(c)' = {}
      BY <1>3, <2>1, <2>2, <2>3, OwedShrinks DEF ClearInv, Owed, RoundTrip
    <2>5. QED
      BY <1>1, <2>3, <2>4, OwedShrinks DEF ClearInv
  <1>4. CASE ~ClearSearch(c) /\ ~ClearDel(c)
    <2>1. req'[c].op # "clear"
      BY <1>4 DEF RoundTrip, Exists, Overwrite, Delete, CreateIndex, Batch, HSet, Expire,
                  DropKeys, Shape, CallAt
    <2>2. pc'[c] # "clear"
      BY <2>1, RoundTripShape DEF Shape, CallAt
    <2>3. QED
      BY <1>1, <2>1, <2>2, OwedShrinks DEF ClearInv
  <1>5. QED
    BY <1>2, <1>3, <1>4

\* A Clear that returned without error left none of the documents that were
\* there when it began and that nobody wrote since.
THEOREM ClearCompletes == Spec => []ClearIsComplete
  <1>1. Init => ClearInv
    BY DEF Init, ClearInv, NoRequest
  <1>2. Shape /\ ClearInv /\ [Next]_vars => ClearInv'
    <2> SUFFICES ASSUME Shape, ClearInv, [Next]_vars PROVE ClearInv'
      OBVIOUS
    <2>1. ASSUME NEW c \in Clients, NEW r \in Requests, Begin(c, r) PROVE ClearInv'
      <3>1. ASSUME NEW d \in Clients \ {c}
            PROVE  /\ pc'[d] = pc[d] /\ page'[d] = page[d] /\ req'[d] = req[d]
                   /\ Owed(d)' = Owed(d)
        BY <2>1 DEF Begin, Goto, server, Owed, Present, Shape, TypeOK
      <3>2. pc'[c] = First(r) /\ req'[c] = r
        BY <2>1 DEF Begin, Goto, Shape, TypeOK
      <3>3. First(r) # "clear" /\ (r.op = "clear" => First(r) = "search")
        BY RequestOp DEF First, FirstTrip
      <3>4. QED
        BY <3>1, <3>2, <3>3 DEF ClearInv
    <2>2. ASSUME NEW c \in Clients, LoseRequest(c) PROVE ClearInv'
      BY <2>2 DEF LoseRequest, LoseReply, history, ClearInv, Owed, Present, Shape, TypeOK
    <2>3. ASSUME NEW k \in Keys, Evict(k) PROVE ClearInv'
      BY <2>3 DEF Evict, ClearInv, Owed, Present, Shape, TypeOK
    <2>4. CASE UNCHANGED vars
      BY <2>4 DEF vars, ClearInv, Owed, Present
    <2>5. QED
      BY <2>1, <2>2, <2>3, <2>4, ClearStep DEF Next
  <1>3. ClearInv => ClearIsComplete
    BY DEF ClearInv, ClearIsComplete, Owed
  <1>4. QED
    BY <1>1, <1>2, <1>3, ShapeInvariant, PTL DEF Spec

-----------------------------------------------------------------------------
(* Create and Delete. *)

\* Racing overwrites never leave Redis without the index: whoever dropped it,
\* some client is still about to create it.
THEOREM IndexSurvivesOverwrites == Spec => []OverwriteNeverLosesIndex
  <1>1. Init => OverwriteNeverLosesIndex
    BY DEF Init, OverwriteNeverLosesIndex
  <1>2. Shape /\ OverwriteNeverLosesIndex /\ [Next]_vars => OverwriteNeverLosesIndex'
    <2> SUFFICES ASSUME Shape, OverwriteNeverLosesIndex, [Next]_vars, index' = "replacing"
                 PROVE  \E c \in Clients : pc'[c] = "create"
      BY DEF OverwriteNeverLosesIndex
    <2>1. CASE index # "replacing"
      <3>1. PICK c \in Clients : Overwrite(c) /\ index = "live"
        BY <2>1 DEF Next, RoundTrip, Exists, Overwrite, Delete, DropIndex, CreateIndex, Batch,
                    HSet, Expire, DropKeys, ClearSearch, ClearDel, Begin, LoseRequest, Evict,
                    server, vars
      <3>2. QED
        BY <2>1, <3>1 DEF Overwrite, DropIndex, Answer, Goto, LoseReply, Shape, TypeOK
    <2>2. CASE index = "replacing"
      <3>1. PICK d \in Clients : pc[d] = "create"
        BY <2>2 DEF OverwriteNeverLosesIndex
      <3>2. ~CreateIndex(d) /\ ~LoseRequest(d)
        BY <2>2, <3>1 DEF CreateIndex, LoseRequest
      <3>3. ASSUME NEW c \in Clients, RoundTrip(c) PROVE pc'[d] = pc[d]
        <4>1. c # d
          BY <3>1, <3>2, <3>3 DEF RoundTrip, Exists, Overwrite, Delete, Batch, HSet, Expire,
                                  DropKeys, ClearSearch, ClearDel
        <4>2. QED
          BY <3>3, <4>1, OthersStay
      <3>4. ASSUME NEW c \in Clients, LoseRequest(c) \/ \E r \in Requests : Begin(c, r)
            PROVE  pc'[d] = pc[d]
        BY <3>1, <3>2, <3>4 DEF LoseRequest, LoseReply, Begin, Goto, Finished, Shape, TypeOK
      <3>5. (\E k \in Keys : Evict(k)) \/ UNCHANGED vars => pc'[d] = pc[d]
        BY DEF Evict, vars
      <3>6. QED
        BY <3>1, <3>3, <3>4, <3>5 DEF Next
    <2>3. QED
      BY <2>1, <2>2
  <1>3. QED
    BY <1>1, <1>2, ShapeInvariant, PTL DEF Spec

\* Documents without expiration, and the index, are destroyed only by a call
\* that asks for it.
THEOREM OnlyAskedLoss == Spec => DestroysOnlyWhenAsked
  <1>1. Shape /\ [Next]_vars => [LossIsAsked]_vars
    <2> SUFFICES ASSUME Shape, Next PROVE LossIsAsked
      OBVIOUS
    <2>1. ASSUME NEW c \in Clients, Overwrite(c) \/ Delete(c) PROVE LossIsAsked
      <3>1. pc'[c] # pc[c]
        BY <2>1 DEF Overwrite, Delete, DropIndex, Answer, Goto, LoseReply, Shape, TypeOK
      <3>2. /\ req[c].op = "delete" \/ (req[c].op = "create" /\ req[c].overwrite)
            /\ \A k \in Keys : docs[k] = "plain" /\ docs'[k] = "none" => req[c].drop
        BY <2>1 DEF Overwrite, Delete, DropIndex, RemoveDocs, server, Shape, CallAt, TypeOK
      <3>3. QED
        BY <3>1, <3>2 DEF LossIsAsked, MayRemove
    <2>2. ASSUME NEW c \in Clients, DropKeys(c) \/ ClearDel(c) PROVE LossIsAsked
      <3>1. pc'[c] # pc[c] /\ index' = index
        BY <2>2 DEF DropKeys, ClearDel, Del, Answer, Goto, LoseReply, Shape, TypeOK
      <3>2. \A k \in Keys : docs[k] = "plain" /\ docs'[k] = "none" => MayRemove(req[c], k)
        BY <2>2 DEF DropKeys, ClearDel, Del, RemoveDocs, MayRemove, Shape, CallAt, TypeOK
      <3>3. QED
        BY <3>1, <3>2 DEF LossIsAsked
    <2>3. CASE \E c \in Clients :
                  \/ HSet(c) \/ Expire(c) \/ Exists(c) \/ Batch(c) \/ ClearSearch(c)
                  \/ CreateIndex(c) \/ LoseRequest(c) \/ \E r \in Requests : Begin(c, r)
      <3>1. \A k \in Keys : docs[k] = "plain" => docs'[k] # "none"
        <4>1. CASE docs' = docs
          BY <4>1
        <4>2. CASE \E c \in Clients : HSet(c) \/ Expire(c)
          BY <4>2 DEF HSet, Expire, Shape, TypeOK
        <4>3. QED
          BY <2>3, <4>1, <4>2
          DEF Exists, Batch, ClearSearch, CreateIndex, LoseRequest, Begin, server
      <3>2. index = "live" => index' = "live"
        BY <2>3 DEF HSet, Expire, Exists, Batch, ClearSearch, CreateIndex, LoseRequest, Begin,
                    server
      <3>3. QED
        BY <3>1, <3>2 DEF LossIsAsked
    <2>4. CASE \E k \in Keys : Evict(k)
      BY <2>4 DEF Evict, LossIsAsked, Shape, TypeOK
    <2>5. QED
      BY <2>1, <2>2, <2>3, <2>4 DEF Next, RoundTrip
  <1>2. QED
    BY <1>1, ShapeInvariant, PTL DEF Spec, DestroysOnlyWhenAsked

-----------------------------------------------------------------------------
(* Load with a TTL. *)

\* A document that a Load with a TTL wrote, and nobody since, expires, unless its EXPIRE is
\* about to be sent or was lost with an error.
TTLAt(c) ==
    req[c].op = "load" /\ req[c].ttl =>
        \A k \in written[c] :
            writer[k] = c =>
                \/ docs[k] # "plain" \/ pc[c] = "err"
                \/ pc[c] = "expire" /\ k = req[c].keys[next[c]]

TTLInv == \A c \in Clients : TTLAt(c)

\* No step but an HSET makes a document without expiration.
LEMMA PlainIsWritten ==
    ASSUME Shape, NEW c \in Clients, RoundTrip(c), ~HSet(c)
    PROVE  /\ \A k \in Keys : docs'[k] = "plain" => docs[k] = "plain"
           /\ written' = written /\ writer' = writer
  <1>1. CASE Exists(c) \/ Batch(c) \/ ClearSearch(c) \/ CreateIndex(c)
    BY <1>1 DEF Exists, Batch, ClearSearch, CreateIndex, server, history
  <1>2. CASE Overwrite(c) \/ Delete(c)
    BY <1>2 DEF Overwrite, Delete, DropIndex, RemoveDocs, server
  <1>3. CASE DropKeys(c) \/ ClearDel(c)
    BY <1>3 DEF DropKeys, ClearDel, Del, RemoveDocs
  <1>4. CASE Expire(c)
    BY <1>4 DEF Expire, history, Shape, TypeOK
  <1>5. QED
    BY <1>1, <1>2, <1>3, <1>4 DEF RoundTrip

\* A round trip leaves the arguments and the place of every other call alone.
LEMMA OthersPlace ==
    ASSUME Shape, NEW c \in Clients, RoundTrip(c), NEW d \in Clients \ {c}
    PROVE  /\ pc'[d] = pc[d] /\ req'[d] = req[d] /\ next'[d] = next[d]
           /\ written'[d] = written[d]
  <1>1. next'[d] = next[d]
    BY DEF RoundTrip, Exists, Overwrite, Delete, CreateIndex, Batch, HSet, Expire,
           DropKeys, ClearSearch, ClearDel, Shape, TypeOK
  <1>2. written'[d] = written[d]
    BY PlainIsWritten DEF HSet, Shape, TypeOK
  <1>3. QED
    BY <1>1, <1>2, OthersStay

\* The pipeline of a Load: HSET leaves a document that the next EXPIRE is for.
LEMMA TTLStep ==
    ASSUME Shape, TTLInv, NEW c \in Clients, RoundTrip(c)
    PROVE  TTLInv'
  <1>1. CASE HSet(c)
    <2>1. /\ req' = req /\ req[c].op = "load" /\ next[c] \in 1..Len(req[c].keys)
          /\ req[c].keys \in Seq(Keys)
      BY <1>1, RequestKeys DEF HSet, Shape, TypeOK, CallAt
    <2> DEFINE k == req[c].keys[next[c]]
    <2>2. /\ k \in Keys
          /\ written'[c] = written[c] \union {k} /\ writer' = [writer EXCEPT ![k] = c]
          /\ \A j \in Keys \ {k} : docs'[j] = docs[j]
      BY <1>1, <2>1 DEF HSet, Shape, TypeOK
    <2>3. ASSUME req[c].ttl PROVE pc'[c] \in {"expire", "err"} /\ next'[c] = next[c]
      BY <1>1, <2>3 DEF HSet, Answer, Goto, LoseReply, Shape, TypeOK
    <2> HIDE DEF k
    <2>4. TTLAt(c)'
      <3> SUFFICES ASSUME req[c].ttl, NEW j \in written'[c], writer'[j] = c,
                          pc'[c] # "err", j # k
                   PROVE  docs'[j] # "plain"
        BY <2>1, <2>3 DEF TTLAt, k
      <3>1. j \in written[c] /\ j \in Keys /\ writer[j] = c
        BY <2>2 DEF Shape, TypeOK
      <3>2. pc[c] = "hset"
        BY <1>1 DEF HSet
      <3>3. QED
        BY <2>1, <2>2, <3>1, <3>2 DEF TTLInv, TTLAt
    <2>5. ASSUME NEW d \in Clients \ {c} PROVE TTLAt(d)'
      <3>1. /\ pc'[d] = pc[d] /\ req'[d] = req[d] /\ next'[d] = next[d]
            /\ written'[d] = written[d]
        BY OthersPlace
      <3>2. \A j \in written[d] : writer'[j] = d => j # k /\ j \in Keys /\ writer[j] = d
        BY <2>2 DEF Shape, TypeOK
      <3>3. QED
        BY <2>2, <3>1, <3>2 DEF TTLInv, TTLAt
    <2>6. QED
      BY <2>4, <2>5 DEF TTLInv
  <1>2. CASE ~HSet(c)
    <2>1. /\ \A k \in Keys : docs'[k] = "plain" => docs[k] = "plain"
          /\ written' = written /\ writer' = writer
      BY <1>2, PlainIsWritten
    <2>2. ASSUME NEW d \in Clients \ {c} PROVE TTLAt(d)'
      <3>1. /\ pc'[d] = pc[d] /\ req'[d] = req[d] /\ next'[d] = next[d]
        BY OthersPlace
      <3>2. written[d] \subseteq Keys
        BY DEF Shape, TypeOK
      <3>3. QED
        BY <2>1, <3>1, <3>2 DEF TTLInv, TTLAt
    <2>3. TTLAt(c)'
      <3>1. req' = req
        BY DEF RoundTrip, Exists, Overwrite, Delete, CreateIndex, Batch, HSet, Expire,
               DropKeys, ClearSearch, ClearDel
      <3>2. written[c] \subseteq Keys
        BY DEF Shape, TypeOK
      <3>3. CASE Expire(c)
        <4>1. \A k \in Keys : k = req[c].keys[next[c]] => docs'[k] # "plain"
          BY <3>3 DEF Expire, Shape, TypeOK
        <4>2. pc[c] = "expire"
          BY <3>3 DEF Expire
        <4>3. QED
          BY <2>1, <3>1, <3>2, <4>1, <4>2 DEF TTLInv, TTLAt
      <3>4. CASE ~Expire(c)
        <4>1. pc[c] \notin {"expire", "err"}
          BY <1>2, <3>4 DEF RoundTrip, Exists, Overwrite, Delete, CreateIndex, Batch,
                            DropKeys, ClearSearch, ClearDel
        <4>2. QED
          BY <2>1, <3>1, <3>2, <4>1 DEF TTLInv, TTLAt
      <3>5. QED
        BY <3>3, <3>4
    <2>4. QED
      BY <2>2, <2>3 DEF TTLInv
  <1>3. QED
    BY <1>1, <1>2

\* Load of index.go with a TTL: a document it wrote is gone or expires when it has returned
\* without error, unless another client wrote it again in the meantime.
THEOREM LoadedExpire == Spec => []LoadSetsTTL
  <1>1. Init => TTLInv
    BY DEF Init, TTLInv, TTLAt, NoRequest
  <1>2. Shape /\ TTLInv /\ [Next]_vars => TTLInv'
    <2> SUFFICES ASSUME Shape, TTLInv, [Next]_vars PROVE TTLInv'
      OBVIOUS
    <2>1. ASSUME NEW c \in Clients, NEW r \in Requests, Begin(c, r) PROVE TTLInv'
      <3>1. ASSUME NEW d \in Clients \ {c}
            PROVE  /\ pc'[d] = pc[d] /\ next'[d] = next[d] /\ req'[d] = req[d]
                   /\ written'[d] = written[d]
        BY <2>1 DEF Begin, Goto, Shape, TypeOK
      <3>2. written'[c] = {} /\ docs' = docs /\ writer' = writer
        BY <2>1 DEF Begin, server, Shape, TypeOK
      <3>3. QED
        BY <3>1, <3>2 DEF TTLInv, TTLAt
    <2>2. ASSUME NEW c \in Clients, LoseRequest(c) PROVE TTLInv'
      <3>1. UNCHANGED <<docs, req, next, written, writer>>
        BY <2>2 DEF LoseRequest, history
      <3>2. \A d \in Clients : pc'[d] = IF d = c THEN "err" ELSE pc[d]
        BY <2>2 DEF LoseRequest, LoseReply, Shape, TypeOK
      <3>3. QED
        BY <3>1, <3>2 DEF TTLInv, TTLAt
    <2>3. ASSUME NEW k \in Keys, Evict(k) PROVE TTLInv'
      <3>1. UNCHANGED <<pc, req, next, written, writer>>
        BY <2>3 DEF Evict
      <3>2. \A j \in Keys : docs'[j] = "plain" => docs[j] = "plain"
        BY <2>3 DEF Evict, Shape, TypeOK
      <3>3. \A d \in Clients : written[d] \subseteq Keys
        BY DEF Shape, TypeOK
      <3>4. QED
        BY <3>1, <3>2, <3>3 DEF TTLInv, TTLAt
    <2>4. CASE UNCHANGED vars
      BY <2>4 DEF vars, TTLInv, TTLAt
    <2>5. QED
      BY <2>1, <2>2, <2>3, <2>4, TTLStep DEF Next
  <1>3. TTLInv => LoadSetsTTL
    BY DEF TTLInv, TTLAt, LoadSetsTTL
  <1>4. QED
    BY <1>1, <1>2, <1>3, ShapeInvariant, PTL DEF Spec

-----------------------------------------------------------------------------
(* Load: whole batches. *)

\* The keys of the first n records.
Upto(r, n) == {r.keys[i] : i \in 1..n}

\* Record n is in the batch that begins behind the first s records, and no record up to the
\* end of that batch is invalid.
InBatch(r, s, n) ==
    /\ s % BatchSize = 0 /\ s < n /\ n <= BatchEnd(r, s + 1)
    /\ \A i \in 1..BatchEnd(r, s + 1) : ~Invalid(r, i)

\* Between two batches.
AtBatch(r, n) ==
    /\ n <= Len(r.keys) + 1
    /\ (n - 1) % BatchSize = 0 \/ n = Len(r.keys) + 1
    /\ \A i \in 1..(n - 1) : ~Invalid(r, i)

\* What a Load has written at each place of its pipelines.
WrittenAt(c) ==
    req[c].op = "load" =>
        /\ pc[c] # "err" => req[c].wellFormed
        /\ pc[c] \in {"batch", "hset"} => written[c] = Upto(req[c], next[c] - 1)
        /\ pc[c] = "expire" => written[c] = Upto(req[c], next[c])
        /\ pc[c] = "batch" => AtBatch(req[c], next[c])
        /\ pc[c] \in {"hset", "expire"} => \E s \in Nat : InBatch(req[c], s, next[c])
        /\ pc[c] = "ok" => written[c] = Upto(req[c], Len(req[c].keys)) /\ req[c].invalid = 0
        /\ pc[c] = "err" /\ faults = 0 =>
              written[c] = IF ~req[c].wellFormed THEN {}
                           ELSE Upto(req[c], ((req[c].invalid - 1) \div BatchSize) * BatchSize)

WrittenInv == \A c \in Clients : WrittenAt(c)

\* Arithmetic of batches: where the next one begins, and which one a record is in.
LEMMA NextBatch ==
    ASSUME NEW s \in Nat, s % BatchSize = 0
    PROVE  (s + BatchSize) % BatchSize = 0
  <1> DEFINE B == BatchSize
             q == s \div B
             x == s + B
  <1>1. B \in Nat \ {0}
    BY ConstantsAssumption
  <1> HIDE DEF B
  <1>2. s = B * q /\ q \in Int
    BY <1>1 DEF B
  <1> HIDE DEF q
  <1>3. x \div B = q + 1
    BY <1>1, <1>2
  <1>4. x = B * (q + 1) /\ x \in Int
    BY <1>1, <1>2
  <1> HIDE DEF x
  <1>5. x = B * (x \div B) + (x % B)
    BY <1>1, <1>4
  <1>6. x % B = 0
    BY <1>1, <1>2, <1>3, <1>4, <1>5
  <1>7. QED
    BY <1>6 DEF x, B

\* The batch of record m + 1 begins behind the multiple of BatchSize below it.
LEMMA BatchOf ==
    ASSUME NEW s \in Nat, s % BatchSize = 0, NEW m \in s..(s + BatchSize - 1)
    PROVE  (m \div BatchSize) * BatchSize = s
  <1> DEFINE B == BatchSize
             q == s \div B
  <1>1. B \in Nat \ {0}
    BY ConstantsAssumption
  <1> HIDE DEF B
  <1>2. s = B * q /\ q \in Int
    BY <1>1 DEF B
  <1> HIDE DEF q
  <1>3. m \div B = q
    BY <1>1, <1>2 DEF B
  <1>4. QED
    BY <1>1, <1>2, <1>3 DEF B

\* One more record.
LEMMA UptoGrows ==
    ASSUME NEW r, NEW n \in Nat \ {0}
    PROVE  Upto(r, n - 1) \union {r.keys[n]} = Upto(r, n)
  BY DEF Upto

\* A Load has well-formed arguments.
LEMMA LoadRequest ==
    ASSUME NEW r \in Requests \union {NoRequest}, r.op = "load"
    PROVE  /\ r.keys \in Seq(Keys) /\ Len(r.keys) \in Nat
           /\ r.invalid \in 0..Len(r.keys) /\ r.wellFormed \in BOOLEAN /\ r.ttl \in BOOLEAN
  <1>1. r \in Requests
    BY DEF NoRequest
  <1>2. /\ r.keys \in Seq(Keys) /\ r.invalid \in Nat
        /\ r.wellFormed \in BOOLEAN /\ r.ttl \in BOOLEAN
    BY <1>1, ConstantsAssumption DEF Request
  <1>3. r.invalid <= Len(r.keys)
    BY <1>1, ConstantsAssumption
  <1>4. QED
    BY <1>2, <1>3

\* Behind a record of a batch is another of it, or the next batch.
LEMMA NextRecord ==
    ASSUME NEW r \in Requests, r.op = "load", NEW s \in Nat, NEW n \in 1..Len(r.keys),
           InBatch(r, s, n)
    PROVE  /\ Advance(r, n) = "batch" => AtBatch(r, n + 1)
           /\ Advance(r, n) = "hset" => InBatch(r, s, n + 1)
           /\ Advance(r, n) \in {"batch", "hset"}
  <1>1. Len(r.keys) \in Nat /\ BatchSize \in Nat \ {0}
    BY LoadRequest, ConstantsAssumption
  <1>2. (s + BatchSize) % BatchSize = 0
    BY NextBatch DEF InBatch
  <1>3. /\ BatchEnd(r, s + 1) \in Nat /\ n <= BatchEnd(r, s + 1)
        /\ BatchEnd(r, s + 1) <= Len(r.keys) /\ BatchEnd(r, s + 1) <= s + BatchSize
        /\ BatchEnd(r, s + 1) \in {Len(r.keys), s + BatchSize}
    BY <1>1 DEF InBatch, BatchEnd
  <1>4. ASSUME n = Len(r.keys) \/ n % BatchSize = 0 PROVE AtBatch(r, n + 1)
    BY <1>1, <1>3, <1>4 DEF AtBatch, InBatch
  <1>5. ASSUME n # Len(r.keys), n % BatchSize # 0 PROVE InBatch(r, s, n + 1)
    <2>1. n # s + BatchSize
      BY <1>2, <1>5
    <2>2. n + 1 <= BatchEnd(r, s + 1)
      BY <1>1, <1>3, <1>5, <2>1
    <2>3. QED
      BY <1>1, <2>2 DEF InBatch
  <1>6. QED
    BY <1>4, <1>5 DEF Advance

\* Validation of a batch: it goes on with the first record, ends the Load, or fails.
LEMMA BatchWrites ==
    ASSUME Shape, NEW c \in Clients, WrittenAt(c), Batch(c)
    PROVE  WrittenAt(c)'
  <1> DEFINE r == req[c]
             n == next[c]
  <1>1. /\ r.op = "load" /\ r \in Requests \union {NoRequest} /\ n \in Nat \ {0}
        /\ pc[c] = "batch"
    BY DEF Batch, Shape, TypeOK, CallAt
  <1>2. /\ Len(r.keys) \in Nat /\ r.invalid \in 0..Len(r.keys) /\ BatchSize \in Nat \ {0}
    BY <1>1, LoadRequest, ConstantsAssumption
  <1>3. r.wellFormed /\ written[c] = Upto(r, n - 1) /\ AtBatch(r, n)
    BY <1>1 DEF WrittenAt
  <1>4. UNCHANGED <<req, next, written, faults>>
    BY DEF Batch, Goto, history
  <1>5. pc'[c] = IF n > Len(r.keys) THEN "ok"
                 ELSE IF \E i \in n..BatchEnd(r, n) : Invalid(r, i) THEN "err" ELSE "hset"
    BY DEF Batch, Goto, Shape, TypeOK
  <1> HIDE DEF r, n
  <1>6. CASE n > Len(r.keys)
    <2>1. n = Len(r.keys) + 1 /\ pc'[c] = "ok"
      BY <1>1, <1>2, <1>3, <1>5, <1>6 DEF AtBatch
    <2>2. r.invalid = 0
      BY <1>2, <1>3, <2>1 DEF AtBatch, Invalid
    <2>3. written[c] = Upto(r, Len(r.keys))
      BY <1>2, <1>3, <2>1
    <2>4. QED
      BY <1>3, <1>4, <2>1, <2>2, <2>3 DEF WrittenAt, r
  <1>7. CASE n <= Len(r.keys)
    <2> DEFINE s == n - 1
    <2>1. s \in Nat /\ s % BatchSize = 0 /\ n = s + 1
      BY <1>1, <1>2, <1>3, <1>7 DEF AtBatch
    <2>2. BatchEnd(r, n) \in n..Len(r.keys) /\ BatchEnd(r, n) <= s + BatchSize
      BY <1>1, <1>2, <1>7 DEF BatchEnd
    <2> HIDE DEF s
    <2>3. CASE \E i \in n..BatchEnd(r, n) : Invalid(r, i)
      <3>1. r.invalid - 1 \in s..(s + BatchSize - 1)
        BY <1>1, <1>2, <2>1, <2>2, <2>3 DEF Invalid
      <3>2. ((r.invalid - 1) \div BatchSize) * BatchSize = s
        BY <2>1, <3>1, BatchOf
      <3>3. pc'[c] = "err"
        BY <1>1, <1>2, <1>5, <1>7, <2>3
      <3>4. written[c] = Upto(r, s)
        BY <1>3 DEF s
      <3>5. QED
        BY <1>3, <1>4, <3>2, <3>3, <3>4 DEF WrittenAt, r
    <2>4. CASE ~\E i \in n..BatchEnd(r, n) : Invalid(r, i)
      <3>1. pc'[c] = "hset"
        BY <1>1, <1>2, <1>5, <1>7, <2>4
      <3>2. \A i \in 1..BatchEnd(r, n) : ~Invalid(r, i)
        BY <1>1, <1>2, <1>3, <2>2, <2>4 DEF AtBatch
      <3>3. InBatch(r, s, n)
        BY <1>1, <2>1, <2>2, <3>2 DEF InBatch
      <3>4. QED
        BY <1>3, <1>4, <2>1, <3>1, <3>3 DEF WrittenAt, r, n
    <2>5. QED
      BY <2>3, <2>4
  <1>8. QED
    BY <1>1, <1>2, <1>6, <1>7

\* A command that was answered, or whose reply was lost.
LEMMA AnswerKinds ==
    ASSUME Shape, NEW c \in Clients, NEW l, Answer(c, l)
    PROVE  pc'[c] = l \/ (pc'[c] = "err" /\ faults' # 0)
  BY DEF Answer, Goto, LoseReply, Shape, TypeOK

\* HSET and EXPIRE of a record: the pipeline goes on, or the call ends in a fault.
LEMMA PipelineWrites ==
    ASSUME Shape, NEW c \in Clients, WrittenAt(c), req[c].op = "load", HSet(c) \/ Expire(c)
    PROVE  WrittenAt(c)'
  <1> DEFINE r == req[c]
             n == next[c]
  <1>1. /\ r \in Requests /\ n \in 1..Len(r.keys) /\ n \in Nat \ {0}
        /\ pc[c] \in {"hset", "expire"} /\ req' = req
    <2>1. r \in Requests
      BY DEF Shape, TypeOK, NoRequest
    <2>2. n \in 1..Len(r.keys) /\ pc[c] \in {"hset", "expire"} /\ req' = req
      BY DEF HSet, Expire, Shape, CallAt
    <2>3. Len(r.keys) \in Nat
      BY <2>1, LoadRequest
    <2>4. QED
      BY <2>1, <2>2, <2>3
  <1>2. r.wellFormed /\ r.ttl \in BOOLEAN
    BY <1>1, LoadRequest DEF WrittenAt
  <1>3. PICK s \in Nat : InBatch(r, s, n)
    BY <1>1 DEF WrittenAt
  <1>4. written'[c] = Upto(r, n)
    <2>1. CASE HSet(c)
      <3>1. written[c] = Upto(r, n - 1)
        BY <2>1 DEF HSet, WrittenAt
      <3>2. written'[c] = written[c] \union {r.keys[n]}
        BY <2>1 DEF HSet, Shape, TypeOK
      <3>3. QED
        BY <1>1, <3>1, <3>2, UptoGrows
    <2>2. CASE Expire(c)
      BY <2>2 DEF Expire, history, WrittenAt
    <2>3. QED
      BY <2>1, <2>2
  <1>5. PICK l \in {"batch", "hset", "expire"} :
           /\ Answer(c, l)
           /\ \/ l = "expire" /\ next'[c] = n
              \/ l = Advance(r, n) /\ next'[c] = n + 1
    <2>1. Advance(r, n) \in {"batch", "hset"}
      BY <1>1, <1>3, NextRecord
    <2>2. CASE HSet(c) /\ r.ttl
      BY <2>2 DEF HSet
    <2>3. CASE HSet(c) /\ ~r.ttl
      BY <2>1, <2>3 DEF HSet, Shape, TypeOK
    <2>4. CASE Expire(c)
      BY <2>1, <2>4 DEF Expire, Shape, TypeOK
    <2>5. QED
      BY <2>2, <2>3, <2>4
  <1>6. pc'[c] = l \/ (pc'[c] = "err" /\ faults' # 0)
    BY <1>5, AnswerKinds
  <1> HIDE DEF r, n
  <1>7. CASE pc'[c] = "err" /\ faults' # 0
    BY <1>1, <1>2, <1>7 DEF WrittenAt, r
  <1>8. CASE pc'[c] = l /\ l = "expire" /\ next'[c] = n
    BY <1>1, <1>2, <1>3, <1>4, <1>8 DEF WrittenAt, r
  <1>9. CASE pc'[c] = l /\ l = Advance(r, n) /\ next'[c] = n + 1
    <2>1. /\ l = "batch" => AtBatch(r, next'[c])
          /\ l = "hset" => InBatch(r, s, next'[c])
          /\ l \in {"batch", "hset"}
      BY <1>1, <1>3, <1>9, NextRecord DEF r
    <2>2. next'[c] - 1 = n
      BY <1>1, <1>9
    <2>3. QED
      BY <1>1, <1>2, <1>4, <1>9, <2>1, <2>2 DEF WrittenAt, r
  <1>10. QED
    BY <1>5, <1>6, <1>7, <1>8, <1>9

\* No step takes back a fault, and a Load is at no round trip but those of its pipelines.
LEMMA WrittenStep ==
    ASSUME Shape, WrittenInv, NEW c \in Clients, RoundTrip(c)
    PROVE  WrittenInv'
  <1>1. faults \in Nat /\ (faults' = 0 => faults = 0)
    <2>1. faults' = faults \/ faults' = faults + 1
      <3> USE DEF Answer, Goto, LoseReply
      <3>1. CASE Exists(c) \/ Batch(c) \/ CreateIndex(c)
        BY <3>1 DEF Exists, Batch, CreateIndex
      <3>2. CASE Overwrite(c) \/ Delete(c)
        BY <3>2 DEF Overwrite, Delete, DropIndex
      <3>3. CASE HSet(c)
        BY <3>3 DEF HSet
      <3>4. CASE Expire(c)
        BY <3>4 DEF Expire
      <3>5. CASE ClearSearch(c)
        BY <3>5 DEF ClearSearch
      <3>6. CASE DropKeys(c) \/ ClearDel(c)
        BY <3>6 DEF DropKeys, ClearDel, Del
      <3>7. QED
        BY <3>1, <3>2, <3>3, <3>4, <3>5, <3>6 DEF RoundTrip
    <2>2. QED
      BY <2>1 DEF Shape, TypeOK
  <1>2. ASSUME NEW d \in Clients \ {c} PROVE WrittenAt(d)'
    <2>1. /\ pc'[d] = pc[d] /\ req'[d] = req[d] /\ next'[d] = next[d]
          /\ written'[d] = written[d]
      BY OthersPlace
    <2>2. QED
      BY <1>1, <2>1 DEF WrittenInv, WrittenAt
  <1>3. WrittenAt(c)'
    <2>1. CASE Batch(c)
      BY <2>1, BatchWrites DEF WrittenInv
    <2>2. CASE (HSet(c) \/ Expire(c)) /\ req[c].op = "load"
      BY <2>2, PipelineWrites DEF WrittenInv
    <2>3. CASE ~Batch(c) /\ ~((HSet(c) \/ Expire(c)) /\ req[c].op = "load")
      <3>1. req[c].op # "load" /\ req' = req
        BY <2>3 DEF RoundTrip, Exists, Overwrite, Delete, CreateIndex, HSet, Expire,
                    DropKeys, ClearSearch, ClearDel, Shape, CallAt
      <3>2. QED
        BY <3>1 DEF WrittenAt
    <2>4. QED
      BY <2>1, <2>2, <2>3
  <1>4. QED
    BY <1>2, <1>3 DEF WrittenInv

\* Load of index.go returns all its keys with every record written, or stops at the batch of
\* the first invalid record and has written exactly the batches before it.
THEOREM LoadsWholeBatches == Spec => []LoadWritesWholeBatches
  <1>1. Init => WrittenInv
    BY DEF Init, WrittenInv, WrittenAt, NoRequest
  <1>2. Shape /\ WrittenInv /\ [Next]_vars => WrittenInv'
    <2> SUFFICES ASSUME Shape, WrittenInv, [Next]_vars PROVE WrittenInv'
      OBVIOUS
    <2>1. ASSUME NEW c \in Clients, NEW r \in Requests, Begin(c, r) PROVE WrittenInv'
      <3>1. ASSUME NEW d \in Clients \ {c} PROVE WrittenAt(d)'
        <4>1. /\ pc'[d] = pc[d] /\ next'[d] = next[d] /\ req'[d] = req[d]
              /\ written'[d] = written[d] /\ faults' = faults
          BY <2>1 DEF Begin, Goto, Shape, TypeOK
        <4>2. QED
          BY <4>1 DEF WrittenInv, WrittenAt
      <3>2. WrittenAt(c)'
        <4> SUFFICES ASSUME r.op = "load" PROVE WrittenAt(c)'
          BY <2>1 DEF Begin, WrittenAt, Shape, TypeOK
        <4>1. written'[c] = {} /\ next'[c] = 1 /\ req'[c] = r /\ pc'[c] = First(r)
          BY <2>1 DEF Begin, Goto, Shape, TypeOK
        <4>2. r.wellFormed \in BOOLEAN /\ Len(r.keys) \in Nat /\ BatchSize \in Nat \ {0}
          BY LoadRequest, ConstantsAssumption
        <4>3. First(r) = IF r.wellFormed THEN "batch" ELSE "err"
          BY <4>2 DEF First, FirstTrip
        <4>4. Upto(r, 1 - 1) = {}
          BY DEF Upto
        <4>5. 0 % BatchSize = 0
          BY <4>2
        <4>6. AtBatch(r, 1)
          BY <4>2, <4>5 DEF AtBatch
        <4>7. QED
          BY <4>1, <4>2, <4>3, <4>4, <4>6 DEF WrittenAt
      <3>3. QED
        BY <3>1, <3>2 DEF WrittenInv
    <2>2. ASSUME NEW c \in Clients, LoseRequest(c) PROVE WrittenInv'
      <3>1. UNCHANGED <<req, next, written>> /\ faults' # 0
        BY <2>2 DEF LoseRequest, LoseReply, history, Shape, TypeOK
      <3>2. \A d \in Clients : pc'[d] = IF d = c THEN "err" ELSE pc[d]
        BY <2>2 DEF LoseRequest, LoseReply, Shape, TypeOK
      <3>3. QED
        BY <3>1, <3>2 DEF WrittenInv, WrittenAt
    <2>3. CASE (\E k \in Keys : Evict(k)) \/ UNCHANGED vars
      <3>1. UNCHANGED <<pc, req, next, written, faults>>
        BY <2>3 DEF Evict, vars
      <3>2. QED
        BY <3>1 DEF WrittenInv, WrittenAt
    <2>4. QED
      BY <2>1, <2>2, <2>3, WrittenStep DEF Next
  <1>3. Shape /\ WrittenInv => LoadWritesWholeBatches
    BY DEF WrittenInv, WrittenAt, Upto, LoadWritesWholeBatches
  <1>4. QED
    BY <1>1, <1>2, <1>3, ShapeInvariant, PTL DEF Spec

-----------------------------------------------------------------------------
(* The documents that DropKeys and Clear count. *)

\* A set of naturals has a least one.
LEMMA Least ==
    ASSUME NEW S, S \subseteq Nat, S # {}
    PROVE  \E x \in S : \A y \in S : x <= y
  <1> DEFINE less == {p \in Nat \X Nat : p[1] < p[2]}
  <1>1. IsWellFoundedOn(less, Nat)
    BY NatLessThanWellFounded DEF OpToRel
  <1>2. PICK x \in S : \A y \in S : <<y, x>> \notin less
    <2> HIDE DEF less
    <2>1. QED
      BY <1>1, WFMin
  <1>3. ASSUME NEW y \in S PROVE x <= y
    <2>1. ~(y < x)
      BY <1>2
    <2>2. QED
      BY <2>1
  <1>4. QED
    BY <1>3

\* Induction over the naturals, stated of a set and not of a property.
LEMMA NatInduct ==
    ASSUME NEW S, 0 \in S, \A n \in Nat : n \in S => n + 1 \in S
    PROVE  Nat \subseteq S
  <1> DEFINE rest == Nat \ S
  <1> SUFFICES ASSUME rest # {} PROVE FALSE
    OBVIOUS
  <1>1. PICK x \in rest : \A y \in rest : x <= y
    <2> HIDE DEF rest
    <2>1. rest \subseteq Nat
      BY DEF rest
    <2>2. QED
      BY <2>1, Least
  <1>2. x \in Nat \ {0}
    OBVIOUS
  <1>3. x - 1 \in Nat /\ (x - 1) + 1 = x /\ ~(x <= x - 1)
    BY <1>2
  <1>4. x - 1 \in S
    BY <1>1, <1>3
  <1>5. QED
    BY <1>3, <1>4

\* what SumOf adds up of the counts of DropKeys and Clear, a client at a time.
SumParts(f, F) ==
    \A D \in SUBSET Clients :
        F[D] = IF D = {} THEN 0 ELSE f[CHOOSE x \in D : TRUE] + F[D \ {CHOOSE x \in D : TRUE}]

\* A set of clients without its chosen one is smaller by one.
LEMMA OneLess ==
    ASSUME NEW D \in SUBSET Clients, D # {}
    PROVE  LET d == CHOOSE x \in D : TRUE
           IN  /\ d \in D /\ d \in Clients /\ D \ {d} \in SUBSET Clients
               /\ Cardinality(D \ {d}) = Cardinality(D) - 1
  <1> DEFINE d == CHOOSE x \in D : TRUE
  <1>1. d \in D
    OBVIOUS
  <1> HIDE DEF d
  <1>2. Cardinality(D \ {d}) = Cardinality(D) - 1
    <2>1. IsFiniteSet(D)
      BY FS_Subset, ConstantsAssumption
    <2>2. QED
      BY <1>1, <2>1, FS_RemoveElement
  <1>3. QED
    BY <1>1, <1>2 DEF d

\* The number of a set of clients.
LEMMA FiniteClients ==
    /\ IsFiniteSet(Clients) /\ Cardinality(Clients) \in Nat
    /\ \A D \in SUBSET Clients :
          /\ Cardinality(D) \in Nat /\ Cardinality(D) <= Cardinality(Clients)
          /\ Cardinality(D) = 0 <=> D = {}
  <1>1. IsFiniteSet(Clients) /\ Cardinality(Clients) \in Nat
    BY ConstantsAssumption, FS_CardinalityType
  <1>2. ASSUME NEW D \in SUBSET Clients
        PROVE  /\ Cardinality(D) \in Nat /\ Cardinality(D) <= Cardinality(Clients)
               /\ Cardinality(D) = 0 <=> D = {}
    BY <1>1, FS_Subset, FS_CardinalityType, FS_EmptySet
  <1>3. QED
    BY <1>1, <1>2

\* SumOf is defined: the parts of the sum over all clients exist.
LEMMA SumIsDefined ==
    ASSUME NEW f
    PROVE  \E F : SumParts(f, F) /\ SumOf(f) = F[Clients]
  <1> DEFINE el(D)   == CHOOSE x \in D : TRUE
             h(F, D) == IF D = {} THEN 0 ELSE f[el(D)] + F[D \ {el(D)}]
  <1>1. ASSUME NEW D \in SUBSET Clients, D # {}
        PROVE  D \ {el(D)} \in SUBSET Clients /\ Cardinality(D \ {el(D)}) = Cardinality(D) - 1
    BY <1>1, OneLess
  <1> HIDE DEF el
  <1>2. \E F : \A D \in SUBSET Clients : F[D] = h(F, D)
    <2> DEFINE P(n) == \E F : \A D \in SUBSET Clients : Cardinality(D) <= n => F[D] = h(F, D)
               T    == {n \in Nat : P(n)}
    <2>1. P(0)
      <3> DEFINE z == [D \in SUBSET Clients |-> 0]
      <3>1. \A D \in SUBSET Clients : Cardinality(D) <= 0 => z[D] = h(z, D)
        BY FiniteClients
      <3> HIDE DEF z
      <3>2. QED
        BY <3>1
    <2>2. ASSUME NEW n \in Nat, P(n) PROVE P(n + 1)
      <3>1. PICK F : \A D \in SUBSET Clients : Cardinality(D) <= n => F[D] = h(F, D)
        BY <2>2
      <3> DEFINE G == [D \in SUBSET Clients |-> IF Cardinality(D) <= n THEN F[D] ELSE h(F, D)]
      <3>2. ASSUME NEW D \in SUBSET Clients, Cardinality(D) <= n + 1 PROVE G[D] = h(G, D)
        <4>1. G[D] = h(F, D)
          BY <3>1
        <4>2. D # {} => G[D \ {el(D)}] = F[D \ {el(D)}]
          BY <1>1, <3>2, FiniteClients
        <4>3. QED
          BY <4>1, <4>2
      <3> HIDE DEF G
      <3>3. QED
        BY <3>2
    <2> HIDE DEF P
    <2>3. 0 \in T /\ \A n \in Nat : n \in T => n + 1 \in T
      BY <2>1, <2>2
    <2>4. Nat \subseteq T
      <3> HIDE DEF T
      <3>1. QED
        BY <2>3, NatInduct
    <2>5. P(Cardinality(Clients))
      BY <2>4, FiniteClients
    <2>6. QED
      BY <2>5, FiniteClients DEF P
  <1> DEFINE F == CHOOSE E : E = [D \in SUBSET Clients |-> h(E, D)]
  <1>3. F = [D \in SUBSET Clients |-> h(F, D)]
    <2>1. PICK G : \A D \in SUBSET Clients : G[D] = h(G, D)
      BY <1>2
    <2> DEFINE H == [D \in SUBSET Clients |-> G[D]]
    <2>2. ASSUME NEW D \in SUBSET Clients PROVE H[D] = h(H, D)
      BY <1>1, <2>1
    <2>3. H = [D \in SUBSET Clients |-> h(H, D)]
      BY <2>2
    <2> HIDE DEF H
    <2>4. \E E : E = [D \in SUBSET Clients |-> h(E, D)]
      BY <2>3
    <2>5. QED
      BY <2>4, Zenon
  <1>4. SumOf(f) = F[Clients]
    BY DEF SumOf, el
  <1> HIDE DEF F
  <1>5. SumParts(f, F)
    BY <1>3 DEF SumParts, el
  <1>6. QED
    BY <1>4, <1>5

\* Before DropKeys or Clear ran, nothing is counted.
LEMMA SumOfZeros == SumOf([c \in Clients |-> 0]) = 0
  <1> DEFINE f == [c \in Clients |-> 0]
  <1>1. \A d \in Clients : f[d] = 0
    OBVIOUS
  <1> HIDE DEF f
  <1>2. PICK F : SumParts(f, F) /\ SumOf(f) = F[Clients]
    BY SumIsDefined
  <1> DEFINE T == {n \in Nat : \A D \in SUBSET Clients : Cardinality(D) <= n => F[D] = 0}
  <1>3. 0 \in T
    BY <1>2, FiniteClients DEF SumParts
  <1>4. ASSUME NEW n \in Nat, n \in T PROVE n + 1 \in T
    <2> SUFFICES ASSUME NEW D \in SUBSET Clients, Cardinality(D) <= n + 1 PROVE F[D] = 0
      OBVIOUS
    <2>1. CASE D = {}
      BY <1>2, <2>1 DEF SumParts
    <2>2. CASE D # {}
      <3>1. PICK d \in D : /\ F[D] = f[d] + F[D \ {d}] /\ D \ {d} \in SUBSET Clients
                           /\ Cardinality(D \ {d}) = Cardinality(D) - 1
        BY <1>2, <2>2, OneLess DEF SumParts
      <3>2. F[D \ {d}] = 0
        BY <1>4, <3>1, FiniteClients
      <3>3. QED
        BY <1>1, <3>1, <3>2
    <2>3. QED
      BY <2>1, <2>2
  <1> HIDE DEF T
  <1>5. Nat \subseteq T
    BY <1>3, <1>4, NatInduct
  <1>6. Cardinality(Clients) \in T
    BY <1>5, FiniteClients
  <1>7. QED
    BY <1>2, <1>6, FiniteClients DEF T, f

\* When the count of one client's DropKeys or Clear changes, the sum changes by as much.
LEMMA SumMoves ==
    ASSUME NEW f \in [Clients -> Int], NEW g \in [Clients -> Int], NEW c \in Clients,
           \A d \in Clients \ {c} : g[d] = f[d]
    PROVE  SumOf(f) \in Int /\ SumOf(g) = SumOf(f) + (g[c] - f[c])
  <1>1. PICK F : SumParts(f, F) /\ SumOf(f) = F[Clients]
    BY SumIsDefined
  <1>2. PICK G : SumParts(g, G) /\ SumOf(g) = G[Clients]
    BY SumIsDefined
  <1> DEFINE Follows(D) == /\ F[D] \in Int
                           /\ G[D] = IF c \in D THEN F[D] + (g[c] - f[c]) ELSE F[D]
             T == {n \in Nat : \A D \in SUBSET Clients : Cardinality(D) <= n => Follows(D)}
  <1>3. Follows({})
    <2>1. {} \in SUBSET Clients
      OBVIOUS
    <2>2. F[{}] = 0 /\ G[{}] = 0
      BY <1>1, <1>2, <2>1 DEF SumParts
    <2>3. QED
      BY <2>2
  <1>4. ASSUME NEW n \in Nat, n \in T, NEW D \in SUBSET Clients, Cardinality(D) <= n + 1
        PROVE  Follows(D)
    <2>1. CASE D = {}
      BY <1>3, <2>1
    <2>2. CASE D # {}
      <3>1. PICK d \in D : /\ F[D] = f[d] + F[D \ {d}] /\ G[D] = g[d] + G[D \ {d}]
                           /\ D \ {d} \in SUBSET Clients
                           /\ Cardinality(D \ {d}) = Cardinality(D) - 1
        BY <1>1, <1>2, <2>2, OneLess DEF SumParts
      <3>2. Follows(D \ {d})
        BY <1>4, <3>1, FiniteClients
      <3>3. f[d] \in Int /\ g[d] \in Int /\ f[c] \in Int /\ g[c] \in Int
        OBVIOUS
      <3>4. CASE d = c
        BY <3>1, <3>2, <3>3, <3>4
      <3>5. CASE d # c
        <4>1. g[d] = f[d] /\ (c \in D <=> c \in D \ {d})
          BY <3>5
        <4>2. QED
          BY <3>1, <3>2, <3>3, <4>1
      <3>6. QED
        BY <3>4, <3>5
    <2>3. QED
      BY <2>1, <2>2
  <1> HIDE DEF Follows
  <1>5. 0 \in T /\ \A n \in Nat : n \in T => n + 1 \in T
    BY <1>3, <1>4, FiniteClients
  <1> HIDE DEF T
  <1>6. Cardinality(Clients) \in T
    BY <1>5, NatInduct, FiniteClients
  <1>7. Follows(Clients)
    BY <1>6, FiniteClients DEF T
  <1>8. QED
    BY <1>1, <1>2, <1>7 DEF Follows

\* What is removed are the documents asked for that are there.
LEMMA Removed ==
    ASSUME NEW S, RemoveDocs(S)
    PROVE  /\ Present' = Present \ S
           /\ Cardinality(Present') = Cardinality(Present) - Cardinality(S \intersect Present)
           /\ Cardinality(S \intersect Present) \in Nat
  <1>1. Present' = Present \ S
    BY DEF RemoveDocs, Present
  <1>2. PICK P : P = Present
    OBVIOUS
  <1>3. IsFiniteSet(P) /\ P \intersect S = S \intersect P
    BY <1>2, FiniteDocs, PresentIsKeys
  <1>4. Cardinality(P \ S) = Cardinality(P) - Cardinality(P \intersect S)
    BY <1>3, FS_Difference
  <1>5. Cardinality(S \intersect P) \in Nat
    BY <1>2, FiniteDocs, PresentIsKeys
  <1>6. QED
    BY <1>1, <1>2, <1>3, <1>4, <1>5

\* A step that neither creates nor removes nor counts a document keeps the balance.
LEMMA BalanceKept ==
    ASSUME EveryRemovalCountedOnce, Present' = Present, total' = total, ledger' = ledger
    PROVE  EveryRemovalCountedOnce'
  BY DEF EveryRemovalCountedOnce

\* A count that a call adds or forgets is in the sum.
LEMMA CountMoves ==
    ASSUME Shape, NEW c \in Clients, NEW n \in Nat, total' = [total EXCEPT ![c] = n]
    PROVE  SumOf(total) \in Int /\ SumOf(total') = SumOf(total) + (n - total[c])
  <1>1. PICK f : f = total
    OBVIOUS
  <1>2. PICK g : g = total'
    OBVIOUS
  <1>3. /\ f \in [Clients -> Int] /\ g \in [Clients -> Int] /\ g[c] = n
        /\ \A d \in Clients \ {c} : g[d] = f[d]
    BY <1>1, <1>2 DEF Shape, TypeOK
  <1>4. SumOf(f) \in Int /\ SumOf(g) = SumOf(f) + (g[c] - f[c])
    BY <1>3, SumMoves
  <1>5. QED
    BY <1>1, <1>2, <1>3, <1>4

\* The terms of the balance are numbers.
LEMMA SumTyped ==
    ASSUME Shape
    PROVE  SumOf(total) \in Int /\ Cardinality(Present) \in Nat /\ ledger \in Int
  <1>1. PICK f : f = total
    OBVIOUS
  <1>2. f \in [Clients -> Int]
    BY <1>1 DEF Shape, TypeOK
  <1>3. SumOf(f) \in Int
    <2>1. CASE Clients = {}
      <3>1. PICK F : SumParts(f, F) /\ SumOf(f) = F[Clients]
        BY SumIsDefined
      <3>2. Clients \in SUBSET Clients
        OBVIOUS
      <3>3. QED
        BY <2>1, <3>1, <3>2 DEF SumParts
    <2>2. CASE Clients # {}
      BY <1>2, <2>2, SumMoves
    <2>3. QED
      BY <2>1, <2>2
  <1>4. QED
    BY <1>1, <1>3, FiniteDocs, PresentIsKeys DEF Shape, TypeOK

\* DEL of DropKeys and Clear counts what it removed, or loses the count with its reply.
LEMMA DelBalances ==
    ASSUME Shape, EveryRemovalCountedOnce, NEW c \in Clients, NEW S,
           NEW l \in Labels \ {"err"}, Del(c, S, l)
    PROVE  EveryRemovalCountedOnce'
  <1> DEFINE n == Cardinality(S \intersect Present)
  <1>1. n \in Nat /\ Cardinality(Present') = Cardinality(Present) - n
    BY Removed DEF Del
  <1>2. SumOf(total) \in Int /\ Cardinality(Present) \in Nat /\ ledger \in Int
    BY SumTyped
  <1>3. total[c] \in Nat
    BY DEF Shape, TypeOK
  <1>4. CASE pc'[c] = "err"
    <2>1. total' = total /\ ledger' = ledger - n
      BY <1>4 DEF Del
    <2>2. QED
      BY <1>1, <1>2, <2>1 DEF EveryRemovalCountedOnce
  <1>5. CASE pc'[c] # "err"
    <2>1. total' = [total EXCEPT ![c] = total[c] + n] /\ ledger' = ledger
      BY <1>5 DEF Del
    <2> HIDE DEF n
    <2>2. total[c] + n \in Nat
      BY <1>1, <1>3
    <2>3. SumOf(total') = SumOf(total) + ((total[c] + n) - total[c])
      BY <2>1, <2>2, CountMoves
    <2>4. QED
      BY <1>1, <1>2, <1>3, <2>1, <2>3 DEF EveryRemovalCountedOnce
  <1>6. QED
    BY <1>4, <1>5

\* FT.DROPINDEX DD removes what the index tracks, which nobody counts.
LEMMA DropBalances ==
    ASSUME Shape, EveryRemovalCountedOnce, NEW c \in Clients, NEW reason, NEW l,
           DropIndex(c, reason, l), total' = total
    PROVE  EveryRemovalCountedOnce'
  <1>1. CASE index # "live"
    BY <1>1, BalanceKept DEF DropIndex, server, Present
  <1>2. CASE index = "live" /\ ~req[c].drop
    <2>1. RemoveDocs({}) /\ ledger' = ledger
      BY <1>2 DEF DropIndex
    <2>2. Present' = Present \ {}
      BY <2>1, Removed
    <2>3. Present' = Present
      BY <2>2
    <2>4. QED
      BY <2>1, <2>3, BalanceKept
  <1>3. CASE index = "live" /\ req[c].drop
    <2>1. RemoveDocs(Tracked) /\ ledger' = ledger - Cardinality(Tracked)
      BY <1>3 DEF DropIndex
    <2>2. /\ Cardinality(Present') =
                Cardinality(Present) - Cardinality(Tracked \intersect Present)
          /\ Cardinality(Tracked \intersect Present) \in Nat
      BY <2>1, Removed
    <2>3. Cardinality(Tracked \intersect Present) = Cardinality(Tracked)
      <3>1. Tracked \intersect Present = Tracked
        BY PresentIsKeys
      <3>2. QED
        BY <3>1, Zenon
    <2>4. SumOf(total) \in Int /\ Cardinality(Present) \in Nat /\ ledger \in Int
      BY SumTyped
    <2>5. QED
      BY <2>1, <2>2, <2>3, <2>4 DEF EveryRemovalCountedOnce
  <1>4. QED
    BY <1>1, <1>2, <1>3

\* HSET of a key that was not there creates a document.
LEMMA HSetBalances ==
    ASSUME Shape, EveryRemovalCountedOnce, NEW c \in Clients, HSet(c), next[c] \in Nat,
           req[c].keys[next[c]] \in Keys
    PROVE  EveryRemovalCountedOnce'
  <1> DEFINE k == req[c].keys[next[c]]
  <1>1. /\ docs' = [docs EXCEPT ![k] = IF @ = "none" THEN "plain" ELSE @]
        /\ ledger' = IF docs[k] = "none" THEN ledger + 1 ELSE ledger
        /\ total' = total
    BY DEF HSet
  <1>2. docs \in [Keys -> {"none", "plain", "ttl"}] /\ k \in Keys
    BY DEF Shape, TypeOK
  <1> HIDE DEF k
  <1>3. Present' = Present \union {k} /\ (k \in Present <=> docs[k] # "none")
    BY <1>1, <1>2 DEF Present
  <1>4. PICK P : P = Present
    OBVIOUS
  <1>5. Cardinality(P \union {k}) = IF k \in P THEN Cardinality(P) ELSE Cardinality(P) + 1
    BY <1>4, FiniteDocs, PresentIsKeys, FS_AddElement
  <1>6. SumOf(total) \in Int /\ Cardinality(Present) \in Nat /\ ledger \in Int
    BY SumTyped
  <1>7. QED
    BY <1>1, <1>3, <1>4, <1>5, <1>6 DEF EveryRemovalCountedOnce

\* A new call forgets the count of the one before, which has been returned.
LEMMA BeginBalances ==
    ASSUME Shape, EveryRemovalCountedOnce, NEW c \in Clients, NEW r \in Requests, Begin(c, r)
    PROVE  EveryRemovalCountedOnce'
  <1>1. total' = [total EXCEPT ![c] = 0] /\ ledger' = ledger - total[c] /\ Present' = Present
    BY DEF Begin, server, Present
  <1>2. total[c] \in Nat
    BY DEF Shape, TypeOK
  <1>3. SumOf(total) \in Int /\ SumOf(total') = SumOf(total) + (0 - total[c])
    BY <1>1, CountMoves
  <1>4. Cardinality(Present) \in Nat /\ ledger \in Int
    BY SumTyped
  <1>5. QED
    BY <1>1, <1>2, <1>3, <1>4 DEF EveryRemovalCountedOnce

\* A document that expires is counted by nobody.
LEMMA EvictBalances ==
    ASSUME Shape, EveryRemovalCountedOnce, NEW k \in Keys, Evict(k)
    PROVE  EveryRemovalCountedOnce'
  <1>1. docs' = [docs EXCEPT ![k] = "none"] /\ ledger' = ledger - 1 /\ total' = total
    BY DEF Evict
  <1>2. docs \in [Keys -> {"none", "plain", "ttl"}] /\ docs[k] = "ttl"
    BY DEF Shape, TypeOK, Evict
  <1>3. Present' = Present \ {k} /\ k \in Present
    BY <1>1, <1>2 DEF Present
  <1>4. PICK P : P = Present
    OBVIOUS
  <1>5. Cardinality(P \ {k}) = Cardinality(P) - 1 /\ Cardinality(P) \in Nat
    BY <1>3, <1>4, FiniteDocs, PresentIsKeys, FS_RemoveElement
  <1>6. SumOf(total) \in Int /\ Cardinality(Present) \in Nat /\ ledger \in Int
    BY SumTyped
  <1>7. QED
    BY <1>1, <1>3, <1>4, <1>5, <1>6 DEF EveryRemovalCountedOnce

\* Every round trip keeps the balance of documents created, removed and counted.
LEMMA RoundTripBalances ==
    ASSUME Shape, EveryRemovalCountedOnce, NEW c \in Clients, RoundTrip(c)
    PROVE  EveryRemovalCountedOnce'
  <1>1. CASE Exists(c) \/ CreateIndex(c) \/ Batch(c) \/ ClearSearch(c)
    <2>1. Present' = Present /\ total' = total /\ ledger' = ledger
      BY <1>1 DEF Exists, CreateIndex, Batch, ClearSearch, server, history, Present
    <2>2. QED
      BY <2>1, BalanceKept
  <1>2. CASE Overwrite(c)
    <2>1. DropIndex(c, "replacing", "create") /\ total' = total
      BY <1>2 DEF Overwrite
    <2>2. QED
      BY <2>1, DropBalances
  <1>3. CASE Delete(c)
    <2>1. DropIndex(c, "deleted", "ok") /\ total' = total
      BY <1>3 DEF Delete
    <2>2. QED
      BY <2>1, DropBalances
  <1>4. CASE HSet(c)
    <2>1. req[c] \in Requests \union {NoRequest} /\ req[c].op = "load"
      BY <1>4 DEF HSet, Shape, TypeOK, CallAt
    <2>2. req[c].keys \in Seq(Keys) /\ next[c] \in 1..Len(req[c].keys)
      BY <1>4, <2>1, RequestKeys DEF HSet, Shape, CallAt
    <2>3. req[c].keys[next[c]] \in Keys /\ next[c] \in Nat
      BY <2>2
    <2>4. QED
      BY <1>4, <2>3, HSetBalances
  <1>5. CASE Expire(c)
    <2>1. total' = total /\ ledger' = ledger
      BY <1>5 DEF Expire, history
    <2>2. Present' = Present
      BY <1>5 DEF Expire, Present, Shape, TypeOK
    <2>3. QED
      BY <2>1, <2>2, BalanceKept
  <1>6. CASE DropKeys(c)
    <2>1. Del(c, req[c].keys, "ok")
      BY <1>6 DEF DropKeys
    <2>2. QED
      BY <2>1, DelBalances DEF Labels, Finished
  <1>7. CASE ClearDel(c)
    <2>1. PICK l \in {"ok", "search"} : Del(c, page[c], l)
      BY <1>7 DEF ClearDel
    <2>2. l \in Labels \ {"err"}
      BY DEF Labels, Finished
    <2>3. QED
      BY <2>1, <2>2, DelBalances
  <1>8. QED
    BY <1>1, <1>2, <1>3, <1>4, <1>5, <1>6, <1>7 DEF RoundTrip

\* What the calls of DropKeys and Clear count is what they removed: no document is
\* counted by two of them, nor one that expired or went with its index.
THEOREM RemovalsAreCounted == Spec => []EveryRemovalCountedOnce
  <1>1. Init => EveryRemovalCountedOnce
    <2> SUFFICES ASSUME Init PROVE EveryRemovalCountedOnce
      OBVIOUS
    <2>1. PICK f : f = [c \in Clients |-> 0]
      OBVIOUS
    <2>2. total = f /\ SumOf(f) = 0
      BY <2>1, SumOfZeros DEF Init
    <2>3. Cardinality(Present) \in Nat /\ ledger = Cardinality(Present)
      BY FiniteDocs, PresentIsKeys DEF Init
    <2>4. QED
      BY <2>2, <2>3 DEF EveryRemovalCountedOnce
  <1>2. Shape /\ EveryRemovalCountedOnce /\ [Next]_vars => EveryRemovalCountedOnce'
    <2> SUFFICES ASSUME Shape, EveryRemovalCountedOnce, [Next]_vars
                 PROVE  EveryRemovalCountedOnce'
      OBVIOUS
    <2>1. ASSUME NEW c \in Clients, RoundTrip(c) PROVE EveryRemovalCountedOnce'
      BY <2>1, RoundTripBalances
    <2>2. ASSUME NEW c \in Clients, LoseRequest(c) PROVE EveryRemovalCountedOnce'
      BY <2>2, BalanceKept DEF LoseRequest, history, Present
    <2>3. ASSUME NEW c \in Clients, NEW r \in Requests, Begin(c, r)
          PROVE  EveryRemovalCountedOnce'
      BY <2>3, BeginBalances
    <2>4. ASSUME NEW k \in Keys, Evict(k) PROVE EveryRemovalCountedOnce'
      BY <2>4, EvictBalances
    <2>5. CASE UNCHANGED vars
      BY <2>5, BalanceKept DEF vars, Present
    <2>6. QED
      BY <2>1, <2>2, <2>3, <2>4, <2>5 DEF Next
  <1>3. QED
    BY <1>1, <1>2, ShapeInvariant, PTL DEF Spec

-----------------------------------------------------------------------------
(* What queries match. *)

\* A string of one alternative matches what all its clauses hold of.
LEMMA OneMatches ==
    ASSUME NEW s, IsOne(s)
    PROVE  /\ Len(s) = 1 /\ DOMAIN s = {1}
           /\ \A d : Matches(s, d) <=> \A j \in DOMAIN s[1] : Holds(s[1][j], d)
  <1> DEFINE x == s[1]
  <1>1. s = <<x>>
    BY DEF IsOne
  <1> HIDE DEF x
  <1>2. Len(s) = 1 /\ DOMAIN s = {1} /\ s[1] = x
    BY <1>1
  <1>3. QED
    BY <1>2 DEF Matches

\* A string in parentheses is one clause, that matches what it did (filter.go, String).
LEMMA ParenMatches ==
    ASSUME NEW s
    PROVE  IsOne(Paren(s)) /\ \A d \in Documents : Matches(Paren(s), d) <=> Matches(s, d)
  <1> DEFINE c == [is |-> "group", of |-> Matching(s)]
  <1>1. Paren(s) = << <<c>> >>
    BY DEF Paren, One
  <1>2. \A d : Holds(c, d) <=> d \in Matching(s)
    BY DEF Holds
  <1> HIDE DEF c
  <1>3. << <<c>> >>[1] = <<c>> /\ DOMAIN <<c>> = {1} /\ <<c>>[1] = c /\ <<c>> \in Seq({c})
    OBVIOUS
  <1>4. IsOne(<< <<c>> >>)
    <2>1. {<<c>>[j] : j \in DOMAIN <<c>>} = {c}
      BY <1>3
    <2>2. QED
      BY <1>3, <2>1 DEF IsOne, Range
  <1>5. \A d : Matches(<< <<c>> >>, d) <=> Holds(c, d)
    BY <1>3, <1>4, OneMatches
  <1>6. QED
    BY <1>1, <1>2, <1>4, <1>5 DEF Matching

\* Two strings of one alternative side by side are one that has the clauses of both.
LEMMA BesideMatches ==
    ASSUME NEW l, NEW r, IsOne(l), IsOne(r)
    PROVE  /\ IsOne(Beside(l, r))
           /\ \A d : Matches(Beside(l, r), d) <=> Matches(l, d) /\ Matches(r, d)
  <1> DEFINE x == l[1]
             y == r[1]
             X == {x[j] : j \in DOMAIN x}
             Y == {y[j] : j \in DOMAIN y}
             z == x \o y
             Z == {z[j] : j \in DOMAIN z}
  <1>1. l = <<x>> /\ r = <<y>> /\ x \in Seq(X) /\ y \in Seq(Y)
    BY DEF IsOne, Range
  <1> HIDE DEF x, y
  <1>2. x \in Seq(X \union Y) /\ y \in Seq(X \union Y)
    BY <1>1
  <1> HIDE DEF X, Y
  <1>3. /\ z \in Seq(X \union Y) /\ Len(z) = Len(x) + Len(y) /\ DOMAIN z = 1..(Len(x) + Len(y))
        /\ Len(x) \in Nat /\ Len(y) \in Nat /\ DOMAIN x = 1..Len(x) /\ DOMAIN y = 1..Len(y)
        /\ \A i \in 1..(Len(x) + Len(y)) : z[i] = IF i <= Len(x) THEN x[i] ELSE y[i - Len(x)]
    BY <1>2
  <1>4. Beside(l, r) = <<z>>
    <2>1. Front(l) = <<>>
      BY <1>1 DEF Front
    <2>2. Last(l) = x /\ Head(r) = y /\ Tail(r) = <<>>
      BY <1>1 DEF Last
    <2> HIDE DEF z
    <2>3. <<>> \o <<z>> \o <<>> = <<z>>
      OBVIOUS
    <2>4. QED
      BY <2>1, <2>2, <2>3 DEF Beside, z
  <1>5. \A i \in DOMAIN x : i \in DOMAIN z /\ z[i] = x[i]
    BY <1>3
  <1>6. \A i \in DOMAIN y : i + Len(x) \in DOMAIN z /\ z[i + Len(x)] = y[i]
    BY <1>3
  <1>7. \A i \in DOMAIN z : \/ i \in DOMAIN x /\ z[i] = x[i]
                            \/ i - Len(x) \in DOMAIN y /\ z[i] = y[i - Len(x)]
    BY <1>3
  <1> HIDE DEF z
  <1>8. z \in Seq(Z)
    BY <1>3
  <1> HIDE DEF Z
  <1>9. <<z>>[1] = z
    OBVIOUS
  <1>10. IsOne(<<z>>)
    BY <1>8, <1>9 DEF IsOne, Z, Range
  <1>11. \A d : /\ Matches(l, d) <=> \A j \in DOMAIN x : Holds(x[j], d)
                /\ Matches(r, d) <=> \A j \in DOMAIN y : Holds(y[j], d)
                /\ Matches(<<z>>, d) <=> \A j \in DOMAIN z : Holds(z[j], d)
    BY <1>9, <1>10, OneMatches DEF x, y
  <1>12. ASSUME NEW d
         PROVE  Matches(<<z>>, d) <=> Matches(l, d) /\ Matches(r, d)
    <2>1. ASSUME \A j \in DOMAIN z : Holds(z[j], d)
          PROVE  (\A j \in DOMAIN x : Holds(x[j], d)) /\ (\A j \in DOMAIN y : Holds(y[j], d))
      BY <1>5, <1>6, <2>1
    <2>2. ASSUME \A j \in DOMAIN x : Holds(x[j], d), \A j \in DOMAIN y : Holds(y[j], d)
          PROVE  \A j \in DOMAIN z : Holds(z[j], d)
      BY <1>7, <2>2
    <2>3. QED
      BY <1>11, <2>1, <2>2
  <1>13. QED
    BY <1>4, <1>10, <1>12

\* Alternatives match what one of them does.
LEMMA EitherMatches ==
    ASSUME NEW l, NEW r, IsOne(l), IsOne(r)
    PROVE  \A d : Matches(Either(l, r), d) <=> Matches(l, d) \/ Matches(r, d)
  <1> DEFINE x == l[1]
             y == r[1]
  <1>1. l = <<x>> /\ r = <<y>>
    BY DEF IsOne
  <1> HIDE DEF x, y
  <1> DEFINE e == <<x>> \o <<y>>
  <1>2. Either(l, r) = e
    BY <1>1 DEF Either
  <1>3. DOMAIN e = {1, 2} /\ e[1] = x /\ e[2] = y
    <2>1. <<x>> \in Seq({x, y}) /\ <<y>> \in Seq({x, y}) /\ Len(<<x>>) = 1 /\ Len(<<y>>) = 1
      OBVIOUS
    <2>2. Len(e) = 2 /\ e \in Seq({x, y}) /\ e[1] = <<x>>[1] /\ e[2] = <<y>>[1]
      BY <2>1
    <2>3. DOMAIN e = 1..2
      BY <2>2
    <2>4. QED
      BY <2>2, <2>3
  <1> HIDE DEF e
  <1>4. DOMAIN <<x>> = {1} /\ DOMAIN <<y>> = {1} /\ <<x>>[1] = x /\ <<y>>[1] = y
    OBVIOUS
  <1>5. ASSUME NEW d
        PROVE  /\ Matches(e, d) <=> (\A j \in DOMAIN x : Holds(x[j], d))
                                   \/ (\A j \in DOMAIN y : Holds(y[j], d))
               /\ Matches(<<x>>, d) <=> \A j \in DOMAIN x : Holds(x[j], d)
               /\ Matches(<<y>>, d) <=> \A j \in DOMAIN y : Holds(y[j], d)
    BY <1>3, <1>4 DEF Matches
  <1>6. QED
    BY <1>1, <1>2, <1>5

\* "*" matches everything.
LEMMA StarMatches == IsOne(Star) /\ \A d : Matches(Star, d)
  <1>1. IsOne(<< <<Everything>> >>)
    <2>1. << <<Everything>> >>[1] = <<Everything>> /\ DOMAIN <<Everything>> = {1}
          /\ <<Everything>>[1] = Everything /\ <<Everything>> \in Seq({Everything})
      OBVIOUS
    <2>2. {<<Everything>>[j] : j \in DOMAIN <<Everything>>} = {Everything}
      BY <2>1
    <2>3. QED
      BY <2>1, <2>2 DEF IsOne, Range
  <1>2. \A d : Holds(Everything, d)
    BY DEF Holds, Everything
  <1>3. << <<Everything>> >>[1] = <<Everything>> /\ DOMAIN <<Everything>> = {1}
        /\ <<Everything>>[1] = Everything
    OBVIOUS
  <1>4. \A d : Matches(<< <<Everything>> >>, d)
    BY <1>1, <1>2, <1>3, OneMatches
  <1>5. QED
    BY <1>1, <1>4 DEF Star, One

\* A condition is rendered as it is meant, negated or not; a negated one means the documents
\* that the other leaves (filter.go, the operators of Tag, Num, Text, Geo and Timestamp).
THEOREM ConditionsAreRendered ==
    ASSUME NEW c
    PROVE  /\ Rendered(Raw(One(c))) /\ Rendered(Negated(c))
           /\ Negated(c).means = Documents \ Raw(One(c)).means
  <1>1. \A x : /\ IsOne(One(x))
               /\ \A d : Matches(One(x), d) <=> Holds(x, d)
    <2> SUFFICES ASSUME NEW x
                 PROVE  IsOne(<< <<x>> >>) /\ \A d : Matches(<< <<x>> >>, d) <=> Holds(x, d)
      BY DEF One
    <2>1. << <<x>> >>[1] = <<x>> /\ DOMAIN <<x>> = {1} /\ <<x>>[1] = x /\ <<x>> \in Seq({x})
      OBVIOUS
    <2>2. {<<x>>[j] : j \in DOMAIN <<x>>} = {x}
      BY <2>1
    <2>3. IsOne(<< <<x>> >>)
      BY <2>1, <2>2 DEF IsOne, Range
    <2>4. QED
      BY <2>1, <2>3, OneMatches
  <1> DEFINE n == [is |-> "not", of |-> Matching(One(c))]
  <1>2. IsOne(One(n)) /\ \A d : Matches(One(n), d) <=> d \notin Matching(One(c))
    <2>1. \A d : Holds(n, d) <=> d \notin Matching(One(c))
      BY DEF Holds
    <2> HIDE DEF n
    <2>2. QED
      BY <1>1, <2>1
  <1>3. PICK s : s = One(n)
    OBVIOUS
  <1>4. Not(One(c)) = s
    BY <1>3 DEF Not
  <1> HIDE DEF n
  <1>5. IsOne(Paren(s)) /\ Matching(Paren(s)) = Documents \ Matching(One(c))
    BY <1>2, <1>3, ParenMatches DEF Matching
  <1>6. /\ Negated(c).string = Paren(s) /\ Negated(c).means = Matching(Paren(s))
        /\ Negated(c).narrowed = FALSE
    BY <1>4 DEF Negated, Raw
  <1>7. /\ Raw(One(c)).string = One(c) /\ Raw(One(c)).means = Matching(One(c))
        /\ Raw(One(c)).narrowed = FALSE
    BY DEF Raw
  <1>8. \A x : Matching(x) \subseteq Documents
    BY DEF Matching
  <1>9. Rendered(Raw(One(c)))
    BY <1>1, <1>7, <1>8 DEF Rendered
  <1>10. Rendered(Negated(c))
    BY <1>5, <1>6, <1>8 DEF Rendered
  <1>11. QED
    BY <1>5, <1>6, <1>7, <1>9, <1>10

\* And and Or of expressions that are rendered as they are meant are so too, however deep they
\* are nested: the parentheses that String adds suffice, and they mean the intersection and the
\* union (filter.go, "logical AND (intersection)", "logical OR (union)").  Only where one side
\* of a union is "*" may the combination match less than it means, as "*" is left out of it.
THEOREM FiltersCombine ==
    ASSUME NEW l, NEW r, Rendered(l), Rendered(r)
    PROVE  /\ Rendered(Both(l, r)) /\ Both(l, r).means = l.means \intersect r.means
           /\ Rendered(OneOf(l, r)) /\ OneOf(l, r).means = l.means \union r.means
           /\ Both(l, r).narrowed <=> l.narrowed \/ r.narrowed
           /\ OneOf(l, r).narrowed <=> \/ l.narrowed \/ r.narrowed
                                      \/ (l.string = Star) # (r.string = Star)
  <1>1. /\ \A d \in Documents : Matches(l.string, d) => d \in l.means
        /\ \A d \in Documents : Matches(r.string, d) => d \in r.means
        /\ ~l.narrowed => \A d \in Documents : d \in l.means => Matches(l.string, d)
        /\ ~r.narrowed => \A d \in Documents : d \in r.means => Matches(r.string, d)
        /\ l.means \subseteq Documents /\ r.means \subseteq Documents
        /\ IsOne(l.string) /\ IsOne(r.string)
        /\ l.narrowed \in BOOLEAN /\ r.narrowed \in BOOLEAN
    BY DEF Rendered, Matching
  <1>2. ASSUME NEW s, NEW means, NEW n \in BOOLEAN, means \subseteq Documents,
               \A d \in Documents : Matches(s, d) => d \in means,
               ~l.narrowed /\ ~r.narrowed =>
                   \A d \in Documents : d \in means => Matches(s, d),
               l.string = Star =>
                   /\ \A d \in Documents : Matches(r.string, d) => d \in means
                   /\ ~l.narrowed /\ ~r.narrowed /\ ~n =>
                          \A d \in Documents : d \in means => Matches(r.string, d),
               r.string = Star =>
                   /\ \A d \in Documents : Matches(l.string, d) => d \in means
                   /\ ~l.narrowed /\ ~r.narrowed /\ ~n =>
                          \A d \in Documents : d \in means => Matches(l.string, d)
        PROVE  /\ Rendered(Combined(l, r, s, means, n))
               /\ Combined(l, r, s, means, n).means = means
               /\ Combined(l, r, s, means, n).narrowed <=> l.narrowed \/ r.narrowed \/ n
    <2>1. PICK c : c = Combined(l, r, s, means, n)
      OBVIOUS
    <2>2. c.means = means /\ c.narrowed = (l.narrowed \/ r.narrowed \/ n)
      BY <2>1 DEF Combined
    <2>3. CASE l.string = Star
      <3>1. c.string = r.string
        BY <2>1, <2>3 DEF Combined
      <3>2. QED
        BY <1>1, <1>2, <2>1, <2>2, <2>3, <3>1 DEF Rendered, Matching
    <2>4. CASE l.string # Star /\ r.string = Star
      <3>1. c.string = l.string
        BY <2>1, <2>4 DEF Combined
      <3>2. QED
        BY <1>1, <1>2, <2>1, <2>2, <2>4, <3>1 DEF Rendered, Matching
    <2>5. CASE l.string # Star /\ r.string # Star
      <3>1. c.string = Paren(s)
        BY <2>1, <2>5 DEF Combined
      <3>2. IsOne(Paren(s)) /\ \A d \in Documents : Matches(Paren(s), d) <=> Matches(s, d)
        BY ParenMatches
      <3>3. QED
        BY <1>1, <1>2, <2>1, <2>2, <3>1, <3>2 DEF Rendered, Matching
    <2>6. QED
      BY <2>3, <2>4, <2>5
  <1>3. \A d \in Documents :
           /\ Matches(Beside(l.string, r.string), d)
                  <=> Matches(l.string, d) /\ Matches(r.string, d)
           /\ Matches(Either(l.string, r.string), d)
                  <=> Matches(l.string, d) \/ Matches(r.string, d)
    BY <1>1, BesideMatches, EitherMatches
  <1>4. /\ l.string = Star => \A d \in Documents : Matches(l.string, d) /\ d \in l.means
        /\ r.string = Star => \A d \in Documents : Matches(r.string, d) /\ d \in r.means
    BY <1>1, StarMatches
  <1>5. /\ Rendered(Both(l, r)) /\ Both(l, r).means = l.means \intersect r.means
        /\ Both(l, r).narrowed <=> l.narrowed \/ r.narrowed
    <2>1. PICK s : s = Beside(l.string, r.string)
      OBVIOUS
    <2>2. PICK means : means = l.means \intersect r.means
      OBVIOUS
    <2>3. \A d \in Documents : Matches(s, d) <=> Matches(l.string, d) /\ Matches(r.string, d)
      BY <1>3, <2>1
    <2>4. /\ Rendered(Combined(l, r, s, means, FALSE))
          /\ Combined(l, r, s, means, FALSE).means = means
          /\ Combined(l, r, s, means, FALSE).narrowed <=> l.narrowed \/ r.narrowed \/ FALSE
      <3>1. means \subseteq Documents /\ \A d \in Documents : Matches(s, d) => d \in means
        BY <1>1, <2>2, <2>3
      <3>2. ~l.narrowed /\ ~r.narrowed => \A d \in Documents : d \in means => Matches(s, d)
        BY <1>1, <2>2, <2>3
      <3>3. l.string = Star =>
               /\ \A d \in Documents : Matches(r.string, d) => d \in means
               /\ ~l.narrowed /\ ~r.narrowed /\ ~FALSE =>
                      \A d \in Documents : d \in means => Matches(r.string, d)
        BY <1>1, <1>4, <2>2
      <3>4. r.string = Star =>
               /\ \A d \in Documents : Matches(l.string, d) => d \in means
               /\ ~l.narrowed /\ ~r.narrowed /\ ~FALSE =>
                      \A d \in Documents : d \in means => Matches(l.string, d)
        BY <1>1, <1>4, <2>2
      <3>5. QED
        BY <1>2, <3>1, <3>2, <3>3, <3>4
    <2>5. QED
      BY <2>1, <2>2, <2>4 DEF Both
  <1>6. /\ Rendered(OneOf(l, r)) /\ OneOf(l, r).means = l.means \union r.means
        /\ OneOf(l, r).narrowed <=> l.narrowed \/ r.narrowed \/ OneIsStar(l, r)
    <2>1. PICK s : s = Either(l.string, r.string)
      OBVIOUS
    <2>2. PICK means : means = l.means \union r.means
      OBVIOUS
    <2>3. PICK n \in BOOLEAN : n = OneIsStar(l, r)
      BY DEF OneIsStar
    <2>4. \A d \in Documents : Matches(s, d) <=> Matches(l.string, d) \/ Matches(r.string, d)
      BY <1>3, <2>1
    <2>5. /\ Rendered(Combined(l, r, s, means, n))
          /\ Combined(l, r, s, means, n).means = means
          /\ Combined(l, r, s, means, n).narrowed <=> l.narrowed \/ r.narrowed \/ n
      <3>1. means \subseteq Documents /\ \A d \in Documents : Matches(s, d) => d \in means
        BY <1>1, <2>2, <2>4
      <3>2. ~l.narrowed /\ ~r.narrowed => \A d \in Documents : d \in means => Matches(s, d)
        BY <1>1, <2>2, <2>4
      <3>3. l.string = Star =>
               /\ \A d \in Documents : Matches(r.string, d) => d \in means
               /\ ~l.narrowed /\ ~r.narrowed /\ ~n =>
                      \A d \in Documents : d \in means => Matches(r.string, d)
        <4>1. l.string = Star /\ ~n => r.string = Star
          BY <2>3 DEF OneIsStar
        <4>2. QED
          BY <1>1, <1>4, <2>2, <4>1
      <3>4. r.string = Star =>
               /\ \A d \in Documents : Matches(l.string, d) => d \in means
               /\ ~l.narrowed /\ ~r.narrowed /\ ~n =>
                      \A d \in Documents : d \in means => Matches(l.string, d)
        <4>1. r.string = Star /\ ~n => l.string = Star
          BY <2>3 DEF OneIsStar
        <4>2. QED
          BY <1>1, <1>4, <2>2, <4>1
      <3>5. QED
        BY <1>2, <3>1, <3>2, <3>3, <3>4
    <2>6. QED
      BY <2>1, <2>2, <2>3, <2>5 DEF OneOf
  <1>7. QED
    BY <1>5, <1>6 DEF OneIsStar

\* A query of any kind matches what its filter matches among what it matches itself: whatever
\* their parentheses, neither escapes the other.
THEOREM FiltersRestrict ==
    ASSUME NEW q, IsOne(q.base), Rendered(q.filter), NEW d \in Documents
    PROVE  /\ Matches(QueryString(q), d) <=> Matches(String(q.filter), d) /\ Matches(q.base, d)
           /\ Matches(QueryString(q), d) => d \in q.filter.means
           /\ ~q.filter.narrowed /\ d \in q.filter.means /\ Matches(q.base, d)
                  => Matches(QueryString(q), d)
  <1> DEFINE f == q.filter.string
  <1>1. /\ IsOne(f) /\ String(q.filter) = f
        /\ Matches(f, d) => d \in q.filter.means
        /\ ~q.filter.narrowed => (d \in q.filter.means <=> Matches(f, d))
    BY DEF Rendered, Matching, String
  <1> HIDE DEF f
  <1>2. CASE f = Star
    <2>1. QueryString(q) = q.base
      BY <1>2 DEF QueryString, String, f
    <2>2. QED
      BY <1>1, <1>2, <2>1, StarMatches
  <1>3. CASE f # Star /\ q.kind \in {"range", "hybrid", "aggregate"}
    <2>1. QueryString(q) = Paren(Beside(q.base, f))
      BY <1>3 DEF QueryString, String, f
    <2>2. QED
      BY <1>1, <2>1, BesideMatches, ParenMatches
  <1>4. CASE f # Star /\ q.kind = "multi"
    <2>1. QueryString(q) = Beside(Paren(q.base), Paren(f))
      BY <1>4 DEF QueryString, String, f
    <2>2. QED
      BY <1>1, <2>1, BesideMatches, ParenMatches
  <1>5. CASE f # Star /\ q.kind \notin {"range", "hybrid", "aggregate", "multi"} /\ q.base = Star
    <2>1. QueryString(q) = f
      BY <1>5 DEF QueryString, String, f
    <2>2. QED
      BY <1>1, <1>5, <2>1, StarMatches
  <1>6. CASE f # Star /\ q.kind \notin {"range", "hybrid", "aggregate", "multi"} /\ q.base # Star
    <2>1. QueryString(q) = Beside(q.base, f)
      BY <1>6 DEF QueryString, String, f
    <2>2. QED
      BY <1>1, <2>1, BesideMatches
  <1>7. QED
    BY <1>2, <1>3, <1>4, <1>5, <1>6

-----------------------------------------------------------------------------
(* Ranks and pages. *)

\* The place of d in F when o is the order: how many are before it (Queries, Before).
Behind(F, o, d) == {a \in F : <<a, d>> \in o}

\* Strict orders of which any two of F are one before the other.
IsOrder(F, o) ==
    /\ \A a, b \in F : <<a, b>> \in o <=> a # b /\ <<b, a>> \notin o
    /\ \A a, b, c \in F : <<a, b>> \in o /\ <<b, c>> \in o => <<a, c>> \in o

\* The documents of an order have the ranks 0, 1, 2 and so on: each one, and none twice.
LEMMA Ranking ==
    ASSUME NEW F, IsFiniteSet(F), NEW o, IsOrder(F, o)
    PROVE  LET rank == [d \in F |-> Cardinality(Behind(F, o, d))]
           IN  rank \in Bijection(F, 0..(Cardinality(F) - 1))
  <1> DEFINE rank == [d \in F |-> Cardinality(Behind(F, o, d))]
             R    == 0..(Cardinality(F) - 1)
  <1>1. Cardinality(F) \in Nat
    BY FS_CardinalityType
  <1>2. ASSUME NEW d \in F
        PROVE  rank[d] \in R
    <2>1. Behind(F, o, d) \in SUBSET F /\ d \notin Behind(F, o, d)
      BY DEF Behind, IsOrder
    <2>2. PICK B : B = Behind(F, o, d)
      OBVIOUS
    <2>3. /\ IsFiniteSet(B) /\ Cardinality(B) <= Cardinality(F)
          /\ Cardinality(F) = Cardinality(B) => F = B
      BY <2>1, <2>2, FS_Subset
    <2>4. Cardinality(B) \in Nat
      BY <2>3, FS_CardinalityType
    <2>5. Cardinality(B) # Cardinality(F)
      BY <2>1, <2>2, <2>3
    <2>6. rank[d] = Cardinality(B)
      BY <2>2
    <2> HIDE DEF rank
    <2>7. QED
      BY <1>1, <2>3, <2>4, <2>5, <2>6
  <1>3. ASSUME NEW c \in F, NEW d \in F, <<c, d>> \in o
        PROVE  rank[c] # rank[d]
    <2>1. PICK B : B = Behind(F, o, c)
      OBVIOUS
    <2>2. PICK D : D = Behind(F, o, d)
      OBVIOUS
    <2>3. B \in SUBSET D /\ c \in D /\ c \notin B
      BY <1>3, <2>1, <2>2 DEF Behind, IsOrder
    <2>4. IsFiniteSet(D)
      BY <2>2, FS_Subset DEF Behind
    <2>5. Cardinality(D) = Cardinality(B) => D = B
      BY <2>3, <2>4, FS_Subset
    <2>6. Cardinality(D) # Cardinality(B)
      BY <2>3, <2>5
    <2>7. rank[c] = Cardinality(B) /\ rank[d] = Cardinality(D)
      BY <2>1, <2>2
    <2>8. QED
      BY <2>6, <2>7
  <1>4. \A c, d \in F : rank[c] = rank[d] => c = d
    <2>1. \A c, d \in F : c # d => <<c, d>> \in o \/ <<d, c>> \in o
      BY DEF IsOrder
    <2> HIDE DEF rank
    <2>2. QED
      BY <1>3, <2>1
  <1>5. rank \in [F -> R] /\ DOMAIN rank = F
    <2>1. rank = [d \in F |-> rank[d]]
      OBVIOUS
    <2> HIDE DEF rank, R
    <2>2. QED
      BY <1>2, <2>1
  <1> HIDE DEF rank
  <1>6. rank \in Injection(F, R)
    BY <1>4, <1>5 DEF Injection, IsInjective
  <1>7. IsFiniteSet(R) /\ Cardinality(R) = Cardinality(F)
    <2>1. PICK n \in Nat : n = Cardinality(F)
      BY <1>1
    <2>2. /\ IsFiniteSet(0..(n - 1))
          /\ Cardinality(0..(n - 1)) = IF 0 > n - 1 THEN 0 ELSE n - 1 - 0 + 1
      BY FS_Interval
    <2>3. Cardinality(0..(n - 1)) = n
      BY <2>2
    <2>4. QED
      BY <2>1, <2>2, <2>3
  <1> HIDE DEF R
  <1>8. rank \in Surjection(F, R)
    BY <1>6, <1>7, FS_Injection
  <1>9. rank \in Bijection(F, R)
    BY <1>6, <1>8 DEF Bijection
  <1>10. QED
    BY <1>9 DEF rank, R

\* A page that is not full is the last: behind it there is nothing.
LEMMA Pages ==
    ASSUME NEW F, IsFiniteSet(F), NEW o, IsOrder(F, o), NEW lo \in Nat, NEW n \in Nat,
           Cardinality({d \in F : Cardinality(Behind(F, o, d)) \in lo..(lo + n - 1)}) # n
    PROVE  \A d \in F : Cardinality(Behind(F, o, d)) < lo + n
  <1>1. PICK rank : rank = [d \in F |-> Cardinality(Behind(F, o, d))]
    OBVIOUS
  <1>2. \A d \in F : rank[d] = Cardinality(Behind(F, o, d))
    BY <1>1
  <1>3. PICK m \in Nat : m = Cardinality(F)
    BY FS_CardinalityType
  <1>4. rank \in Bijection(F, 0..(m - 1))
    BY <1>1, <1>3, Ranking
  <1>5. /\ rank \in [F -> 0..(m - 1)] /\ \A c, d \in F : rank[c] = rank[d] => c = d
        /\ \A i \in 0..(m - 1) : \E d \in F : rank[d] = i
    BY <1>4 DEF Bijection, Injection, IsInjective, Surjection
  <1>6. PICK P : P = {d \in F : rank[d] \in lo..(lo + n - 1)}
    OBVIOUS
  <1>7. Cardinality(P) # n
    BY <1>2, <1>6
  <1>8. SUFFICES ASSUME NEW e \in F, ~(rank[e] < lo + n)
                 PROVE  FALSE
    BY <1>2
  <1>9. rank[e] \in 0..(m - 1) /\ lo + n <= rank[e]
    BY <1>5, <1>8
  <1>10. lo..(lo + n - 1) \subseteq 0..(m - 1)
    BY <1>9
  <1>11. PICK f : f = [d \in P |-> rank[d]]
    OBVIOUS
  <1>12. DOMAIN f = P /\ P \subseteq F /\ \A d \in P : f[d] = rank[d]
    BY <1>6, <1>11
  <1>13. f \in [P -> lo..(lo + n - 1)]
    BY <1>6, <1>11
  <1>14. \A c, d \in P : f[c] = f[d] => c = d
    BY <1>5, <1>12
  <1>15. \A i \in lo..(lo + n - 1) : \E d \in P : f[d] = i
    BY <1>5, <1>6, <1>10, <1>12
  <1>16. f \in Bijection(P, lo..(lo + n - 1))
    BY <1>12, <1>13, <1>14, <1>15 DEF Bijection, Injection, IsInjective, Surjection
  <1>17. IsFiniteSet(P)
    BY <1>12, FS_Subset
  <1>18. Cardinality(lo..(lo + n - 1)) = Cardinality(P)
    BY <1>16, <1>17, FS_Bijection DEF ExistsBijection
  <1>19. Cardinality(lo..(lo + n - 1)) = n
    <2>1. Cardinality(lo..(lo + n - 1)) = IF lo > lo + n - 1 THEN 0 ELSE lo + n - 1 - lo + 1
      BY FS_Interval
    <2>2. QED
      BY <2>1
  <1>20. QED
    BY <1>7, <1>18, <1>19

-----------------------------------------------------------------------------
(* Replies. *)

\* The order of a search: which of what it finds is before which.
Precedence(q, T, o) == {p \in Found(q, T) \X Found(q, T) : Precedes(q, o, p[1], p[2])}

\* By distance, and by the order of the index among those of one distance, what a search finds
\* is in order, one behind the other.
LEMMA FoundIsOrdered ==
    ASSUME NEW q, IsQuery(q), NEW T \in SUBSET Keys, NEW o \in Orders(T)
    PROVE  /\ IsFiniteSet(Found(q, T)) /\ IsOrder(Found(q, T), Precedence(q, T, o))
           /\ \A d \in Found(q, T) :
                 Behind(Found(q, T), Precedence(q, T, o), d) = Before(q, T, o, d)
  <1> DEFINE F == Found(q, T)
             P == Precedence(q, T, o)
  <1>1. F \in SUBSET T /\ T \in SUBSET Keys
    BY DEF Found
  <1>2. IsFiniteSet(F)
    BY <1>1, FiniteDocs
  <1>3. \A a, b \in F : <<a, b>> \in P <=> Precedes(q, o, a, b)
    BY DEF Precedence
  <1>4. /\ \A a, b \in F : <<a, b>> \in o <=> a # b /\ <<b, a>> \notin o
        /\ \A a, b, c \in F : <<a, b>> \in o /\ <<b, c>> \in o => <<a, c>> \in o
    BY <1>1 DEF Orders
  <1>5. q.nearest # "" => \A d \in F : Distance(q, d) \in Int
    <2> SUFFICES ASSUME q.nearest # "", NEW d \in F
                 PROVE  Distance(q, d) \in Int
      OBVIOUS
    <2>1. PICK C : C = Contents[d][q.nearest]
      OBVIOUS
    <2>2. C # {} /\ C \subseteq Int
      BY <1>1, <2>1 DEF Found, IsQuery
    <2>3. (CHOOSE x \in C : TRUE) \in C
      BY <2>2
    <2>4. QED
      BY <2>1, <2>2, <2>3 DEF Distance
  <1>6. IsOrder(F, P)
    <2>1. CASE q.nearest = ""
      <3>1. \A a, b \in F : Precedes(q, o, a, b) <=> <<a, b>> \in o
        BY <2>1 DEF Precedes
      <3> HIDE DEF F, P
      <3>2. QED
        BY <1>3, <1>4, <3>1 DEF IsOrder
    <2>2. CASE q.nearest # ""
      <3>1. PICK dist : dist = [d \in F |-> Distance(q, d)]
        OBVIOUS
      <3>2. \A d \in F : dist[d] = Distance(q, d) /\ dist[d] \in Int
        BY <1>5, <2>2, <3>1
      <3>3. ASSUME NEW a \in F, NEW b \in F
            PROVE  <<a, b>> \in P <=> dist[a] < dist[b] \/ (dist[a] = dist[b] /\ <<a, b>> \in o)
        <4>1. dist[a] = Distance(q, a) /\ dist[b] = Distance(q, b)
          BY <3>2
        <4>2. Precedes(q, o, a, b)
                <=> dist[a] < dist[b] \/ (dist[a] = dist[b] /\ <<a, b>> \in o)
          BY <2>2, <4>1 DEF Precedes
        <4>3. QED
          BY <1>3, <4>2
      <3> HIDE DEF F, P
      <3>4. ASSUME NEW a \in F, NEW b \in F
            PROVE  <<a, b>> \in P <=> a # b /\ <<b, a>> \notin P
        <4>1. PICK x \in Int, y \in Int : x = dist[a] /\ y = dist[b]
          BY <3>2
        <4>2. /\ <<a, b>> \in P <=> x < y \/ (x = y /\ <<a, b>> \in o)
              /\ <<b, a>> \in P <=> y < x \/ (y = x /\ <<b, a>> \in o)
          BY <3>3, <4>1
        <4>3. <<a, b>> \in o <=> a # b /\ <<b, a>> \notin o
          BY <1>4
        <4>4. a = b => x = y
          BY <4>1
        <4>5. QED
          BY <4>2, <4>3, <4>4
      <3>5. \A a, b, c \in F : <<a, b>> \in P /\ <<b, c>> \in P => <<a, c>> \in P
        BY <1>4, <3>2, <3>3
      <3>6. QED
        BY <3>4, <3>5 DEF IsOrder
    <2>3. QED
      BY <2>1, <2>2
  <1>7. \A d \in F : Behind(F, P, d) = Before(q, T, o, d)
    BY <1>3 DEF Behind, Before
  <1>8. QED
    BY <1>2, <1>6, <1>7

\* A part of what a search finds that begins at lo and lacks one of n is the last.
LEMMA LastPage ==
    ASSUME NEW q, IsQuery(q), NEW T \in SUBSET Keys, NEW o \in Orders(T),
           NEW lo \in Nat, NEW n \in Nat,
           Cardinality({d \in Found(q, T) :
                           Cardinality(Before(q, T, o, d)) \in lo..(lo + n - 1)}) # n
    PROVE  \A d \in Found(q, T) : Cardinality(Before(q, T, o, d)) < lo + n
  <1>1. PICK F : F = Found(q, T)
    OBVIOUS
  <1>2. PICK P : P = Precedence(q, T, o)
    OBVIOUS
  <1>3. IsFiniteSet(F) /\ IsOrder(F, P) /\ \A d \in F : Behind(F, P, d) = Before(q, T, o, d)
    BY <1>1, <1>2, FoundIsOrdered
  <1>4. {d \in F : Cardinality(Behind(F, P, d)) \in lo..(lo + n - 1)}
           = {d \in F : Cardinality(Before(q, T, o, d)) \in lo..(lo + n - 1)}
    BY <1>3
  <1>5. \A d \in F : Cardinality(Behind(F, P, d)) < lo + n
    BY <1>1, <1>3, <1>4, Pages
  <1>6. QED
    BY <1>1, <1>3, <1>5

\* Ranks are numbers.
LEMMA RankIsNat ==
    ASSUME NEW q, NEW T \in SUBSET Keys, NEW o, NEW d
    PROVE  Cardinality(Before(q, T, o, d)) \in Nat
  BY FiniteDocs DEF Before, Found

\* What a search finds is what it is meant for (query.go, QueryString): its filter restricts
\* it, whatever it is rendered to, and if it lost the "*" of a union more than it means to.
LEMMA FoundIsAsked ==
    ASSUME NEW q, IsQuery(q), NEW T \in SUBSET Keys
    PROVE  /\ Found(q, T) \subseteq Asked(q) \intersect T
           /\ ~q.filter.narrowed => Found(q, T) = Asked(q) \intersect T
  <1>1. IsOne(q.base) /\ Rendered(q.filter)
    BY DEF IsQuery
  <1>2. \A d \in Keys :
           /\ Matches(QueryString(q), d) => d \in q.filter.means /\ Matches(q.base, d)
           /\ ~q.filter.narrowed /\ d \in q.filter.means /\ Matches(q.base, d)
                  => Matches(QueryString(q), d)
    BY <1>1, FiltersRestrict, ReadsAssumption DEF Documents
  <1>3. QED
    BY <1>2 DEF Found, Asked

\* A reply that is not full has all that is asked for.
LEMMA ReplyIsWhole ==
    ASSUME NEW q, IsQuery(q), NEW T \in SUBSET Keys, NEW o \in Orders(T)
    PROVE  /\ Reply(q, T, o) \subseteq Asked(q) \intersect T
           /\ ~MayLack(q, Reply(q, T, o)) => Asked(q) \intersect T = Reply(q, T, o)
  <1>1. /\ Found(q, T) \subseteq Asked(q) \intersect T
        /\ ~q.filter.narrowed => Found(q, T) = Asked(q) \intersect T
    BY FoundIsAsked
  <1>2. Reply(q, T, o) \subseteq Found(q, T)
    BY DEF Reply
  <1>3. q.offset \in Nat /\ q.k \in Nat /\ Limit(q) \in Nat
    BY DEF IsQuery, Limit
  <1>4. ASSUME ~MayLack(q, Reply(q, T, o))
        PROVE  Found(q, T) \subseteq Reply(q, T, o) /\ ~q.filter.narrowed
    <2>1. ~q.filter.narrowed /\ q.offset = 0 /\ Cardinality(Reply(q, T, o)) # Limit(q)
          /\ (IsKNN(q) => Cardinality(Reply(q, T, o)) # q.k)
      BY <1>4 DEF MayLack
    <2>2. PICK n \in Nat : n = IF IsKNN(q) /\ q.k < Limit(q) THEN q.k ELSE Limit(q)
      BY <1>3
    <2>3. \A d : Cardinality(Before(q, T, o, d)) \in Nat
      BY RankIsNat
    <2>4. Reply(q, T, o) = {d \in Found(q, T) : Cardinality(Before(q, T, o, d)) \in 0..(0 + n - 1)}
      BY <1>3, <2>1, <2>2, <2>3 DEF Reply
    <2>5. \A d \in Found(q, T) : Cardinality(Before(q, T, o, d)) < 0 + n
      BY <2>1, <2>2, <2>4, LastPage
    <2>6. QED
      BY <2>1, <2>3, <2>4, <2>5
  <1>5. QED
    BY <1>1, <1>2, <1>4

-----------------------------------------------------------------------------
(* What writers do to the documents and to their order. *)

\* Every step of the readers' system is one of the writers' or leaves them alone.
LEMMA ReadsAreSteps == ReadsNext => [Next]_vars
  <1> SUFFICES ASSUME ReadsNext PROVE [Next]_vars
    OBVIOUS
  <1>1. ASSUME NEW c \in Clients, Write(c) PROVE Next
    BY <1>1 DEF Write, Next
  <1>2. ASSUME NoWrite PROVE Next
    BY <1>2 DEF NoWrite, Next
  <1>3. ASSUME NEW r \in Readers, Read(r) \/ LoseRead(r) \/ \E q \in ReadRequests : ReadBegin(r, q)
        PROVE  UNCHANGED vars
    BY <1>3 DEF Read, Page, Query, Fetch, LoseRead, ReadBegin, Answered, Returns
  <1>4. QED
    BY <1>1, <1>2, <1>3 DEF ReadsNext

\* Paginate, BatchSearch, FetchMany and what is built on them never change the index, a
\* document, or where a writer is: beside readers the writers behave as they do alone.
THEOREM ReadersOnlyRead == ReadsSpec => Spec
  <1>1. ReadsInit => Init
    BY DEF ReadsInit
  <1>2. [ReadsNext]_rvars => [Next]_vars
    BY ReadsAreSteps DEF rvars
  <1>3. QED
    BY <1>1, <1>2, PTL DEF ReadsSpec, Spec

\* Only HSET adds a document, the one of its record.
LEMMA WritesWrite ==
    ASSUME TypeOK, NEW c \in Clients, RoundTrip(c)
    PROVE  Present' \ Writes(c) \subseteq Present
  <1> USE DEF Present, Writes
  <1>1. CASE Exists(c) \/ CreateIndex(c) \/ Batch(c) \/ ClearSearch(c)
    BY <1>1 DEF Exists, CreateIndex, Batch, ClearSearch, server
  <1>2. ASSUME NEW S, RemoveDocs(S) PROVE Present' \subseteq Present
    BY <1>2 DEF RemoveDocs
  <1>3. CASE Overwrite(c) \/ Delete(c)
    BY <1>2, <1>3 DEF Overwrite, Delete, DropIndex, server
  <1>4. CASE DropKeys(c) \/ ClearDel(c)
    BY <1>2, <1>4 DEF DropKeys, ClearDel, Del
  <1>5. CASE HSet(c)
    <2>1. PICK k : k = req[c].keys[next[c]]
      OBVIOUS
    <2>2. pc[c] = "hset" /\ docs' = [docs EXCEPT ![k] = IF @ = "none" THEN "plain" ELSE @]
      BY <1>5, <2>1 DEF HSet
    <2>3. QED
      BY <2>1, <2>2 DEF TypeOK
  <1>6. CASE Expire(c)
    <2>1. PICK k : k = req[c].keys[next[c]]
      OBVIOUS
    <2>2. docs' = [docs EXCEPT ![k] = IF @ = "none" THEN @ ELSE "ttl"]
      BY <1>6, <2>1 DEF Expire
    <2>3. QED
      BY <2>2 DEF TypeOK
  <1>7. QED
    BY <1>1, <1>3, <1>4, <1>5, <1>6 DEF RoundTrip

\* Beginning a call, losing a request and an expiration add none.
LEMMA OthersAddNone ==
    ASSUME TypeOK, NoWrite
    PROVE  Present' \subseteq Present
  <1>1. ASSUME NEW c \in Clients, LoseRequest(c) \/ \E q \in Requests : Begin(c, q)
        PROVE  Present' = Present
    BY <1>1 DEF LoseRequest, Begin, server, Present
  <1>2. ASSUME NEW k \in Keys, Evict(k) PROVE Present' \subseteq Present
    BY <1>2 DEF Evict, Present, TypeOK
  <1>3. QED
    BY <1>1, <1>2 DEF NoWrite

\* With one document put behind the others, or none, an order is one still.
LEMMA PutBehind ==
    ASSUME NEW T, NEW o \in Orders(T), NEW old \in SUBSET T, NEW new, old \intersect new = {},
           \A x, y \in new : x = y
    PROVE  (o \intersect (old \X old)) \union (old \X new) \in Orders(old \union new)
  <1> DEFINE p == (o \intersect (old \X old)) \union (old \X new)
             U == old \union new
  <1>1. /\ \A a, b \in old : <<a, b>> \in o <=> a # b /\ <<b, a>> \notin o
        /\ \A a, b, c \in old : <<a, b>> \in o /\ <<b, c>> \in o => <<a, c>> \in o
    BY DEF Orders
  <1>2. \A a, b : <<a, b>> \in p <=>
            (a \in old /\ b \in old /\ <<a, b>> \in o) \/ (a \in old /\ b \in new)
    OBVIOUS
  <1>3. p \in SUBSET (U \X U)
    OBVIOUS
  <1> HIDE DEF p
  <1>4. \A a, b \in U : <<a, b>> \in p <=> a # b /\ <<b, a>> \notin p
    BY <1>1, <1>2
  <1>5. \A a, b, c \in U : <<a, b>> \in p /\ <<b, c>> \in p => <<a, c>> \in p
    BY <1>1, <1>2
  <1>6. QED
    BY <1>3, <1>4, <1>5 DEF Orders

\* After a step the replies of the index are in an order again.
LEMMA ReorderOrders ==
    ASSUME order \in Orders(Tracked), NEW W, \A x, y \in W : x = y,
           Present' \ W \subseteq Present, Reorder(W)
    PROVE  order' \in Orders(Tracked')
  <1>1. CASE index # "live"
    BY <1>1 DEF Reorder
  <1>2. CASE index = "live"
    <2>1. PICK T : T = Tracked
      OBVIOUS
    <2>2. PICK U : U = Tracked'
      OBVIOUS
    <2>3. U \ W \in SUBSET T
      BY <1>2, <2>1, <2>2 DEF Tracked
    <2>4. order' = (order \intersect ((U \ W) \X (U \ W))) \union ((U \ W) \X (U \intersect W))
      BY <1>2, <2>2 DEF Reorder
    <2>5. PICK o \in Orders(T) : o = order
      BY <2>1
    <2>6. (o \intersect ((U \ W) \X (U \ W))) \union ((U \ W) \X (U \intersect W))
              \in Orders((U \ W) \union (U \intersect W))
      BY <2>3, PutBehind
    <2>7. (U \ W) \union (U \intersect W) = U
      OBVIOUS
    <2>8. QED
      BY <2>2, <2>4, <2>5, <2>6, <2>7
  <1>3. QED
    BY <1>1, <1>2

\* To a quiet reader documents are only added, behind the others: what a search finds it finds
\* still, no document moves to the front, and none at all if they are in the index's order.
LEMMA RanksGrow ==
    ASSUME order \in Orders(Tracked), NEW W, Present' \ W \subseteq Present, Reorder(W),
           index' = index, Present \subseteq Present' \ W, NEW q, NEW d \in Tracked
    PROVE  /\ d \in Found(q, Tracked) => d \in Found(q, Tracked')
           /\ Before(q, Tracked, order, d) \subseteq Before(q, Tracked', order', d)
           /\ q.nearest = "" => Before(q, Tracked', order', d) = Before(q, Tracked, order, d)
  <1>1. PICK T : T = Tracked
    OBVIOUS
  <1>2. PICK U : U = Tracked'
    OBVIOUS
  <1>3. index = "live" /\ T = Present /\ U = Present' /\ T = U \ W
    BY <1>1, <1>2 DEF Tracked
  <1>4. PICK o : o = order'
    OBVIOUS
  <1>5. o = (order \intersect (T \X T)) \union (T \X (U \intersect W))
    BY <1>2, <1>3, <1>4 DEF Reorder
  <1>6. \A a \in U : <<a, d>> \in o <=> a \in T /\ <<a, d>> \in order
    BY <1>1, <1>3, <1>5
  <1>7. T \subseteq U /\ d \in T
    BY <1>1, <1>3
  <1>8. Found(q, T) \subseteq Found(q, U) /\ Found(q, U) \intersect T \subseteq Found(q, T)
    BY <1>7 DEF Found
  <1>9. Found(q, T) \subseteq T /\ Found(q, U) \subseteq U
    BY DEF Found
  <1>10. Before(q, T, order, d) \subseteq Before(q, U, o, d)
    BY <1>6, <1>7, <1>8, <1>9 DEF Before, Precedes
  <1>11. ASSUME q.nearest = "" PROVE Before(q, U, o, d) \subseteq Before(q, T, order, d)
    BY <1>6, <1>8, <1>9, <1>11 DEF Before, Precedes
  <1>12. QED
    BY <1>1, <1>2, <1>4, <1>8, <1>10, <1>11

-----------------------------------------------------------------------------
(* The invariant of the readers. *)

\* How many queries or ids a call has, what is asked for with the i-th, and whether its answer
\* may be a part of that.
Places(q)      == IF q.op = "fetch" THEN Len(q.ids) ELSE Len(q.queries)
AskedAt(q, i)  == IF q.op = "fetch" THEN {q.ids[i]} ELSE Asked(q.queries[i])
LacksAt(q, i, p) == q.op = "search" /\ MayLack(q.queries[i], p)

\* The i-th answer has nothing else, and lacks a document that stayed only if it may.
RightAt(r, i) ==
    /\ answers[r][i] \subseteq AskedAt(rreq[r], i)
    /\ ~LacksAt(rreq[r], i, answers[r][i]) =>
           AskedAt(rreq[r], i) \intersect kept[r] \subseteq answers[r][i]

\* BatchSearch and FetchMany have one answer to each query or id so far.
PlacesSoFar(r) ==
    rreq[r].op \in {"search", "fetch"} /\ rpc[r] \in {"search", "fetch", "ok"} =>
        /\ at[r] = Len(answers[r]) /\ at[r] <= Places(rreq[r])
        /\ rpc[r] = "ok" <=> at[r] = Places(rreq[r])
        /\ \A i \in 1..at[r] : RightAt(r, i)

\* The place of a document in the replies to a query.
Rank(q, k) == Cardinality(Before(q, Tracked, order, k))

Returned(r) == {k \in Keys : \E i \in DOMAIN answers[r] : k \in answers[r][i]}

Disjoint(r) ==
    \A i, j \in DOMAIN answers[r] : i # j => answers[r][i] \intersect answers[r][j] = {}

\* What the string of a query matches.
Sought(q) == Found(q, Keys)

\* The pages of a quiet Paginate have what it sought up to the next offset: the rest is
\* behind that; and without a distance the documents they have stay in front of it.
PagesSoFar(r) ==
    rreq[r].op = "paginate" /\ quiet[r] /\ ~IsKNN(rreq[r].query) =>
        /\ rpc[r] \in {"paginate", "ok"} =>
             \A k \in kept[r] \intersect Sought(rreq[r].query) :
                 k \in Returned(r) \/ (rpc[r] = "paginate" /\ Rank(rreq[r].query, k) >= at[r])
        /\ rreq[r].query.nearest = "" /\ rpc[r] = "paginate" =>
             \A k \in Returned(r) :
                 k \in Found(rreq[r].query, Tracked) /\ Rank(rreq[r].query, k) < at[r]
        /\ rreq[r].query.nearest = "" /\ rpc[r] \in {"paginate", "ok"} => Disjoint(r)

ReadAt(r) ==
    /\ rpc[r] \in {"paginate", "search", "fetch"} => rreq[r].op = rpc[r]
    /\ rpc[r] = "paginate" => rreq[r].size > 0

ReadOf(r) == ReadAt(r) /\ PlacesSoFar(r) /\ PagesSoFar(r)

ReadsInv ==
    /\ ReadsTypeOK
    /\ rreq \in [Readers -> ReadRequests \union {NoRequest}]
    /\ \A r \in Readers : ReadOf(r)

\* The calls of the readers.
LEMMA ReadRequestFields ==
    ASSUME NEW q \in ReadRequests
    PROVE  /\ q.op = "paginate" => IsQuery(q.query) /\ q.size \in Int /\ q.stop \in Nat
           /\ q.op = "search" => /\ q.size \in Int /\ q.queries \in Seq(Range(q.queries))
                                 /\ \A i \in 1..Len(q.queries) : IsQuery(q.queries[i])
           /\ q.op = "fetch" => q.ids \in Seq(Keys)
           /\ q.op \in {"paginate", "search", "fetch"}
  <1>1. IsReadRequest(q)
    BY ReadsAssumption
  <1>2. q.queries \in Seq(Range(q.queries)) => DOMAIN q.queries = 1..Len(q.queries)
    OBVIOUS
  <1>3. QED
    BY <1>1, <1>2 DEF IsReadRequest

\* The number of queries or ids of a call.
LEMMA PlacesAreNat ==
    ASSUME NEW q \in ReadRequests, q.op \in {"search", "fetch"}
    PROVE  /\ Places(q) \in Nat
           /\ q.op = "search" => (Places(q) = 0 <=> q.queries = <<>>)
           /\ q.op = "fetch" => (Places(q) = 0 <=> q.ids = <<>>)
  <1>1. CASE q.op = "search"
    <2>1. q.queries \in Seq(Range(q.queries))
      BY <1>1, ReadRequestFields
    <2>2. Len(q.queries) \in Nat /\ (Len(q.queries) = 0 <=> q.queries = <<>>)
      BY <2>1
    <2>3. QED
      BY <1>1, <2>2 DEF Places
  <1>2. CASE q.op = "fetch"
    <2>1. q.ids \in Seq(Keys)
      BY <1>2, ReadRequestFields
    <2>2. Len(q.ids) \in Nat /\ (Len(q.ids) = 0 <=> q.ids = <<>>)
      BY <2>1
    <2>3. QED
      BY <1>2, <2>2 DEF Places
  <1>3. QED
    BY <1>1, <1>2

\* No reader is in a call at first.
LEMMA ReadsInitInv == ReadsInit /\ TypeOK => ReadsInv
  <1> SUFFICES ASSUME ReadsInit, TypeOK PROVE ReadsInv
    OBVIOUS
  <1>1. ReadsTypeOK
    <2>1. \A r \in Readers : answers[r] = <<>> /\ <<>> \in Seq(SUBSET Keys)
      BY DEF ReadsInit
    <2>2. answers \in [Readers -> Seq(SUBSET Keys)]
      BY DEF ReadsInit
    <2>3. /\ rpc \in [Readers -> Finished \union {"paginate", "search", "fetch"}]
          /\ \A r \in Readers : rpc[r] = "idle"
          /\ at \in [Readers -> Nat] /\ reads \in Nat
          /\ kept \in [Readers -> SUBSET Present] /\ quiet \in [Readers -> BOOLEAN]
      BY DEF ReadsInit, Finished
    <2>4. QED
      BY <2>2, <2>3 DEF ReadsTypeOK, ReadsInit
  <1>2. rreq \in [Readers -> ReadRequests \union {NoRequest}]
    BY DEF ReadsInit
  <1>3. ASSUME NEW r \in Readers
        PROVE  ReadOf(r)
    <2>1. rpc[r] = "idle" /\ rreq[r].op = "none"
      BY DEF ReadsInit, NoRequest
    <2>2. QED
      BY <2>1 DEF ReadOf, ReadAt, PlacesSoFar, PagesSoFar
  <1>4. QED
    BY <1>1, <1>2, <1>3 DEF ReadsInv

-----------------------------------------------------------------------------
(* Steps of writers. *)

\* What a reader has stays right while others write.
LEMMA WritersLeaveReads ==
    ASSUME Shape, TypeOK', ReadsInv, NEW W, \A x, y \in W : x = y, Present' \ W \subseteq Present,
           Reorder(W)
    PROVE  ReadsInv'
  <1>1. /\ order' \in Orders(Tracked')
        /\ rpc' = rpc /\ rreq' = rreq /\ at' = at /\ answers' = answers /\ reads' = reads
        /\ \A r \in Readers : kept'[r] = kept[r] \intersect Present'
        /\ \A r \in Readers :
               quiet'[r] <=> quiet[r] /\ index' = index /\ Present \subseteq Present' \ W
    <2>1. order \in Orders(Tracked)
      BY DEF ReadsInv, ReadsTypeOK
    <2>2. order' \in Orders(Tracked')
      BY <2>1, ReorderOrders
    <2>3. QED
      BY <2>2 DEF Reorder, readers
  <1>2. kept' \in [Readers -> SUBSET Present'] /\ quiet' \in [Readers -> BOOLEAN]
    BY DEF Reorder
  <1>3. ReadsTypeOK'
    BY <1>1, <1>2 DEF ReadsInv, ReadsTypeOK
  <1>4. (rreq \in [Readers -> ReadRequests \union {NoRequest}])'
    BY <1>1 DEF ReadsInv
  <1>5. ASSUME NEW r \in Readers
        PROVE  ReadOf(r)'
    <2>1. ReadAt(r) /\ PlacesSoFar(r) /\ PagesSoFar(r)
      BY DEF ReadsInv, ReadOf
    <2>2. ReadAt(r)'
      BY <1>1, <2>1 DEF ReadAt
    <2>3. PlacesSoFar(r)'
      <3>1. \A i : RightAt(r, i) => RightAt(r, i)'
        BY <1>1 DEF RightAt
      <3>2. QED
        BY <1>1, <2>1, <3>1 DEF PlacesSoFar
    <2>4. PagesSoFar(r)'
      <3> SUFFICES ASSUME rreq[r].op = "paginate", quiet'[r], ~IsKNN(rreq[r].query)
                   PROVE  PagesSoFar(r)'
        BY <1>1 DEF PagesSoFar
      <3> DEFINE q == rreq[r].query
      <3>1. quiet[r] /\ index' = index /\ Present \subseteq Present' \ W
        BY <1>1
      <3>2. Returned(r)' = Returned(r) /\ Disjoint(r)' = Disjoint(r)
        BY <1>1 DEF Returned, Disjoint
      <3>3. at[r] \in Nat /\ order \in Orders(Tracked) /\ kept[r] \subseteq Present
        BY DEF ReadsInv, ReadsTypeOK
      <3>4. Tracked \in SUBSET Keys /\ Tracked' \in SUBSET Keys
        BY DEF Tracked, Present
      <3>5. \A k : Rank(q, k) \in Nat
        BY <3>4, RankIsNat DEF Rank
      <3>6. ASSUME index # "live", NEW k
            PROVE  Rank(q, k)' = Rank(q, k) /\ Found(q, Tracked)' = Found(q, Tracked)
        <4>1. Tracked = {} /\ Tracked' = {}
          BY <3>1, <3>6 DEF Tracked
        <4>2. Found(q, {}) = {}
          BY DEF Found
        <4>3. Before(q, Tracked, order, k) = {} /\ Before(q, Tracked', order', k) = {}
          BY <4>1, <4>2 DEF Before
        <4>4. QED
          BY <1>1, <4>1, <4>2, <4>3 DEF Rank
      <3>7. ASSUME NEW k \in Tracked
            PROVE  /\ Rank(q, k)' >= Rank(q, k)
                   /\ k \in Found(q, Tracked) => k \in Found(q, Tracked)'
                   /\ q.nearest = "" => Rank(q, k)' = Rank(q, k)
        <4>1. PICK v : v = q
          OBVIOUS
        <4>2. /\ k \in Found(v, Tracked) => k \in Found(v, Tracked')
              /\ Before(v, Tracked, order, k) \subseteq Before(v, Tracked', order', k)
              /\ v.nearest = "" => Before(v, Tracked', order', k) = Before(v, Tracked, order, k)
          BY <3>1, <3>3, RanksGrow
        <4>3. PICK B : B = Before(v, Tracked', order', k)
          OBVIOUS
        <4>4. PICK A : A = Before(v, Tracked, order, k)
          OBVIOUS
        <4>5. IsFiniteSet(B) /\ Cardinality(B) \in Nat
          BY <3>4, <4>3, FiniteDocs DEF Before, Found
        <4>6. A \in SUBSET B
          BY <4>2, <4>3, <4>4
        <4>7. Cardinality(A) <= Cardinality(B) /\ Cardinality(A) \in Nat
          BY <4>5, <4>6, FS_Subset, FS_CardinalityType
        <4>8. Rank(q, k) = Cardinality(A) /\ Rank(q, k)' = Cardinality(B)
          BY <1>1, <4>1, <4>3, <4>4 DEF Rank
        <4>9. (q.nearest = "" => A = B) /\ (k \in Found(q, Tracked) => k \in Found(q, Tracked)')
          BY <1>1, <4>1, <4>2, <4>3, <4>4
        <4>10. QED
          BY <4>5, <4>7, <4>8, <4>9
      <3>8. ASSUME NEW k \in kept'[r] \intersect Sought(q), rpc[r] \in {"paginate", "ok"}
            PROVE  k \in Returned(r) \/ (rpc[r] = "paginate" /\ Rank(q, k)' >= at[r])
        <4>1. k \in kept[r] \intersect Sought(q)
          BY <1>1, <3>8
        <4>2. k \in Returned(r) \/ (rpc[r] = "paginate" /\ Rank(q, k) >= at[r])
          BY <2>1, <3>1, <3>8, <4>1 DEF PagesSoFar
        <4>3. CASE index # "live"
          BY <3>6, <4>2, <4>3
        <4>4. CASE index = "live"
          <5>1. k \in Tracked
            BY <3>3, <4>1, <4>4 DEF Tracked
          <5>2. /\ Rank(q, k)' >= Rank(q, k) /\ Rank(q, k) \in Nat /\ Rank(q, k)' \in Nat
            <6>1. Rank(q, k)' \in Nat
              BY <3>4, <1>1, RankIsNat DEF Rank
            <6>2. QED
              BY <3>5, <3>7, <5>1, <6>1
          <5>3. QED
            BY <3>3, <4>2, <5>2
        <4>5. QED
          BY <4>3, <4>4
      <3>9. ASSUME NEW k \in Returned(r), q.nearest = "", rpc[r] = "paginate"
            PROVE  k \in Found(q, Tracked)' /\ Rank(q, k)' < at[r]
        <4>1. k \in Found(q, Tracked) /\ Rank(q, k) < at[r]
          BY <2>1, <3>1, <3>9 DEF PagesSoFar
        <4>2. k \in Tracked
          BY <4>1 DEF Found
        <4>3. QED
          BY <3>7, <3>9, <4>1, <4>2
      <3>10. q.nearest = "" /\ rpc[r] \in {"paginate", "ok"} => Disjoint(r)
        BY <2>1, <3>1 DEF PagesSoFar
      <3>11. QED
        BY <1>1, <3>2, <3>8, <3>9, <3>10 DEF PagesSoFar
    <2>5. QED
      BY <2>2, <2>3, <2>4 DEF ReadOf
  <1>6. QED
    BY <1>3, <1>4, <1>5 DEF ReadsInv

-----------------------------------------------------------------------------
(* Steps of readers. *)

ReadLabels == Finished \union {"paginate", "search", "fetch"}

\* A reader's step leaves the others as they are.
LEMMA OtherReaders ==
    ASSUME UNCHANGED <<vars, order>>, NEW s, ReadOf(s), rpc'[s] = rpc[s], rreq'[s] = rreq[s],
           at'[s] = at[s], answers'[s] = answers[s], kept'[s] = kept[s], quiet'[s] = quiet[s]
    PROVE  ReadOf(s)'
  <1>1. Tracked' = Tracked /\ order' = order
    BY DEF vars, Tracked, Present
  <1>2. ReadAt(s)'
    BY DEF ReadOf, ReadAt
  <1>3. \A i : RightAt(s, i) => RightAt(s, i)'
    BY DEF RightAt
  <1>4. PlacesSoFar(s)'
    BY <1>3 DEF ReadOf, PlacesSoFar
  <1>5. Returned(s)' = Returned(s) /\ Disjoint(s)' = Disjoint(s)
    BY DEF Returned, Disjoint
  <1>6. \A q, k : Rank(q, k)' = Rank(q, k)
    BY <1>1 DEF Rank
  <1>7. PagesSoFar(s)'
    BY <1>1, <1>5, <1>6 DEF ReadOf, PagesSoFar
  <1>8. QED
    BY <1>2, <1>4, <1>7 DEF ReadOf

\* Returning without a further answer.
LEMMA ReturnKeeps ==
    ASSUME ReadsInv, NEW r \in Readers, NEW l \in {"ok", "err"}, Returns(r, l), rpc[r] # "idle"
    PROVE  /\ ReadsTypeOK' /\ (rreq \in [Readers -> ReadRequests \union {NoRequest}])'
           /\ \A s \in Readers \ {r} : ReadOf(s)'
           /\ rpc'[r] = l /\ UNCHANGED <<vars, order, rreq, at, answers, reads, kept, quiet>>
  <1>1. /\ rpc' = [rpc EXCEPT ![r] = l]
        /\ UNCHANGED <<vars, order, rreq, at, answers, reads, kept, quiet>>
    BY DEF Returns
  <1>2. rpc \in [Readers -> ReadLabels] /\ l \in ReadLabels
    BY DEF ReadsInv, ReadsTypeOK, ReadLabels, Finished
  <1>3. /\ rpc' \in [Readers -> ReadLabels] /\ rpc'[r] = l
        /\ \A s \in Readers \ {r} : rpc'[s] = rpc[s]
    BY <1>1, <1>2
  <1>4. Tracked' = Tracked /\ Present' = Present /\ TypeOK' = TypeOK
    BY <1>1 DEF vars, Tracked, Present, TypeOK
  <1>5. \A s \in Readers : rpc'[s] # "idle" => rreq'[s] \in ReadRequests
    BY <1>1, <1>3 DEF ReadsInv, ReadsTypeOK
  <1>6. ReadsTypeOK'
    BY <1>1, <1>3, <1>4, <1>5 DEF ReadsInv, ReadsTypeOK, ReadLabels
  <1>7. ASSUME NEW s \in Readers \ {r} PROVE ReadOf(s)'
    <2>1. ReadOf(s)
      BY DEF ReadsInv
    <2>2. QED
      BY <1>1, <1>3, <2>1, OtherReaders
  <1>8. QED
    BY <1>1, <1>3, <1>6, <1>7 DEF ReadsInv

\* Having one answer more.
LEMMA AnswerKeeps ==
    ASSUME ReadsInv, NEW r \in Readers, NEW answer \in SUBSET Keys, NEW n \in Nat,
           NEW l \in ReadLabels, Answered(r, answer, n, l), rpc[r] # "idle"
    PROVE  /\ ReadsTypeOK' /\ (rreq \in [Readers -> ReadRequests \union {NoRequest}])'
           /\ \A s \in Readers \ {r} : ReadOf(s)'
           /\ rpc'[r] = l /\ answers'[r] = Append(answers[r], answer) /\ at'[r] = at[r] + n
           /\ UNCHANGED <<vars, order, rreq, reads, kept, quiet>>
  <1>1. /\ rpc' = [rpc EXCEPT ![r] = l]
        /\ answers' = [answers EXCEPT ![r] = Append(@, answer)]
        /\ at' = [at EXCEPT ![r] = @ + n]
        /\ UNCHANGED <<vars, order, rreq, reads, kept, quiet>>
    BY DEF Answered
  <1>2. /\ rpc \in [Readers -> ReadLabels] /\ at \in [Readers -> Nat]
        /\ answers \in [Readers -> Seq(SUBSET Keys)]
    BY DEF ReadsInv, ReadsTypeOK, ReadLabels
  <1>3. /\ rpc' \in [Readers -> ReadLabels] /\ rpc'[r] = l
        /\ \A s \in Readers \ {r} : rpc'[s] = rpc[s]
    BY <1>1, <1>2
  <1>4. /\ at' \in [Readers -> Nat] /\ at'[r] = at[r] + n
        /\ \A s \in Readers \ {r} : at'[s] = at[s]
    BY <1>1, <1>2
  <1>5. /\ answers' \in [Readers -> Seq(SUBSET Keys)] /\ answers'[r] = Append(answers[r], answer)
        /\ \A s \in Readers \ {r} : answers'[s] = answers[s]
    <2>1. answers[r] \in Seq(SUBSET Keys)
      BY <1>2
    <2>2. Append(answers[r], answer) \in Seq(SUBSET Keys)
      BY <2>1
    <2>3. QED
      BY <1>1, <1>2, <2>2
  <1>6. Tracked' = Tracked /\ Present' = Present /\ TypeOK' = TypeOK
    BY <1>1 DEF vars, Tracked, Present, TypeOK
  <1>7. \A s \in Readers : rpc'[s] # "idle" => rreq'[s] \in ReadRequests
    BY <1>1, <1>3 DEF ReadsInv, ReadsTypeOK
  <1>8. ReadsTypeOK'
    BY <1>1, <1>3, <1>4, <1>5, <1>6, <1>7 DEF ReadsInv, ReadsTypeOK, ReadLabels
  <1>9. ASSUME NEW s \in Readers \ {r} PROVE ReadOf(s)'
    <2>1. ReadOf(s)
      BY DEF ReadsInv
    <2>2. QED
      BY <1>1, <1>3, <1>4, <1>5, <2>1, OtherReaders
  <1>10. QED
    BY <1>1, <1>3, <1>4, <1>5, <1>8, <1>9 DEF ReadsInv

\* An error leaves nothing to be right.
LEMMA ErrorReads ==
    ASSUME ReadsInv, NEW r \in Readers, Returns(r, "err"), rpc[r] # "idle"
    PROVE  ReadsInv'
  <1>1. /\ ReadsTypeOK' /\ (rreq \in [Readers -> ReadRequests \union {NoRequest}])'
        /\ \A s \in Readers \ {r} : ReadOf(s)'
        /\ rpc'[r] = "err"
    BY ReturnKeeps
  <1>2. ReadOf(r)'
    BY <1>1 DEF ReadOf, ReadAt, PlacesSoFar, PagesSoFar
  <1>3. QED
    BY <1>1, <1>2 DEF ReadsInv

\* A call begins with no answers; one of no queries or ids has all of them.
LEMMA ReadBeginInv ==
    ASSUME ReadsInv, NEW r \in Readers, NEW q \in ReadRequests, ReadBegin(r, q)
    PROVE  ReadsInv'
  <1> DEFINE l == IF q.op = "paginate" /\ q.size <= 0 THEN "err"
                  ELSE IF \/ q.op = "search" /\ q.queries = <<>>
                          \/ q.op = "fetch" /\ q.ids = <<>> THEN "ok"
                  ELSE q.op
  <1>1. /\ rpc' = [rpc EXCEPT ![r] = l] /\ rreq' = [rreq EXCEPT ![r] = q]
        /\ at' = [at EXCEPT ![r] = 0] /\ answers' = [answers EXCEPT ![r] = <<>>]
        /\ kept' = [kept EXCEPT ![r] = Present] /\ quiet' = [quiet EXCEPT ![r] = TRUE]
        /\ reads' = reads + 1 /\ UNCHANGED <<vars, order>>
    BY DEF ReadBegin
  <1>2. /\ rpc \in [Readers -> ReadLabels] /\ at \in [Readers -> Nat] /\ reads \in Nat
        /\ answers \in [Readers -> Seq(SUBSET Keys)]
        /\ rreq \in [Readers -> ReadRequests \union {NoRequest}]
        /\ kept \in [Readers -> SUBSET Present] /\ quiet \in [Readers -> BOOLEAN]
    BY DEF ReadsInv, ReadsTypeOK, ReadLabels
  <1>3. l \in ReadLabels
    BY ReadRequestFields DEF ReadLabels, Finished
  <1>4. PICK m : m = l
    OBVIOUS
  <1>5. /\ rpc' \in [Readers -> ReadLabels] /\ rpc'[r] = l
        /\ \A s \in Readers \ {r} : rpc'[s] = rpc[s]
    <2>1. rpc' = [rpc EXCEPT ![r] = m]
      BY <1>1, <1>4
    <2> HIDE DEF l
    <2>2. QED
      BY <1>2, <1>3, <1>4, <2>1
  <1>6. /\ rreq' \in [Readers -> ReadRequests \union {NoRequest}] /\ rreq'[r] = q
        /\ \A s \in Readers \ {r} : rreq'[s] = rreq[s]
    BY <1>1, <1>2
  <1>7. /\ at' \in [Readers -> Nat] /\ at'[r] = 0 /\ \A s \in Readers \ {r} : at'[s] = at[s]
    BY <1>1, <1>2
  <1>8. /\ answers' \in [Readers -> Seq(SUBSET Keys)] /\ answers'[r] = <<>>
        /\ \A s \in Readers \ {r} : answers'[s] = answers[s]
    BY <1>1, <1>2
  <1>9. Tracked' = Tracked /\ Present' = Present /\ TypeOK' = TypeOK
    BY <1>1 DEF vars, Tracked, Present, TypeOK
  <1>10. /\ kept' \in [Readers -> SUBSET Present'] /\ kept'[r] = Present
         /\ \A s \in Readers \ {r} : kept'[s] = kept[s]
    <2>1. kept' \in [Readers -> SUBSET Present] /\ kept'[r] = Present
          /\ \A s \in Readers \ {r} : kept'[s] = kept[s]
      BY <1>1, <1>2
    <2>2. QED
      BY <1>9, <2>1
  <1>11. /\ quiet' \in [Readers -> BOOLEAN] /\ quiet'[r] = TRUE
         /\ \A s \in Readers \ {r} : quiet'[s] = quiet[s]
    BY <1>1, <1>2
  <1>12. \A s \in Readers : rpc'[s] # "idle" => rreq'[s] \in ReadRequests
    BY <1>5, <1>6 DEF ReadsInv, ReadsTypeOK
  <1> HIDE DEF l
  <1>13. reads' \in Nat
    BY <1>1, <1>2
  <1>14. ReadsTypeOK'
    BY <1>1, <1>5, <1>7, <1>8, <1>9, <1>10, <1>11, <1>12, <1>13
       DEF ReadsInv, ReadsTypeOK, ReadLabels
  <1>15. ASSUME NEW s \in Readers \ {r} PROVE ReadOf(s)'
    <2>1. ReadOf(s)
      BY DEF ReadsInv
    <2>2. QED
      BY <1>1, <1>5, <1>6, <1>7, <1>8, <1>10, <1>11, <2>1, OtherReaders
  <1>16. ReadAt(r)'
    <2>1. l \in {"paginate", "search", "fetch"} => q.op = l
      BY DEF l
    <2>2. l = "paginate" => q.size > 0
      BY ReadRequestFields DEF l
    <2>3. QED
      BY <1>5, <1>6, <2>1, <2>2 DEF ReadAt
  <1>17. PlacesSoFar(r)'
    <2> SUFFICES ASSUME q.op \in {"search", "fetch"}
                 PROVE  PlacesSoFar(r)'
      BY <1>6 DEF PlacesSoFar
    <2>1. Len(<<>>) = 0
      OBVIOUS
    <2>2. Places(q) \in Nat /\ (l = "ok" <=> Places(q) = 0)
      BY PlacesAreNat DEF l
    <2>3. 1..0 = {}
      OBVIOUS
    <2>4. QED
      BY <1>5, <1>6, <1>7, <1>8, <2>1, <2>2, <2>3 DEF PlacesSoFar
  <1>18. PagesSoFar(r)'
    <2> SUFFICES ASSUME q.op = "paginate"
                 PROVE  PagesSoFar(r)'
      BY <1>6 DEF PagesSoFar
    <2>1. l \in {"paginate", "err"}
      BY DEF l
    <2>2. \A k : Rank(q.query, k)' \in Nat
      <3>1. Tracked' \in SUBSET Keys
        BY DEF Tracked, Present
      <3>2. QED
        BY <1>1, <3>1, RankIsNat DEF Rank
    <2>3. Returned(r)' = {} /\ Disjoint(r)'
      BY <1>8 DEF Returned, Disjoint
    <2>4. QED
      BY <1>5, <1>6, <1>7, <2>1, <2>2, <2>3 DEF PagesSoFar
  <1>19. QED
    BY <1>6, <1>14, <1>15, <1>16, <1>17, <1>18 DEF ReadsInv, ReadOf

-----------------------------------------------------------------------------
(* Answers. *)

\* Paginate's query is the caller's with another offset and limit: it finds the same.
LEMMA PageOfQuery ==
    ASSUME NEW q, IsQuery(q), ~IsKNN(q), NEW a \in Nat, NEW s \in Int, s > 0, NEW T, NEW o,
           NEW p, p.kind = q.kind, p.base = q.base, p.nearest = q.nearest, p.filter = q.filter,
           p.offset = a, p.num = s
    PROVE  \A d : d \in Reply(p, T, o) <=> /\ d \in Found(q, T)
                                          /\ Cardinality(Before(q, T, o, d)) \in a..(a + s - 1)
  <1>1. Limit(p) = s /\ ~IsKNN(p)
    BY DEF Limit, IsKNN
  <1>2. QueryString(p) = QueryString(q)
    BY DEF QueryString
  <1>3. Found(p, T) = Found(q, T)
    BY <1>2 DEF Found
  <1>4. \A x : Distance(p, x) = Distance(q, x)
    BY DEF Distance
  <1>5. ASSUME NEW x, NEW y
        PROVE  Precedes(p, o, x, y) <=> Precedes(q, o, x, y)
    <2>1. Distance(p, x) = Distance(q, x) /\ Distance(p, y) = Distance(q, y)
      BY <1>4
    <2>2. QED
      BY <2>1 DEF Precedes
  <1>6. \A d : Before(p, T, o, d) = Before(q, T, o, d)
    BY <1>3, <1>5 DEF Before
  <1>7. QED
    BY <1>1, <1>3, <1>6 DEF Reply

\* What Paginate has after a page: the documents in front of the next offset; when the page is
\* not full these are all, as nothing is behind it.
LEMMA PageInv ==
    ASSUME ReadsInv, TypeOK, NEW r \in Readers, Page(r)
    PROVE  ReadsInv'
  <1> DEFINE q == rreq[r].query
             p == PageAt(r)
             a == at[r]
             s == rreq[r].size
  <1>1. rpc[r] = "paginate" /\ rreq[r].op = "paginate" /\ s > 0 /\ rpc[r] # "idle"
    BY DEF Page, ReadsInv, ReadOf, ReadAt
  <1>2. rreq[r] \in ReadRequests
    BY <1>1 DEF ReadsInv, ReadsTypeOK
  <1>3. IsQuery(q) /\ s \in Int /\ rreq[r].stop \in Nat
    BY <1>1, <1>2, ReadRequestFields
  <1>4. CASE index # "live" \/ ~WellFormed(q)
    <2>1. Returns(r, "err")
      BY <1>4 DEF Page
    <2>2. QED
      BY <1>1, <2>1, ErrorReads
  <1>5. CASE index = "live" /\ WellFormed(q)
    <2>1. /\ Tracked = Present /\ Tracked \in SUBSET Keys /\ order \in Orders(Tracked)
          /\ kept[r] \subseteq Tracked /\ a \in Nat /\ answers[r] \in Seq(SUBSET Keys)
      BY <1>5 DEF Tracked, Present, ReadsInv, ReadsTypeOK
    <2>2. PagesSoFar(r)
      BY DEF ReadsInv, ReadOf
    <2>3. \A k : Rank(q, k) \in Nat
      BY <2>1, RankIsNat DEF Rank
    <2>4. p \in SUBSET Keys
      BY <2>1 DEF PageAt, Reply, Found
    <2>5. ASSUME ~IsKNN(q)
          PROVE  /\ p = {d \in Found(q, Tracked) : Rank(q, d) \in a..(a + s - 1)}
                 /\ Cardinality(p) # s => \A d \in Found(q, Tracked) : Rank(q, d) < a + s
      <3>1. p = {d \in Found(q, Tracked) : Rank(q, d) \in a..(a + s - 1)}
        <4>1. PICK v : v = q
          OBVIOUS
        <4>2. PICK b \in Nat : b = a
          BY <2>1
        <4>3. PICK n \in Int : n = s
          BY <1>3
        <4>4. PICK T : T = Tracked
          OBVIOUS
        <4>5. PICK o : o = order
          OBVIOUS
        <4>6. PICK w : w = [v EXCEPT !.offset = b, !.num = n]
          OBVIOUS
        <4>7. p = Reply(w, T, o)
          BY <4>6, <4>1, <4>2, <4>3, <4>4, <4>5 DEF PageAt
        <4> HIDE DEF p, q, a, s
        <4>8. \A d : d \in Reply(w, T, o) <=>
                        d \in Found(v, T) /\ Cardinality(Before(v, T, o, d)) \in b..(b + n - 1)
          <5>1. IsQuery(v) /\ ~IsKNN(v) /\ n > 0
            BY <1>1, <1>3, <2>5, <4>1, <4>3
          <5>2. DOMAIN v = {"kind", "base", "nearest", "filter", "offset", "num", "k", "err"}
            BY <5>1 DEF IsQuery, NewFilterQuery, NewQuery
          <5>3. /\ w.kind = v.kind /\ w.base = v.base /\ w.nearest = v.nearest
                /\ w.filter = v.filter /\ w.offset = b /\ w.num = n
            BY <4>6, <5>2
          <5>4. QED
            BY <5>1, <5>3, PageOfQuery
        <4>9. QED
          BY <4>1, <4>2, <4>3, <4>4, <4>5, <4>7, <4>8 DEF Rank
      <3>2. s \in Nat
        BY <1>1, <1>3
      <3>3. PICK T \in SUBSET Keys : T = Tracked
        BY <2>1
      <3>4. PICK o \in Orders(T) : o = order
        BY <2>1, <3>3
      <3>5. p = {d \in Found(q, T) : Cardinality(Before(q, T, o, d)) \in a..(a + s - 1)}
        BY <3>1, <3>3, <3>4 DEF Rank
      <3>6. PICK b \in Nat : b = a
        BY <2>1
      <3>7. PICK n \in Nat : n = s
        BY <3>2
      <3>8. PICK v : v = q
        OBVIOUS
      <3> HIDE DEF p, q, a, s
      <3>9. ASSUME Cardinality(p) # s
            PROVE  \A d \in Found(v, T) : Cardinality(Before(v, T, o, d)) < b + n
        <4>1. Cardinality({d \in Found(v, T) :
                              Cardinality(Before(v, T, o, d)) \in b..(b + n - 1)}) # n
          BY <3>5, <3>6, <3>7, <3>8, <3>9
        <4>2. IsQuery(v)
          BY <1>3, <3>8
        <4>3. QED
          BY <4>1, <4>2, LastPage
      <3>10. QED
        BY <3>1, <3>3, <3>4, <3>6, <3>7, <3>8, <3>9 DEF Rank
    <2>6. Found(q, Tracked) = Sought(q) \intersect Tracked
      BY <2>1 DEF Sought, Found
    <2>7. CASE p = {}
      <3>1. Returns(r, "ok")
        BY <1>5, <2>7 DEF Page
      <3>2. /\ ReadsTypeOK' /\ (rreq \in [Readers -> ReadRequests \union {NoRequest}])'
            /\ \A t \in Readers \ {r} : ReadOf(t)'
            /\ rpc'[r] = "ok" /\ UNCHANGED <<vars, order, rreq, at, answers, reads, kept, quiet>>
        BY <1>1, <3>1, ReturnKeeps
      <3>3. ReadAt(r)' /\ PlacesSoFar(r)'
        BY <1>1, <3>2 DEF ReadAt, PlacesSoFar
      <3>4. Returned(r)' = Returned(r) /\ Disjoint(r)' = Disjoint(r)
        BY <3>2 DEF Returned, Disjoint
      <3>5. ASSUME ~IsKNN(q), quiet[r], NEW k \in kept[r] \intersect Sought(q)
            PROVE  k \in Returned(r)
        <4>1. k \in Found(q, Tracked)
          BY <2>1, <2>6
        <4>2. Cardinality(p) = 0
          BY <2>7, FS_EmptySet
        <4>3. Rank(q, k) < a + s /\ Rank(q, k) \notin a..(a + s - 1) /\ Rank(q, k) \in Nat
          BY <1>1, <2>3, <2>5, <2>7, <3>5, <4>1, <4>2
        <4>4. ~(Rank(q, k) >= a)
          BY <1>3, <2>1, <4>3
        <4>5. QED
          BY <1>1, <2>2, <3>5, <4>4 DEF PagesSoFar
      <3>6. q.nearest = "" /\ quiet[r] /\ ~IsKNN(q) => Disjoint(r)
        BY <1>1, <2>2 DEF PagesSoFar
      <3>7. PagesSoFar(r)'
        BY <3>2, <3>4, <3>5, <3>6 DEF PagesSoFar
      <3>8. QED
        BY <3>2, <3>3, <3>7 DEF ReadsInv, ReadOf
    <2>8. CASE p # {}
      <3>1. PICK l : /\ Answered(r, p, s, l) /\ l \in {"ok", "err", "paginate"}
                     /\ l = "ok" => Cardinality(p) < s
        <4> HIDE DEF p
        <4>1. QED
          BY <1>5, <2>8 DEF Page, p
      <3>2. l \in ReadLabels /\ s \in Nat
        BY <1>1, <1>3, <3>1 DEF ReadLabels, Finished
      <3>3. /\ ReadsTypeOK' /\ (rreq \in [Readers -> ReadRequests \union {NoRequest}])'
            /\ \A t \in Readers \ {r} : ReadOf(t)'
            /\ rpc'[r] = l /\ answers'[r] = Append(answers[r], p) /\ at'[r] = a + s
            /\ UNCHANGED <<vars, order, rreq, reads, kept, quiet>>
        <4> HIDE DEF p, a, s
        <4>1. QED
          BY <1>1, <2>4, <3>1, <3>2, AnswerKeeps DEF a
      <3>4. ReadAt(r)' /\ PlacesSoFar(r)'
        BY <1>1, <3>1, <3>3 DEF ReadAt, PlacesSoFar
      <3>5. PICK n \in Nat : n = Len(answers[r]) /\ DOMAIN answers[r] = 1..n
        BY <2>1
      <3>6. /\ DOMAIN answers'[r] = 1..(n + 1) /\ answers'[r][n + 1] = p
            /\ \A i \in 1..n : answers'[r][i] = answers[r][i]
        <4> HIDE DEF p
        <4>1. QED
          BY <2>1, <2>4, <3>3, <3>5
      <3>7. Returned(r)' = Returned(r) \union p
        <4> HIDE DEF p
        <4>1. ASSUME NEW k \in Keys
              PROVE  (\E i \in 1..(n + 1) : k \in answers'[r][i])
                        <=> (\E i \in 1..n : k \in answers[r][i]) \/ k \in p
          <5>1. \A i \in 1..(n + 1) : i \in 1..n \/ i = n + 1
            OBVIOUS
          <5>2. n + 1 \in 1..(n + 1) /\ \A i \in 1..n : i \in 1..(n + 1)
            OBVIOUS
          <5>3. QED
            BY <3>6, <5>1, <5>2
        <4>2. QED
          BY <2>4, <3>5, <3>6, <4>1 DEF Returned
      <3>8. ASSUME ~IsKNN(q), quiet[r], NEW k \in kept[r] \intersect Sought(q),
                   l \in {"ok", "paginate"}
            PROVE  k \in Returned(r) \union p \/ (l = "paginate" /\ Rank(q, k) >= a + s)
        <4>1. k \in Found(q, Tracked)
          BY <2>1, <2>6
        <4>2. k \in Returned(r) \/ Rank(q, k) >= a
          BY <1>1, <2>2, <3>8 DEF PagesSoFar
        <4>3. CASE Rank(q, k) >= a /\ Rank(q, k) < a + s
          <5>1. Rank(q, k) \in a..(a + s - 1)
            BY <1>3, <2>1, <2>3, <4>3
          <5>2. k \in p
            BY <2>5, <3>8, <4>1, <5>1
          <5>3. QED
            BY <5>2
        <4>4. CASE Rank(q, k) >= a + s
          <5>1. Rank(q, k) < a + s => FALSE
            BY <1>3, <2>1, <2>3, <4>4
          <5>2. CASE l = "ok"
            <6>1. Cardinality(p) # s
              <7>1. Cardinality(p) < s
                BY <3>1, <5>2
              <7>2. QED
                BY <1>3, <7>1
            <6>2. QED
              BY <2>5, <3>8, <4>1, <5>1, <6>1
          <5>3. QED
            BY <3>8, <4>4, <5>2
        <4>5. Rank(q, k) < a + s \/ Rank(q, k) >= a + s
          BY <1>3, <2>1, <2>3
        <4>6. QED
          BY <4>2, <4>3, <4>4, <4>5
      <3>9. ASSUME ~IsKNN(q), quiet[r], q.nearest = ""
            PROVE  /\ \A k \in Returned(r) \union p : k \in Found(q, Tracked) /\ Rank(q, k) < a + s
                   /\ Disjoint(r)'
        <4>1. \A k \in Returned(r) : k \in Found(q, Tracked) /\ Rank(q, k) < a
          BY <1>1, <2>2, <3>9 DEF PagesSoFar
        <4>2. \A k \in p : k \in Found(q, Tracked) /\ Rank(q, k) \in a..(a + s - 1)
          BY <2>5, <3>9
        <4>3. \A k : Rank(q, k) < a => Rank(q, k) < a + s /\ Rank(q, k) \notin a..(a + s - 1)
          BY <1>1, <1>3, <2>1, <2>3
        <4>4. \A k : Rank(q, k) \in a..(a + s - 1) => Rank(q, k) < a + s
          BY <1>3, <2>1, <2>3
        <4>5. Returned(r) \intersect p = {}
          BY <4>1, <4>2, <4>3
        <4>6. \A i, j \in 1..n : i # j => answers[r][i] \intersect answers[r][j] = {}
          BY <1>1, <2>2, <3>5, <3>9 DEF PagesSoFar, Disjoint
        <4>7. \A i \in 1..n : answers[r][i] \subseteq Returned(r)
          <5>1. \A i \in 1..n : answers[r][i] \subseteq Keys
            BY <2>1, <3>5
          <5>2. QED
            BY <3>5, <5>1 DEF Returned
        <4>8. Disjoint(r)'
          <5> SUFFICES ASSUME NEW i \in 1..(n + 1), NEW j \in 1..(n + 1), i # j
                       PROVE  answers'[r][i] \intersect answers'[r][j] = {}
            BY <3>6 DEF Disjoint
          <5> HIDE DEF p
          <5>1. i \in 1..n \/ i = n + 1
            OBVIOUS
          <5>2. j \in 1..n \/ j = n + 1
            OBVIOUS
          <5>3. CASE i \in 1..n /\ j \in 1..n
            BY <3>6, <4>6, <5>3
          <5>4. CASE i = n + 1 /\ j \in 1..n
            BY <3>6, <4>5, <4>7, <5>4
          <5>5. CASE i \in 1..n /\ j = n + 1
            BY <3>6, <4>5, <4>7, <5>5
          <5>6. QED
            BY <5>1, <5>2, <5>3, <5>4, <5>5
        <4>9. QED
          BY <4>1, <4>2, <4>3, <4>4, <4>8
      <3>10. /\ Found(q, Tracked)' = Found(q, Tracked) /\ q' = q
             /\ \A k : Rank(q, k)' = Rank(q, k)
        <4>1. Tracked' = Tracked /\ order' = order /\ rreq' = rreq
          BY <3>3 DEF vars, Tracked, Present
        <4>2. QED
          BY <4>1 DEF Rank
      <3>11. PagesSoFar(r)'
        <4> HIDE DEF p, a, s
        <4>1. QED
          BY <3>1, <3>3, <3>7, <3>8, <3>9, <3>10 DEF PagesSoFar
      <3>12. QED
        BY <3>3, <3>4, <3>11 DEF ReadsInv, ReadOf
    <2>9. QED
      BY <2>7, <2>8
  <1>6. QED
    BY <1>4, <1>5

\* The next answer of BatchSearch or FetchMany, if it is right, has its place.
LEMMA AnswerInPlace ==
    ASSUME ReadsInv, NEW r \in Readers, rpc[r] \in {"search", "fetch"},
           NEW answer \in SUBSET Keys, Answered(r, answer, 1, After(r, Places(rreq[r]))),
           answer \subseteq AskedAt(rreq[r], at[r] + 1),
           ~LacksAt(rreq[r], at[r] + 1, answer) =>
               AskedAt(rreq[r], at[r] + 1) \intersect kept[r] \subseteq answer
    PROVE  ReadsInv'
  <1>1. /\ rreq[r].op = rpc[r] /\ rreq[r] \in ReadRequests /\ PlacesSoFar(r)
        /\ at[r] \in Nat /\ answers[r] \in Seq(SUBSET Keys)
    BY DEF ReadsInv, ReadsTypeOK, ReadOf, ReadAt
  <1>2. Places(rreq[r]) \in Nat
    BY <1>1, PlacesAreNat
  <1>3. PICK l : l = After(r, Places(rreq[r]))
    OBVIOUS
  <1>4. l \in ReadLabels /\ (l = "ok" <=> at[r] + 1 = Places(rreq[r])) /\ l \in {rpc[r], "ok"}
    BY <1>3 DEF After, ReadLabels, Finished
  <1>5. /\ ReadsTypeOK' /\ (rreq \in [Readers -> ReadRequests \union {NoRequest}])'
        /\ \A s \in Readers \ {r} : ReadOf(s)'
        /\ rpc'[r] = l /\ answers'[r] = Append(answers[r], answer) /\ at'[r] = at[r] + 1
        /\ UNCHANGED <<vars, order, rreq, reads, kept, quiet>>
    <2>1. Answered(r, answer, 1, l) /\ rpc[r] # "idle"
      BY <1>3
    <2>2. 1 \in Nat
      OBVIOUS
    <2>3. QED
      BY <1>4, <2>1, <2>2, AnswerKeeps
  <1>6. /\ at[r] = Len(answers[r]) /\ at[r] < Places(rreq[r])
        /\ \A i \in 1..at[r] : RightAt(r, i)
    BY <1>1, <1>2 DEF PlacesSoFar
  <1>7. /\ Len(answers'[r]) = at[r] + 1 /\ answers'[r][at[r] + 1] = answer
        /\ \A i \in 1..at[r] : answers'[r][i] = answers[r][i]
    BY <1>1, <1>5, <1>6
  <1>8. ASSUME NEW i \in 1..(at[r] + 1)
        PROVE  RightAt(r, i)'
    <2>1. CASE i \in 1..at[r]
      BY <1>5, <1>6, <1>7, <2>1 DEF RightAt
    <2>2. CASE i = at[r] + 1
      BY <1>5, <1>7, <2>2 DEF RightAt
    <2>3. QED
      BY <1>1, <2>1, <2>2
  <1>9. PlacesSoFar(r)'
    <2>1. at[r] + 1 <= Places(rreq[r])
      BY <1>1, <1>2, <1>6
    <2>2. QED
      BY <1>4, <1>5, <1>7, <1>8, <2>1 DEF PlacesSoFar
  <1>10. ReadAt(r)'
    BY <1>1, <1>4, <1>5 DEF ReadAt
  <1>11. PagesSoFar(r)'
    BY <1>1, <1>5 DEF PagesSoFar
  <1>12. QED
    BY <1>5, <1>9, <1>10, <1>11 DEF ReadsInv, ReadOf

\* A query of BatchSearch is answered with what it asks for.
LEMMA QueryInv ==
    ASSUME ReadsInv, TypeOK, NEW r \in Readers, Query(r)
    PROVE  ReadsInv'
  <1> DEFINE n == at[r] + 1
             q == rreq[r].queries[n]
  <1>1. rpc[r] = "search" /\ rreq[r].op = "search" /\ rreq[r] \in ReadRequests /\ at[r] \in Nat
    BY DEF Query, ReadsInv, ReadsTypeOK, ReadOf, ReadAt
  <1>2. /\ Places(rreq[r]) = Len(rreq[r].queries) /\ Places(rreq[r]) \in Nat
        /\ PlacesSoFar(r)
    BY <1>1, PlacesAreNat DEF Places, ReadsInv, ReadOf
  <1>3. n \in 1..Len(rreq[r].queries)
    <2>1. at[r] < Places(rreq[r])
      BY <1>1, <1>2 DEF PlacesSoFar
    <2>2. QED
      BY <1>1, <1>2, <2>1
  <1>4. IsQuery(q)
    BY <1>1, <1>3, ReadRequestFields
  <1>5. CASE Returns(r, "err")
    BY <1>1, <1>5, ErrorReads
  <1>6. CASE /\ index = "live"
             /\ Answered(r, Reply(q, Tracked, order), 1, After(r, Len(rreq[r].queries)))
    <2>1. Tracked = Present /\ Tracked \in SUBSET Keys /\ kept[r] \subseteq Tracked
      BY <1>6 DEF Tracked, Present, ReadsInv, ReadsTypeOK
    <2>2. PICK p : p = Reply(q, Tracked, order)
      OBVIOUS
    <2>3. /\ p \subseteq Asked(q) \intersect Tracked
          /\ (~MayLack(q, p) => Asked(q) \intersect Tracked = p)
      <3>1. PICK v : v = q
        OBVIOUS
      <3>2. PICK T \in SUBSET Keys : T = Tracked
        BY <2>1
      <3>3. PICK o \in Orders(T) : o = order
        BY <3>2 DEF ReadsInv, ReadsTypeOK
      <3>4. IsQuery(v) /\ p = Reply(v, T, o)
        BY <1>4, <2>2, <3>1, <3>2, <3>3
      <3> HIDE DEF q
      <3>5. p \subseteq Asked(v) \intersect T /\ (~MayLack(v, p) => Asked(v) \intersect T = p)
        BY <3>4, ReplyIsWhole
      <3>6. QED
        BY <3>1, <3>2, <3>5
    <2>4. AskedAt(rreq[r], n) = Asked(q) /\ (LacksAt(rreq[r], n, p) <=> MayLack(q, p))
      BY <1>1 DEF AskedAt, LacksAt
    <2>5. p \in SUBSET Keys
      BY <2>1, <2>3
    <2>6. Answered(r, p, 1, After(r, Places(rreq[r])))
      BY <1>2, <1>6, <2>2
    <2>7. /\ p \subseteq AskedAt(rreq[r], n)
          /\ ~LacksAt(rreq[r], n, p) => AskedAt(rreq[r], n) \intersect kept[r] \subseteq p
      <3> HIDE DEF q
      <3>1. QED
        BY <2>1, <2>3, <2>4
    <2>8. QED
      BY <1>1, <2>5, <2>6, <2>7, AnswerInPlace
  <1>7. QED
    BY <1>5, <1>6 DEF Query

\* A document of FetchMany is the one of its id, or nil.
LEMMA FetchInv ==
    ASSUME ReadsInv, NEW r \in Readers, Fetch(r)
    PROVE  ReadsInv'
  <1>1. rpc[r] = "fetch" /\ rreq[r].op = "fetch" /\ kept[r] \subseteq Present
    BY DEF Fetch, ReadsInv, ReadsTypeOK, ReadOf, ReadAt
  <1>2. PICK answer : answer = {rreq[r].ids[at[r] + 1]} \intersect Present
    OBVIOUS
  <1>3. Places(rreq[r]) = Len(rreq[r].ids)
    BY <1>1 DEF Places
  <1>4. Answered(r, answer, 1, After(r, Places(rreq[r])))
    BY <1>2, <1>3 DEF Fetch
  <1>5. answer \in SUBSET Keys
    BY <1>2 DEF Present
  <1>6. AskedAt(rreq[r], at[r] + 1) = {rreq[r].ids[at[r] + 1]}
    BY <1>1 DEF AskedAt
  <1>7. QED
    BY <1>1, <1>2, <1>4, <1>5, <1>6, AnswerInPlace

\* Every step keeps what the readers have right.
LEMMA ReadsStep ==
    ASSUME Shape, Shape', ReadsInv, [ReadsNext]_rvars
    PROVE  ReadsInv'
  <1>1. TypeOK /\ TypeOK'
    BY DEF Shape
  <1>2. ASSUME NEW c \in Clients, Write(c) PROVE ReadsInv'
    <2>1. RoundTrip(c) /\ Reorder(Writes(c))
      BY <1>2 DEF Write
    <2>2. PICK W : W = Writes(c)
      OBVIOUS
    <2>3. \A x, y \in W : x = y
      BY <2>2 DEF Writes
    <2>4. Present' \ W \subseteq Present
      BY <1>1, <2>1, <2>2, WritesWrite
    <2>5. QED
      BY <1>1, <2>1, <2>2, <2>3, <2>4, WritersLeaveReads
  <1>3. ASSUME NoWrite PROVE ReadsInv'
    <2>1. Present' \ {} \subseteq Present
      BY <1>1, <1>3, OthersAddNone
    <2>2. Reorder({}) /\ \A x, y \in {} : x = y
      BY <1>3 DEF NoWrite
    <2>3. QED
      BY <1>1, <2>1, <2>2, WritersLeaveReads
  <1>4. ASSUME NEW r \in Readers, Read(r) PROVE ReadsInv'
    BY <1>1, <1>4, PageInv, QueryInv, FetchInv DEF Read
  <1>5. ASSUME NEW r \in Readers, LoseRead(r) PROVE ReadsInv'
    <2>1. Returns(r, "err") /\ rpc[r] # "idle"
      BY <1>5 DEF LoseRead, Finished
    <2>2. QED
      BY <2>1, ErrorReads
  <1>6. ASSUME NEW r \in Readers, NEW q \in ReadRequests, ReadBegin(r, q) PROVE ReadsInv'
    BY <1>6, ReadBeginInv
  <1>7. ASSUME UNCHANGED rvars PROVE ReadsInv'
    <2>1. /\ Tracked' = Tracked /\ Present' = Present /\ order' = order /\ rpc' = rpc
          /\ rreq' = rreq /\ at' = at /\ answers' = answers /\ reads' = reads /\ kept' = kept
          /\ quiet' = quiet /\ UNCHANGED <<vars, order>>
      BY <1>7 DEF rvars, readers, vars, Tracked, Present
    <2>2. ReadsTypeOK' /\ (rreq \in [Readers -> ReadRequests \union {NoRequest}])'
      BY <1>1, <2>1 DEF ReadsInv, ReadsTypeOK
    <2>3. ASSUME NEW s \in Readers PROVE ReadOf(s)'
      <3>1. ReadOf(s)
        BY DEF ReadsInv
      <3>2. QED
        BY <2>1, <3>1, OtherReaders
    <2>4. QED
      BY <2>2, <2>3 DEF ReadsInv
  <1>8. QED
    BY <1>2, <1>3, <1>4, <1>5, <1>6, <1>7 DEF ReadsNext

\* The readers' invariant holds: of any readers, beside any writers.
THEOREM ReadsInvariant == ReadsSpec => []ReadsInv
  <1>1. ReadsSpec => []Shape
    BY ReadersOnlyRead, ShapeInvariant, PTL
  <1>2. ReadsInit /\ Shape => ReadsInv
    BY ReadsInitInv DEF Shape
  <1>3. ReadsInv /\ Shape /\ Shape' /\ [ReadsNext]_rvars => ReadsInv'
    BY ReadsStep
  <1>4. QED
    BY <1>1, <1>2, <1>3, PTL DEF ReadsSpec

\* Readers and their replies have their types: a page is of documents under the index's
\* prefix, the replies are in an order.
THEOREM ReadsTypeCorrect == ReadsSpec => []ReadsTypeOK
  <1>1. ReadsInv => ReadsTypeOK
    BY DEF ReadsInv
  <1>2. QED
    BY <1>1, ReadsInvariant, PTL

\* Paginate, run beside writers that only add documents, visits every document that was there
\* when it began, unless its filter lost a "*", and without a distance to sort by none twice
\* (index.go, Paginate).
THEOREM PagesVisitAll == ReadsSpec => []PaginateVisitsAll
  <1>1. ASSUME ReadsInv PROVE PaginateVisitsAll
    <2> SUFFICES ASSUME NEW r \in Readers, rpc[r] = "ok", rreq[r].op = "paginate", quiet[r],
                        ~IsKNN(rreq[r].query)
                 PROVE  /\ ~rreq[r].query.filter.narrowed =>
                             kept[r] \intersect Asked(rreq[r].query)
                                 \subseteq UNION ToSet(answers[r])
                        /\ rreq[r].query.nearest = "" =>
                             \A i, j \in DOMAIN answers[r] :
                                 i # j => answers[r][i] \intersect answers[r][j] = {}
      BY DEF PaginateVisitsAll
    <2>1. PagesSoFar(r)
      BY <1>1 DEF ReadsInv, ReadOf
    <2>2. ~rreq[r].query.filter.narrowed =>
             \A k \in kept[r] \intersect Asked(rreq[r].query) : k \in Returned(r)
      <3>1. IsQuery(rreq[r].query) /\ kept[r] \subseteq Keys
        BY <1>1, ReadRequestFields DEF ReadsInv, ReadsTypeOK, Present
      <3>2. PICK q : q = rreq[r].query
        OBVIOUS
      <3>3. ~q.filter.narrowed => Sought(q) = Asked(q) \intersect Keys
        BY <3>1, <3>2, FoundIsAsked DEF Sought
      <3>4. QED
        BY <2>1, <3>1, <3>2, <3>3 DEF PagesSoFar
    <2>3. \A k \in Returned(r) : k \in UNION ToSet(answers[r])
      BY DEF Returned, ToSet
    <2>4. rreq[r].query.nearest = "" => Disjoint(r)
      BY <2>1 DEF PagesSoFar
    <2>5. QED
      BY <2>2, <2>3, <2>4 DEF Disjoint
  <1>2. QED
    BY <1>1, ReadsInvariant, PTL

\* BatchSearch and FetchMany answer each query or id at its place, with what it is meant for
\* and nothing else (batch.go, "in query order"; index.go, "matches the input order").
THEOREM AnswersStayInOrder == ReadsSpec => []AnswersAreInOrder
  <1>1. ASSUME ReadsInv PROVE AnswersAreInOrder
    <2> SUFFICES ASSUME NEW r \in Readers, rpc[r] = "ok", rreq[r].op \in {"search", "fetch"}
                 PROVE  /\ Len(answers[r]) = Places(rreq[r])
                        /\ \A i \in 1..Places(rreq[r]) : RightAt(r, i)
      BY DEF AnswersAreInOrder, Places, RightAt, AskedAt, LacksAt
    <2>1. PlacesSoFar(r)
      BY <1>1 DEF ReadsInv, ReadOf
    <2>2. QED
      BY <2>1 DEF PlacesSoFar
  <1>2. QED
    BY <1>1, ReadsInvariant, PTL
=============================================================================
