------------------------ MODULE SemanticCache_proofs ------------------------
(***************************************************************************)
(* Theorems about SemanticCache for any callers, prompts and tenants, any     *)
(* similarity of prompts, any thresholds, TTLs and number of results.         *)
(***************************************************************************)
EXTENDS SemanticCache, FiniteSetTheorems, TLAPS

USE DEF own, history

\* Which calls can be at which command.
CallAt(c) ==
    /\ pc[c] = "embed" => req[c].op \in {"store", "check"}
    /\ pc[c] = "hset" => req[c].op \in {"store", "update"}
    /\ pc[c] = "expire" => req[c].op \in {"store", "update", "expire"}
    /\ pc[c] \in {"search", "refresh"} => req[c].op = "check"
    /\ pc[c] \in {"exists", "overwrite", "create"} => req[c].op = "new" /\ ~Refused(req[c])
    /\ pc[c] = "list" => req[c].op = "clear"
    /\ pc[c] = "del" => req[c].op \in {"drop", "clear"}

Shape ==
    /\ TypeOK
    /\ hits \in [Callers -> SUBSET Hit] /\ DOMAIN req = Callers
    /\ \A c \in Callers : CallAt(c)

\* A hash that a search can find was given its vector.  One that no Update gave to another
\* tenant, and whose id is of one prompt and filter, has the tenant of that filter, if any,
\* and an answer of it, whoever updated it.
HashIsOfKey ==
    \A k \in Keys :
        /\ store[k].vector # Nobody => k \in stored
        /\ k \notin moved /\ ~Shared(k) =>
              \A p \in Prompts, t \in Filters : EntryId(p, t) = k =>
                  store[k].tenant \in {t, Nobody} /\ store[k].answer \in {t, Nobody}

IInv == Shape /\ HashIsOfKey /\ TenantIsolation /\ NothingRemovedIsServed /\ EntriesExpire

-----------------------------------------------------------------------------

\* What requests are made of: the key of an entry is one, and TTLs and thresholds are numbers.
LEMMA RequestFacts ==
    ASSUME NEW r \in Requests
    PROVE  /\ r.op \in DOMAIN FirstOf /\ First(r) \in {"err", "expire", FirstOf[r.op]}
           /\ First(r) = "expire" => r.op \in {"update", "expire"}
           /\ Refused(r) => First(r) = "err"
           /\ r.op \in {"store", "update", "expire", "drop"} =>
                 /\ r.prompt \in Prompts /\ r.tenant \in Filters
                 /\ Key(r.prompt, r.tenant) \in Keys
           /\ r.op = "update" => r.like \in Prompts /\ r.to \in Tenants
           /\ r.op \in {"store", "expire", "set_ttl", "new"} => r.ttl \in Nat
           /\ r.op = "new" => r.threshold \in Int
           /\ r.op = "set_threshold" /\ ~Refused(r) => r.threshold \in 0..MaxThreshold
  <1>1. r \in Request
    BY SemanticCacheAssumption
  <1>2. r.op \in DOMAIN FirstOf
    BY <1>1 DEF Request, FirstOf
  <1>3. First(r) \in {"err", "expire", FirstOf[r.op]} /\ (Refused(r) => First(r) = "err")
    BY DEF First
  <1>4. First(r) = "expire" => r.op \in {"update", "expire"}
    BY <1>1, <1>2 DEF First, FirstOf
  <1>5. /\ r.op \in {"store", "update", "expire", "drop"} => r.prompt \in Prompts /\ r.tenant \in Filters
        /\ r.op = "update" => r.like \in Prompts /\ r.to \in Tenants
    BY <1>1 DEF Request
  <1>6. /\ r.op \in {"store", "expire", "set_ttl", "new"} => r.ttl \in Nat
        /\ r.op = "new" => r.threshold \in Int
        /\ r.op = "set_threshold" /\ ~Refused(r) => r.threshold \in 0..MaxThreshold
    BY <1>1 DEF Request, Refused
  <1>7. QED
    BY <1>2, <1>3, <1>4, <1>5, <1>6 DEF Key, Keys

\* The key of a call that is at a command is one of the keys.
LEMMA OwnKey ==
    ASSUME Shape, NEW c \in Callers, pc[c] \in {"hset", "expire"} \/ (pc[c] = "del" /\ req[c].op = "drop")
    PROVE  /\ req[c] \in Requests /\ Own(c) \in Keys
           /\ req[c].prompt \in Prompts /\ req[c].tenant \in Filters
           /\ Own(c) = EntryId(req[c].prompt, req[c].tenant)
           /\ req[c].op = "update" => req[c].like \in Prompts /\ req[c].to \in Tenants
           /\ pc[c] \in {"hset", "expire"} => TTLOf(c) \in Nat
           /\ req[c].op = "store" => req[c].ttl \in Nat
  BY RequestFacts DEF Shape, TypeOK, CallAt, Own, TTLOf, Key

\* A key is there if it is not absent.
LEMMA PresentKey == ASSUME Shape, NEW k \in Keys PROVE Present(k) <=> store[k] # Absent
  <1>1. store[k] \in Hash \/ store[k] = Absent
    BY DEF Shape, TypeOK
  <1>2. Absent.there = FALSE /\ \A h \in Hash : h.there = TRUE
    BY DEF Absent, Hash
  <1>3. QED
    BY <1>1, <1>2 DEF Present

\* The keys are finitely many, so that answers can be counted.
LEMMA FiniteKeys == ASSUME NEW S, S \subseteq Keys
                    PROVE  IsFiniteSet(S) /\ Cardinality(S) \in Nat
  <1> DEFINE f == [x \in Prompts \X Filters |-> EntryId(x[1], x[2])]
  <1>1. IsFiniteSet(Filters)
    BY FS_AddElement, SemanticCacheAssumption DEF Filters
  <1>2. IsFiniteSet(Prompts \X Filters)
    BY <1>1, FS_Product, SemanticCacheAssumption
  <1>3. f \in Surjection(Prompts \X Filters, Keys)
    <2>1. f \in [Prompts \X Filters -> Keys]
      BY DEF Keys
    <2>2. ASSUME NEW k \in Keys PROVE \E x \in Prompts \X Filters : f[x] = k
      <3>1. PICK p \in Prompts, t \in Filters : k = EntryId(p, t)
        BY DEF Keys
      <3>2. <<p, t>> \in Prompts \X Filters /\ f[<<p, t>>] = k
        BY <3>1
      <3>3. QED
        BY <3>2
    <2> HIDE DEF f
    <2>3. QED
      BY <2>1, <2>2 DEF Surjection
  <1> HIDE DEF f
  <1>4. IsFiniteSet(Keys)
    BY <1>2, <1>3, FS_Surjection
  <1>5. QED
    BY <1>4, FS_Subset, FS_CardinalityType

\* The invariant holds of an empty cache.
LEMMA InitIInv == Init => IInv
  <1> SUFFICES ASSUME Init PROVE IInv
    OBVIOUS
  <1> USE SemanticCacheAssumption DEF Init
  <1>1. \A k \in Keys : store[k] = Absent
    OBVIOUS
  <1>3. Cardinality({}) <= NumResults
    BY FS_EmptySet
  <1>4. TypeOK
    BY <1>3 DEF TypeOK, Labels
  <1>5. Shape
    BY <1>4 DEF Shape, CallAt
  <1>6. HashIsOfKey /\ TenantIsolation /\ NothingRemovedIsServed /\ EntriesExpire
    BY <1>1 DEF HashIsOfKey, Absent, TenantIsolation, NothingRemovedIsServed, EntriesExpire, Present
  <1>7. QED
    BY <1>5, <1>6 DEF IInv

-----------------------------------------------------------------------------
(* The shape.                                                               *)

\* A step that keeps the types, of a call that moves within its operation.
LEMMA CallsMove ==
    ASSUME Shape, TypeOK', hits' \in [Callers -> SUBSET Hit], UNCHANGED req,
           NEW c \in Callers, CallAt(c)', \A d \in Callers \ {c} : pc'[d] = pc[d]
    PROVE  Shape'
  BY DEF Shape, CallAt

\* A call begins at the first step of its operation.
LEMMA BeginShape ==
    ASSUME Shape, NEW c \in Callers, NEW r \in Requests, Begin(c, r)
    PROVE  Shape'
  <1>1. /\ pc' = [pc EXCEPT ![c] = First(r)] /\ req' = [req EXCEPT ![c] = r]
        /\ hits' = [hits EXCEPT ![c] = {}] /\ calls' = calls + 1
        /\ UNCHANGED <<index, store, life, pending, stored, moved, immortal, promise, faults>>
    BY DEF Begin, Goto, history
  <1>2. First(r) \in Labels
    BY RequestFacts DEF FirstOf, Labels
  <1>9. ttl' \in [Callers -> Nat] /\ threshold' \in [Callers -> 0..MaxThreshold]
    BY RequestFacts DEF Begin, Shape, TypeOK
  <1>3. Cardinality({}) <= NumResults
    BY FS_EmptySet, SemanticCacheAssumption
  <1>4. /\ hits' \in [Callers -> SUBSET Hit] /\ DOMAIN req' = Callers
        /\ \A d \in Callers : /\ hits'[d] = IF d = c THEN {} ELSE hits[d]
                              /\ req'[d] = IF d = c THEN r ELSE req[d]
                              /\ pc'[d] = IF d = c THEN First(r) ELSE pc[d]
    BY <1>1 DEF Shape, TypeOK
  <1>5. TypeOK'
    BY <1>1, <1>2, <1>3, <1>4, <1>9 DEF Shape, TypeOK
  <1>6. CallAt(c)'
    BY <1>4, RequestFacts DEF CallAt, FirstOf
  <1>7. \A d \in Callers \ {c} : CallAt(d)'
    BY <1>4 DEF CallAt, Shape
  <1>8. QED
    BY <1>4, <1>5, <1>6, <1>7 DEF Shape

\* The embedding succeeds or fails, and nothing else changes.
LEMMA EmbedShape == ASSUME Shape, NEW c \in Callers, Embed(c) PROVE Shape'
  <1>1. TypeOK' /\ \A d \in Callers \ {c} : pc'[d] = pc[d]
    BY DEF Embed, Goto, Shape, TypeOK, Labels
  <1>2. CallAt(c)'
    BY DEF Embed, Goto, Shape, TypeOK, CallAt
  <1>3. QED
    BY <1>1, <1>2, CallsMove DEF Embed, Shape

\* HSET of Store and Update.
LEMMA HSetShape == ASSUME Shape, NEW c \in Callers, HSet(c) PROVE Shape'
  <1> DEFINE k == Own(c)
  <1>1. /\ k \in Keys /\ pc[c] = "hset"
        /\ req[c].prompt \in Prompts /\ req[c].tenant \in Filters
        /\ req[c].op = "update" => req[c].like \in Prompts /\ req[c].to \in Tenants
    BY OwnKey DEF HSet
  <1>2. Written(c) \in Hash
    <2>1. store[k] \in Hash \/ store[k] = Absent
      BY <1>1 DEF Shape, TypeOK
    <2>2. /\ store[k].tenant \in Tenants \union {Nobody}
          /\ store[k].answer \in Filters \union {Nobody}
          /\ store[k].vector \in Prompts \union {Nobody}
      <3>1. Absent.tenant = Nobody /\ Absent.answer = Nobody /\ Absent.vector = Nobody
        BY DEF Absent
      <3>2. CASE store[k] \in Hash
        BY <3>2 DEF Hash
      <3>3. CASE store[k] = Absent
        BY <3>1, <3>3
      <3>4. QED
        BY <2>1, <3>2, <3>3
    <2>3. Tenant(c) \in Tenants \union {Nobody}
      BY <1>1, <2>2 DEF Tenant, Gives, Filters
    <2>4. Answer(c) \in Filters \union {Nobody}
      BY <1>1, <2>2 DEF Answer
    <2>5. Vector(c) \in Prompts \union {Nobody}
      BY <1>1, <2>2 DEF Vector, Gives
    <2>6. QED
      BY <2>3, <2>4, <2>5 DEF Written, Hash
  <1>3. /\ store' = [store EXCEPT ![k] = Written(c)] \/ store' = store
        /\ stored' \subseteq stored \union {k} /\ moved' \subseteq moved \union {k}
        /\ promise' = [promise EXCEPT ![k] = 0] \/ promise' = promise
        /\ immortal' \subseteq immortal \union {k}
        /\ \E l \in {"expire", "ok", "err"} : pc' = [pc EXCEPT ![c] = l]
        /\ faults' \in Nat
        /\ UNCHANGED <<index, life, own, req, pending, hits, calls>>
    <2>1. faults \in Nat
      BY DEF Shape, TypeOK
    <2>4. stored' \subseteq stored \union {k} /\ moved' \subseteq moved \union {k}
      BY DEF HSet
    <2>5. \E l \in {"expire", "ok", "err"} : pc' = [pc EXCEPT ![c] = l]
      BY DEF HSet, Goto, Lose
    <2>6. faults' \in Nat
      BY <2>1 DEF HSet, Goto, Lose
    <2>7. store' = [store EXCEPT ![k] = Written(c)] \/ store' = store
      BY DEF HSet
    <2>8. promise' = [promise EXCEPT ![k] = 0] \/ promise' = promise
      BY DEF HSet
    <2>9. immortal' \subseteq immortal \union {k}
      BY DEF HSet, NotDue
    <2>10. QED
      BY <2>4, <2>5, <2>6, <2>7, <2>8, <2>9 DEF HSet
  <1>4. Written(c) # Absent
    BY DEF Written, Absent
  <1> HIDE DEF k
  <1>5. TypeOK'
    BY <1>1, <1>2, <1>3, <1>4 DEF Shape, TypeOK, Labels
  <1>6. CallAt(c)' /\ \A d \in Callers \ {c} : pc'[d] = pc[d]
    BY <1>1, <1>3 DEF Shape, TypeOK, CallAt
  <1>7. QED
    BY <1>3, <1>5, <1>6, CallsMove DEF Shape

\* EXPIRE of Store, Update and Expire, which may get lost.
LEMMA ExpireShape == ASSUME Shape, NEW c \in Callers, Expire(c) PROVE Shape'
  <1> DEFINE k == Own(c)
  <1>1. /\ k \in Keys /\ pc[c] = "expire" /\ TTLOf(c) \in Nat
        /\ (req[c].op = "store" => req[c].ttl \in Nat)
    BY OwnKey DEF Expire
  <1>2. UNCHANGED <<index, store, own, req, pending, hits, calls, stored, moved>>
    BY DEF Expire
  <1>3. life' = life \/ life' = [life EXCEPT ![k] = IF Present(k) THEN TTLOf(c) ELSE @]
    BY DEF Expire, Renew
  <1>4. immortal' \subseteq immortal \union {k}
    BY DEF Expire, Renew
  <1>5. promise' = promise \/ \E n \in Nat : promise' = [promise EXCEPT ![k] = n]
    BY <1>1 DEF Expire
  <1>6. \E l \in {"ok", "err"} : pc' = [pc EXCEPT ![c] = l]
    BY DEF Expire, Goto, Lose
  <1>7. faults' \in Nat
    BY DEF Expire, Goto, Lose, Shape, TypeOK
  <1> HIDE DEF k
  <1>8. TypeOK'
    <2>1. /\ life' \in [Keys -> Nat]
          /\ \A j \in Keys : store'[j] = Absent => life'[j] = 0
      BY <1>1, <1>2, <1>3, PresentKey DEF Shape, TypeOK
    <2>2. promise' \in [Keys -> Nat]
      BY <1>1, <1>5 DEF Shape, TypeOK
    <2>3. pc' \in [Callers -> Labels] /\ immortal' \subseteq Keys
      BY <1>1, <1>4, <1>6 DEF Shape, TypeOK, Labels
    <2>4. \A d \in Callers : pc'[d] # "idle" => req'[d] \in Requests
      BY <1>1, <1>2, <1>6 DEF Shape, TypeOK
    <2>5. QED
      BY <1>2, <1>7, <2>1, <2>2, <2>3, <2>4 DEF Shape, TypeOK
  <1>9. CallAt(c)' /\ \A d \in Callers \ {c} : pc'[d] = pc[d]
    BY <1>1, <1>6 DEF Shape, TypeOK, CallAt
  <1>10. QED
    BY <1>2, <1>8, <1>9, CallsMove DEF Shape

\* FT.SEARCH of Check, whose hits are bounded by what it asked for.
LEMMA SearchShape == ASSUME Shape, NEW c \in Callers, Search(c) PROVE Shape'
  <1>1. /\ pc[c] = "search" /\ req[c].op = "check" /\ req[c] \in Requests
        /\ UNCHANGED <<index, store, life, own, req, calls, stored, moved, immortal, promise>>
    BY DEF Search, Shape, TypeOK, CallAt
  <1>2. CASE (Goto(c, "err") \/ Lose(c, "err")) /\ UNCHANGED <<hits, pending>>
    <2>1. TypeOK' /\ CallAt(c)' /\ \A d \in Callers \ {c} : pc'[d] = pc[d]
      BY <1>1, <1>2 DEF Goto, Lose, Shape, TypeOK, Labels, CallAt
    <2>2. QED
      BY <1>1, <1>2, <2>1, CallsMove DEF Shape
  <1>3. ASSUME NEW S \in Best(Matching(c)),
               hits' = [hits EXCEPT ![c] = {HitAt(k) : k \in S}],
               pending' = [pending EXCEPT ![c] = IF ttl[c] > 0 THEN S ELSE {}],
               Goto(c, IF ttl[c] > 0 /\ S # {} THEN "refresh" ELSE "ok")
        PROVE  Shape'
    <2> DEFINE f == [k \in S |-> HitAt(k)]
               H == {HitAt(k) : k \in S}
    <2>1. S \subseteq Keys /\ S \subseteq Matching(c)
      BY DEF Best, Matching
    <2>2. Cardinality(S) <= NumResults
      BY SemanticCacheAssumption DEF Best
    <2>3. \A k \in S : store[k] \in Hash
      <3>1. \A k \in S : k \in Keys /\ store[k].vector # Nobody
        BY <2>1 DEF Matching
      <3>2. QED
        BY <3>1 DEF Shape, TypeOK, Absent
    <2>4. H \subseteq Hit
      <3>1. ASSUME NEW k \in S PROVE HitAt(k) \in Hit
        <4>1. k \in Keys /\ store[k] \in Hash
          BY <2>1, <2>3
        <4>2. (k \in stored) \in BOOLEAN /\ (k \in moved) \in BOOLEAN
          OBVIOUS
        <4>3. QED
          BY <4>1, <4>2, Zenon DEF Hit, HitAt
      <3> HIDE DEF f
      <3>2. QED
        BY <3>1
    <2>5. Cardinality(H) <= NumResults
      <3>1. f \in Surjection(S, H)
        BY DEF Surjection
      <3>2. IsFiniteSet(S) /\ Cardinality(S) \in Nat
        BY <2>1, FiniteKeys
      <3>3. IsFiniteSet(H) /\ Cardinality(H) <= Cardinality(S)
        BY <3>1, <3>2, FS_Surjection
      <3>4. Cardinality(H) \in Nat
        BY <3>3, FS_CardinalityType
      <3>5. QED
        BY <2>2, <3>2, <3>3, <3>4, SemanticCacheAssumption
    <2> HIDE DEF f, H
    <2>6. hits' = [hits EXCEPT ![c] = H]
      BY <1>3 DEF H
    <2>7. hits' \in [Callers -> SUBSET Hit] /\ \A d \in Callers : Cardinality(hits'[d]) <= NumResults
      BY <2>4, <2>5, <2>6 DEF Shape, TypeOK
    <2>8. \E l \in {"refresh", "ok"} : pc' = [pc EXCEPT ![c] = l]
      BY <1>3 DEF Goto
    <2>9. pending' \in [Callers -> SUBSET Keys]
      BY <1>3, <2>1 DEF Shape, TypeOK
    <2>10. TypeOK' /\ CallAt(c)' /\ \A d \in Callers \ {c} : pc'[d] = pc[d]
      BY <1>1, <1>3, <2>7, <2>8, <2>9 DEF Goto, Shape, TypeOK, Labels, CallAt
    <2>11. QED
      BY <1>1, <2>7, <2>10, CallsMove
  <1>4. QED
    BY <1>2, <1>3 DEF Search

\* EXPIRE of the hits of a Check.
LEMMA RefreshShape == ASSUME Shape, NEW c \in Callers, Refresh(c) PROVE Shape'
  <1>1. PICK k \in pending[c] :
          LET then == IF pending[c] = {k} THEN "ok" ELSE "refresh"
          IN  /\ pending' = [pending EXCEPT ![c] = @ \ {k}]
              /\ \/ Renew(k, ttl[c]) /\ (Goto(c, then) \/ Lose(c, then))
                 \/ Lose(c, then) /\ UNCHANGED <<life, immortal>>
    BY DEF Refresh
  <1>2. /\ k \in Keys /\ pc[c] = "refresh" /\ ttl[c] \in Nat
        /\ UNCHANGED <<index, store, own, req, hits, calls, stored, moved, promise>>
    BY DEF Refresh, Shape, TypeOK
  <1>3. /\ life' = life \/ life' = [life EXCEPT ![k] = IF Present(k) THEN ttl[c] ELSE @]
        /\ immortal' \subseteq immortal
        /\ \E l \in {"refresh", "ok"} : pc' = [pc EXCEPT ![c] = l]
        /\ faults' \in Nat
    <2>1. faults \in Nat
      BY DEF Shape, TypeOK
    <2>2. QED
      BY <1>1, <2>1 DEF Renew, Goto, Lose
  <1>4. /\ life' \in [Keys -> Nat]
        /\ \A j \in Keys : store'[j] = Absent => life'[j] = 0
    BY <1>2, <1>3, PresentKey DEF Shape, TypeOK
  <1>5. pending' \in [Callers -> SUBSET Keys]
    BY <1>1 DEF Shape, TypeOK
  <1>6. TypeOK' /\ CallAt(c)' /\ \A d \in Callers \ {c} : pc'[d] = pc[d]
    <2>1. PICK l \in {"refresh", "ok"} : pc' = [pc EXCEPT ![c] = l]
      BY <1>3
    <2>2. l \in Labels /\ pc \in [Callers -> Labels]
      BY DEF Labels, Shape, TypeOK
    <2>3. /\ pc' \in [Callers -> Labels] /\ pc'[c] = l
          /\ \A d \in Callers \ {c} : pc'[d] = pc[d]
      BY <2>1, <2>2
    <2>4. immortal' \subseteq Keys
      BY <1>3 DEF Shape, TypeOK
    <2>5. \A d \in Callers : pc'[d] # "idle" => req'[d] \in Requests
      BY <1>2, <2>3 DEF Shape, TypeOK
    <2>6. TypeOK'
      BY <1>2, <1>3, <1>4, <1>5, <2>3, <2>4, <2>5 DEF Shape, TypeOK
    <2>7. CallAt(c)'
      BY <1>2, <2>3 DEF Shape, CallAt
    <2>8. QED
      BY <2>3, <2>6, <2>7
  <1>7. QED
    BY <1>2, <1>6, CallsMove DEF Shape

\* FT.SEARCH of Clear, which finds the keys it deletes next.
LEMMA ListShape == ASSUME Shape, NEW c \in Callers, List(c) PROVE Shape'
  <1>1. pending' \in [Callers -> SUBSET Keys]
    BY DEF List, Shape, TypeOK
  <1>2. TypeOK' /\ CallAt(c)' /\ \A d \in Callers \ {c} : pc'[d] = pc[d]
    BY <1>1 DEF List, Goto, Lose, Shape, TypeOK, Labels, CallAt
  <1>3. QED
    BY <1>2, CallsMove DEF List, Shape

\* Keys are removed from Redis with what the model remembers of them.
LEMMA RemoveTypes ==
    ASSUME Shape, NEW S, Remove(S)
    PROVE  /\ store' \in [Keys -> Hash \union {Absent}] /\ life' \in [Keys -> Nat]
           /\ \A k \in Keys : store'[k] = Absent => life'[k] = 0
           /\ stored' \subseteq Keys /\ moved' \subseteq Keys /\ immortal' \subseteq Keys
  <1>3. stored' \subseteq Keys /\ moved' \subseteq Keys /\ immortal' \subseteq Keys
    BY DEF Remove, Shape, TypeOK
  <1>4. store' \in [Keys -> Hash \union {Absent}]
    BY DEF Remove, Shape, TypeOK
  <1>5. QED
    BY <1>3, <1>4 DEF Remove, Shape, TypeOK

\* DEL of Drop and Clear.
LEMMA DeleteShape == ASSUME Shape, NEW c \in Callers, Delete(c) PROVE Shape'
  <1>1. /\ pending' = [pending EXCEPT ![c] = {}] /\ UNCHANGED <<index, own, req, hits, calls>>
        /\ \E l \in {"ok", "err"} : pc' = [pc EXCEPT ![c] = l]
        /\ faults' \in Nat
    BY DEF Delete, Goto, Lose, Shape, TypeOK
  <1>2. /\ store' \in [Keys -> Hash \union {Absent}] /\ life' \in [Keys -> Nat]
        /\ \A k \in Keys : store'[k] = Absent => life'[k] = 0
        /\ stored' \subseteq Keys /\ moved' \subseteq Keys /\ immortal' \subseteq Keys
        /\ promise' \in [Keys -> Nat]
    <2>1. CASE UNCHANGED <<store, life, stored, moved, immortal, promise>>
      BY <2>1 DEF Shape, TypeOK
    <2>2. ASSUME NEW S, Remove(S), promise' = [k \in Keys |-> IF k \in S THEN 0 ELSE promise[k]]
          PROVE  promise' \in [Keys -> Nat]
      BY <2>2 DEF Shape, TypeOK
    <2>3. QED
      BY <2>1, <2>2, RemoveTypes DEF Delete
  <1>3. TypeOK' /\ CallAt(c)' /\ \A d \in Callers \ {c} : pc'[d] = pc[d]
    BY <1>1, <1>2 DEF Delete, Shape, TypeOK, Labels, CallAt
  <1>4. QED
    BY <1>1, <1>3, CallsMove DEF Shape

\* A unit of time passes and entries expire.
LEMMA TickShape == ASSUME Shape, Tick PROVE Shape'
  <1> DEFINE gone == {k \in Keys : life[k] = 1}
  <1>1. /\ store' = [k \in Keys |-> IF k \in gone THEN Absent ELSE store[k]]
        /\ stored' = stored \ gone /\ moved' = moved \ gone /\ immortal' = immortal \ gone
        /\ life' = [k \in Keys |-> IF life[k] > 0 THEN life[k] - 1 ELSE 0]
        /\ promise' = [k \in Keys |-> IF promise[k] > 0 THEN promise[k] - 1 ELSE 0]
        /\ UNCHANGED <<index, own, pc, req, pending, hits, calls, faults>>
    BY DEF Tick
  <1>2. \A k \in Keys : life[k] \in Nat /\ promise[k] \in Nat
    BY DEF Shape, TypeOK
  <1>4. life' \in [Keys -> Nat] /\ promise' \in [Keys -> Nat]
    BY <1>1, <1>2
  <1>6. stored' \subseteq Keys /\ moved' \subseteq Keys /\ immortal' \subseteq Keys
    BY <1>1 DEF Shape, TypeOK
  <1>7. store' \in [Keys -> Hash \union {Absent}]
    BY <1>1 DEF Shape, TypeOK
  <1>8. \A k \in Keys : store'[k] = Absent => life'[k] = 0
    BY <1>1, <1>2 DEF Shape, TypeOK
  <1>9. TypeOK'
    BY <1>1, <1>4, <1>6, <1>7, <1>8 DEF Shape, TypeOK
  <1>10. QED
    BY <1>1, <1>9 DEF Shape, CallAt

\* c is in a New that was not refused.
AtNew(c) == pc[c] \in {"exists", "overwrite", "create"} /\ ~Refused(req[c])

\* A New that is through has the defaults asked for.
LEMMA MadeTypes ==
    ASSUME Shape, NEW c \in Callers, AtNew(c), Made(c)
    PROVE  ttl' \in [Callers -> Nat] /\ threshold' \in [Callers -> 0..MaxThreshold]
  <1>1. req[c].op = "new" /\ req[c] \in Requests
    BY DEF AtNew, Shape, TypeOK, CallAt
  <1>2. req[c].ttl \in Nat /\ req[c].threshold \in 0..MaxThreshold
    BY <1>1, RequestFacts DEF AtNew, Refused
  <1>3. (IF req[c].threshold = 0 THEN DefaultThreshold ELSE req[c].threshold) \in 0..MaxThreshold
    BY <1>2, SemanticCacheAssumption
  <1>4. QED
    BY <1>2, <1>3 DEF Made, Shape, TypeOK

\* The commands of New.
LEMMA NewShape ==
    ASSUME Shape, NEW c \in Callers, Exists(c) \/ Overwrite(c) \/ CreateIndex(c)
    PROVE  Shape'
  <1>1. /\ AtNew(c)
        /\ UNCHANGED <<store, life, req, pending, hits, calls, history>>
        /\ \E l \in {"overwrite", "create", "ok", "err"} : pc' = [pc EXCEPT ![c] = l]
    BY DEF Exists, Overwrite, CreateIndex, Goto, Lose, Shape, CallAt, AtNew
  <1>2. index' \in BOOLEAN /\ faults' \in Nat
    <2>1. index \in BOOLEAN /\ faults \in Nat
      BY DEF Shape, TypeOK
    <2>2. index' \in BOOLEAN
      BY <2>1 DEF Exists, Overwrite, CreateIndex
    <2>3. faults' \in Nat
      BY <2>1 DEF Exists, Overwrite, CreateIndex, Goto, Lose
    <2>4. QED
      BY <2>2, <2>3
  <1>3. Made(c) \/ UNCHANGED own
    BY DEF Exists, Overwrite, CreateIndex
  <1>4. ttl' \in [Callers -> Nat] /\ threshold' \in [Callers -> 0..MaxThreshold]
    BY <1>1, <1>3, MadeTypes DEF Shape, TypeOK
  <1>5. TypeOK' /\ CallAt(c)' /\ \A d \in Callers \ {c} : pc'[d] = pc[d]
    <2>1. PICK l \in {"overwrite", "create", "ok", "err"} : pc' = [pc EXCEPT ![c] = l]
      BY <1>1
    <2>2. l \in Labels /\ pc \in [Callers -> Labels]
      BY DEF Labels, Shape, TypeOK
    <2>3. /\ pc' \in [Callers -> Labels] /\ pc'[c] = l
          /\ \A d \in Callers \ {c} : pc'[d] = pc[d]
      BY <2>1, <2>2
    <2>4. UNCHANGED <<store, life, req, pending, hits, calls, stored, moved, immortal, promise>>
      BY <1>1 DEF history
    <2>5. \A d \in Callers : pc'[d] # "idle" => req'[d] \in Requests
      BY <1>1, <2>3, <2>4 DEF AtNew, Shape, TypeOK
    <2>6. TypeOK'
      BY <1>2, <1>4, <2>3, <2>4, <2>5 DEF Shape, TypeOK
    <2>7. CallAt(c)'
      BY <1>1, <2>3, <2>4 DEF AtNew, Shape, CallAt
    <2>8. QED
      BY <2>3, <2>6, <2>7
  <1>6. QED
    BY <1>1, <1>5, CallsMove DEF Shape

\* FT.DROPINDEX of Delete, with the hashes.
LEMMA DeleteIndexShape == ASSUME Shape, NEW c \in Callers, DeleteIndex(c) PROVE Shape'
  <1>1. /\ UNCHANGED <<own, req, pending, hits, calls>> /\ pc[c] = "delete"
        /\ \E l \in {"ok", "err"} : pc' = [pc EXCEPT ![c] = l]
        /\ index' \in BOOLEAN /\ faults' \in Nat
    <2>1. index \in BOOLEAN /\ faults \in Nat
      BY DEF Shape, TypeOK
    <2>2. index' \in BOOLEAN
      BY <2>1 DEF DeleteIndex
    <2>3. faults' \in Nat
      BY <2>1 DEF DeleteIndex, Goto, Lose
    <2>4. \E l \in {"ok", "err"} : pc' = [pc EXCEPT ![c] = l]
      BY DEF DeleteIndex, Goto, Lose
    <2>5. QED
      BY <2>2, <2>3, <2>4 DEF DeleteIndex
  <1>2. /\ store' \in [Keys -> Hash \union {Absent}] /\ life' \in [Keys -> Nat]
        /\ \A k \in Keys : store'[k] = Absent => life'[k] = 0
        /\ stored' \subseteq Keys /\ moved' \subseteq Keys /\ immortal' \subseteq Keys
        /\ promise' \in [Keys -> Nat]
    <2>1. CASE UNCHANGED <<index, store, life, history>>
      BY <2>1 DEF Shape, TypeOK
    <2>2. QED
      BY <2>1, RemoveTypes DEF DeleteIndex
  <1>3. TypeOK' /\ CallAt(c)' /\ \A d \in Callers \ {c} : pc'[d] = pc[d]
    BY <1>1, <1>2 DEF Shape, TypeOK, Labels, CallAt
  <1>4. QED
    BY <1>1, <1>3, CallsMove DEF Shape

-----------------------------------------------------------------------------
(* What searches find.                                                      *)

\* An expired entry takes its hash with it.
LEMMA TickHashes == ASSUME IInv, Tick PROVE HashIsOfKey'
  <1>1. \A k \in Keys : \/ store'[k] = Absent
                        \/ /\ store'[k] = store[k] /\ (k \in stored => k \in stored')
                           /\ k \in moved => k \in moved'
    BY DEF Tick
  <1>2. Absent.vector = Nobody /\ Absent.tenant = Nobody /\ Absent.answer = Nobody
    BY DEF Absent
  <1>3. QED
    BY <1>1, <1>2 DEF IInv, HashIsOfKey

\* Every HSET writes to a key the fields that key is computed from.
LEMMA StepHashes == ASSUME IInv, NEW c \in Callers, Step(c) PROVE HashIsOfKey'
  <1>1. CASE UNCHANGED <<store, stored, moved>>
    BY <1>1 DEF IInv, HashIsOfKey
  <1>2. CASE HSet(c) /\ store' = [store EXCEPT ![Own(c)] = Written(c)]
                     /\ stored' = (IF req[c].op = "store" \/ Gives(c, "vector")
                                   THEN stored \union {Own(c)} ELSE stored)
                     /\ moved' = (IF Gives(c, "tenant") THEN moved \union {Own(c)}
                                  ELSE IF req[c].op = "store" /\ req[c].tenant # NoFilter
                                  THEN moved \ {Own(c)} ELSE moved)
    <2> DEFINE k == Own(c)
    <2>1. /\ k \in Keys /\ req[c].prompt \in Prompts /\ req[c].tenant \in Filters
          /\ k = EntryId(req[c].prompt, req[c].tenant)
      BY <1>2, OwnKey DEF HSet, IInv
    <2>2. /\ store'[k] = Written(c)
          /\ \A j \in Keys \ {k} : store'[j] = store[j]
          /\ \A j \in Keys \ {k} : (j \in stored <=> j \in stored') /\ (j \in moved <=> j \in moved')
      BY <1>2, <2>1 DEF IInv, Shape, TypeOK
    <2>3. Written(c).vector # Nobody => k \in stored'
      <3>1. CASE req[c].op = "store" \/ Gives(c, "vector")
        BY <1>2, <3>1
      <3>2. CASE ~(req[c].op = "store" \/ Gives(c, "vector"))
        <4>1. Written(c).vector = store[k].vector
          BY <3>2 DEF Written, Vector
        <4>2. QED
          BY <1>2, <2>1, <3>2, <4>1 DEF IInv, HashIsOfKey
      <3>3. QED
        BY <3>1, <3>2
    <2>4. ASSUME k \notin moved', ~Shared(k), NEW p \in Prompts, NEW t \in Filters,
                 EntryId(p, t) = k
          PROVE  Written(c).tenant \in {t, Nobody} /\ Written(c).answer \in {t, Nobody}
      <3>1. t = req[c].tenant
        BY <2>1, <2>4 DEF Shared
      <3>2. ~Gives(c, "tenant")
        BY <1>2, <2>4
      <3>3. k \in moved => req[c].op = "store" /\ req[c].tenant # NoFilter
        BY <1>2, <2>4
      <3>4. k \notin moved => store[k].tenant \in {t, Nobody} /\ store[k].answer \in {t, Nobody}
        BY <2>1, <2>4 DEF IInv, HashIsOfKey
      <3>5. Written(c).tenant = Tenant(c) /\ Written(c).answer = Answer(c)
        BY DEF Written
      <3>6. Tenant(c) \in {t, Nobody}
        BY <3>1, <3>2, <3>3, <3>4 DEF Tenant
      <3>7. Answer(c) \in {t, Nobody}
        BY <3>1, <3>3, <3>4 DEF Answer
      <3>8. QED
        BY <3>5, <3>6, <3>7
    <2> HIDE DEF k
    <2>5. QED
      BY <2>2, <2>3, <2>4 DEF IInv, HashIsOfKey
  <1>3. CASE \E S : Remove(S)
    <2>1. PICK S : Remove(S)
      BY <1>3
    <2>2. Absent.vector = Nobody /\ Absent.tenant = Nobody /\ Absent.answer = Nobody
      BY DEF Absent
    <2>3. \A k \in Keys : store'[k] = Absent \/ (store'[k] = store[k] /\ k \notin S)
      BY <2>1 DEF Remove
    <2>4. \A k \in Keys : k \notin S => (k \in stored <=> k \in stored') /\ (k \in moved <=> k \in moved')
      BY <2>1 DEF Remove
    <2>5. QED
      BY <2>2, <2>3, <2>4 DEF IInv, HashIsOfKey
  <1>4. QED
    BY <1>1, <1>2, <1>3 DEF Step, Exists, Overwrite, CreateIndex, DeleteIndex, Embed, HSet, Expire,
                           Search, Refresh, List, Delete

\* Of one caller's hits.
Isolated(c) ==
    \A h \in hits[c] :
        /\ req[c].op = "check" /\ req[c].tenant # NoFilter =>
              h.hash.answer \in {req[c].tenant, Nobody} \/ h.moved \/ Shared(h.key)
        /\ h.stored

\* What a step adds to the hits of a Check is of its tenant, and stored.
LEMMA HitsIsolated ==
    ASSUME IInv, NEW c \in Callers, Search(c)
    PROVE  \A d \in Callers : Isolated(d)'
  <1>1. \A d \in Callers : Isolated(d)
    BY DEF IInv, Isolated, TenantIsolation, NothingRemovedIsServed
  <1>2. CASE UNCHANGED hits
    BY <1>1, <1>2 DEF Search, Isolated
  <1>3. ASSUME NEW S \in Best(Matching(c)),
               hits' = [hits EXCEPT ![c] = {HitAt(k) : k \in S}]
        PROVE  \A d \in Callers : Isolated(d)'
    <2>1. \A d \in Callers \ {c} : hits'[d] = hits[d]
      BY <1>3 DEF IInv, Shape
    <2>2. hits'[c] = {HitAt(k) : k \in S}
      BY <1>3 DEF IInv, Shape
    <2>3. \A k \in S : /\ k \in Keys /\ store[k].vector # Nobody
                       /\ req[c].tenant \in {NoFilter, store[k].tenant}
      BY DEF Best, Matching
    <2>4. Nobody \notin Tenants /\ Nobody # NoFilter
      BY SemanticCacheAssumption DEF Nobody, NoFilter
    <2>5. req[c].tenant \in Filters
      <3>1. req[c] \in Requests /\ req[c].op = "check"
        BY DEF Search, IInv, Shape, TypeOK, CallAt
      <3>2. QED
        BY <3>1, SemanticCacheAssumption DEF Request
    <2>6. ASSUME NEW h \in hits'[c]
          PROVE  /\ req[c].tenant # NoFilter =>
                       h.hash.answer \in {req[c].tenant, Nobody} \/ h.moved \/ Shared(h.key)
                 /\ h.stored
      <3>1. PICK k \in S : h = HitAt(k)
        BY <2>2, <2>6
      <3>2. /\ h.key = k /\ h.hash = store[k]
            /\ h.stored = (k \in stored) /\ h.moved = (k \in moved)
        BY <3>1 DEF HitAt
      <3>3. k \in stored
        BY <2>3 DEF IInv, HashIsOfKey
      <3>4. PICK p \in Prompts, t \in Filters : k = EntryId(p, t)
        BY <2>3 DEF Keys
      <3>5. k \notin moved /\ ~Shared(k) =>
               store[k].tenant \in {t, Nobody} /\ store[k].answer \in {t, Nobody}
        BY <2>3, <3>4 DEF IInv, HashIsOfKey
      <3>6. req[c].tenant # NoFilter => store[k].tenant = req[c].tenant /\ req[c].tenant # Nobody
        BY <2>3, <2>4, <2>5 DEF Filters
      <3>7. QED
        BY <3>2, <3>3, <3>5, <3>6
    <2>7. UNCHANGED req
      BY DEF Search
    <2>8. QED
      BY <1>1, <2>1, <2>6, <2>7 DEF Isolated
  <1>4. QED
    BY <1>2, <1>3 DEF Search

-----------------------------------------------------------------------------
(* What expires.                                                            *)

Accounted(k) ==
    k \in immortal \/ \E c \in Callers : pc[c] = "expire" /\ Own(c) = k /\ TTLOf(c) > 0

\* A caller that is not at its EXPIRE does not account for any entry, so that it may
\* go anywhere.
LEMMA OthersAccount ==
    ASSUME IInv, NEW c \in Callers, NEW k \in Keys, Present(k), life[k] = 0,
           pc[c] # "expire" \/ Own(c) # k \/ ~(TTLOf(c) > 0),
           \A d \in Callers \ {c} : pc'[d] = pc[d] /\ req'[d] = req[d] /\ ttl'[d] = ttl[d],
           k \in immortal => k \in immortal'
    PROVE  Accounted(k)'
  BY DEF IInv, EntriesExpire, Accounted, Own, TTLOf

\* After an HSET the entry is accounted for: its EXPIRE is still to come, or was lost.
LEMMA WriteAccounts ==
    ASSUME IInv, NEW c \in Callers, HSet(c), NEW k \in Keys, Present(k)', life'[k] = 0
    PROVE  Accounted(k)'
  <1>1. /\ pc[c] = "hset" /\ UNCHANGED <<life, req, ttl>> /\ Own(c) \in Keys
        /\ \A d \in Callers \ {c} : pc'[d] = pc[d]
    BY OwnKey DEF HSet, Goto, Lose, IInv, Shape, TypeOK
  <1>2. CASE k # Own(c)
    <2>1. store'[k] = store[k] /\ (k \in immortal => k \in immortal')
      BY <1>1, <1>2 DEF HSet, NotDue, IInv, Shape, TypeOK
    <2>2. QED
      BY <1>1, <2>1, OthersAccount DEF Present
  <1>3. CASE k = Own(c)
    <2>1. CASE k \in immortal'
      BY <2>1 DEF Accounted
    <2>2. CASE Goto(c, "expire") /\ TTLOf(c) > 0
      <3>1. pc'[c] = "expire" /\ Own(c)' = k /\ TTLOf(c)' > 0
        BY <1>1, <1>3, <2>2 DEF Goto, Own, TTLOf, IInv, Shape, TypeOK
      <3>2. QED
        BY <3>1 DEF Accounted
    <2>3. CASE UNCHANGED <<store, immortal>>
      BY <1>1, <2>3, OthersAccount DEF Present
    <2>4. \/ k \in immortal' \/ (Goto(c, "expire") /\ TTLOf(c) > 0)
          \/ UNCHANGED <<store, immortal>>
      BY <1>1, <1>3 DEF HSet, NotDue
    <2>5. QED
      BY <2>1, <2>2, <2>3, <2>4
  <1>4. QED
    BY <1>2, <1>3

\* After EXPIRE the entry expires, or the command was lost.
LEMMA ExpireAccounts ==
    ASSUME IInv, NEW c \in Callers, Expire(c), NEW k \in Keys, Present(k)', life'[k] = 0
    PROVE  Accounted(k)'
  <1>1. /\ pc[c] = "expire" /\ UNCHANGED <<store, req, ttl>> /\ Own(c) \in Keys /\ TTLOf(c) \in Nat
        /\ \A d \in Callers \ {c} : pc'[d] = pc[d]
    BY OwnKey DEF Expire, Goto, Lose, IInv, Shape, TypeOK
  <1>2. Present(k)
    BY <1>1 DEF Present
  <1>3. CASE k # Own(c)
    <2>1. life'[k] = life[k] /\ (k \in immortal => k \in immortal')
      BY <1>1, <1>3 DEF Expire, Renew, IInv, Shape, TypeOK
    <2>2. QED
      BY <1>1, <1>2, <1>3, <2>1, OthersAccount
  <1>4. CASE k = Own(c)
    <2>1. CASE Renew(Own(c), TTLOf(c)) /\ TTLOf(c) > 0
      <3>1. life'[k] = TTLOf(c)
        BY <1>2, <1>4, <2>1 DEF Renew, IInv, Shape, TypeOK
      <3>2. QED
        BY <1>1, <2>1, <3>1
    <2>4. CASE Renew(Own(c), TTLOf(c)) /\ ~(TTLOf(c) > 0)
      BY <1>1, <1>2, <2>4, OthersAccount DEF Renew
    <2>2. CASE /\ immortal' = IF Present(Own(c)) /\ life[Own(c)] = 0
                             THEN immortal \union {Own(c)} ELSE immortal
               /\ UNCHANGED life
      BY <1>2, <1>4, <2>2 DEF Accounted
    <2>3. QED
      BY <1>1, <2>1, <2>2, <2>4 DEF Expire
  <1>5. QED
    BY <1>3, <1>4

\* After the refresh of a hit the entry expires as before, or later.
LEMMA RefreshAccounts ==
    ASSUME IInv, NEW c \in Callers, Refresh(c), NEW k \in Keys, Present(k)', life'[k] = 0
    PROVE  Accounted(k)'
  <1>1. /\ pc[c] = "refresh" /\ UNCHANGED <<store, req, ttl>>
        /\ \A d \in Callers \ {c} : pc'[d] = pc[d]
    BY DEF Refresh, Goto, Lose, IInv, Shape, TypeOK
  <1>2. life'[k] = life[k] /\ (k \in immortal => k \in immortal')
    <2>1. PICK j \in pending[c] : Renew(j, ttl[c]) \/ UNCHANGED <<life, immortal>>
      BY DEF Refresh
    <2>4. CASE Renew(j, ttl[c]) /\ ~(ttl[c] > 0)
      BY <2>4 DEF Renew
    <2>2. CASE Renew(j, ttl[c]) /\ ttl[c] > 0
      <3>1. j \in Keys
        BY DEF IInv, Shape, TypeOK
      <3>2. k # j
        BY <1>1, <2>2, <3>1 DEF Renew, Present, IInv, Shape, TypeOK
      <3>3. QED
        BY <2>2, <3>1, <3>2 DEF Renew, IInv, Shape, TypeOK
    <2>3. QED
      BY <2>1, <2>2, <2>4
  <1>3. QED
    BY <1>1, <1>2, OthersAccount DEF Present

\* The other steps write nothing that would have to expire.
LEMMA OtherStepsAccount ==
    ASSUME IInv, NEW c \in Callers,
           \/ Embed(c) \/ Search(c) \/ List(c) \/ Delete(c)
           \/ Exists(c) \/ Overwrite(c) \/ CreateIndex(c) \/ DeleteIndex(c),
           NEW k \in Keys, Present(k)', life'[k] = 0
    PROVE  Accounted(k)'
  <1>1. /\ pc[c] # "expire" /\ UNCHANGED req
        /\ \A d \in Callers \ {c} : pc'[d] = pc[d] /\ ttl'[d] = ttl[d]
    BY DEF Embed, Search, List, Delete, Exists, Overwrite, CreateIndex, DeleteIndex, Made,
           Goto, Lose, IInv, Shape, TypeOK
  <1>2. Present(k) /\ life[k] = 0 /\ (k \in immortal => k \in immortal')
    <2>1. CASE UNCHANGED <<store, life, immortal>>
      BY <2>1 DEF Present
    <2>2. CASE \E S : Remove(S)
      BY <2>2 DEF Remove, Present, Absent
    <2>3. QED
      BY <2>1, <2>2 DEF Embed, Search, List, Delete, Exists, Overwrite, CreateIndex, DeleteIndex
  <1>3. QED
    BY <1>1, <1>2, OthersAccount

\* A call that begins keeps the invariant.
LEMMA BeginIInv == ASSUME IInv, NEW c \in Callers, NEW r \in Requests, Begin(c, r) PROVE IInv'
  <1>1. /\ pc[c] # "expire" /\ hits'[c] = {}
        /\ UNCHANGED <<store, life, stored, moved, immortal>>
        /\ \A d \in Callers \ {c} :
              pc'[d] = pc[d] /\ req'[d] = req[d] /\ ttl'[d] = ttl[d] /\ hits'[d] = hits[d]
    BY DEF Begin, Goto, IInv, Shape, TypeOK
  <1>2. Shape'
    BY BeginShape DEF IInv
  <1>3. HashIsOfKey'
    BY <1>1 DEF IInv, HashIsOfKey
  <1>4. TenantIsolation' /\ NothingRemovedIsServed'
    BY <1>1 DEF IInv, TenantIsolation, NothingRemovedIsServed
  <1>5. ASSUME NEW k \in Keys, Present(k)', life'[k] = 0 PROVE Accounted(k)'
    BY <1>1, <1>5, OthersAccount DEF Present
  <1>6. EntriesExpire'
    BY <1>5 DEF EntriesExpire, Accounted
  <1>7. QED
    BY <1>2, <1>3, <1>4, <1>6 DEF IInv

\* A step of a call keeps the invariant.
LEMMA StepIInv == ASSUME IInv, NEW c \in Callers, Step(c) PROVE IInv'
  <1>1. Shape'
    BY EmbedShape, HSetShape, ExpireShape, SearchShape, RefreshShape, ListShape, DeleteShape,
       NewShape, DeleteIndexShape
    DEF IInv, Step
  <1>2. HashIsOfKey'
    BY StepHashes
  <1>3. \A d \in Callers : Isolated(d)'
    <2>1. CASE Search(c)
      BY <2>1, HitsIsolated
    <2>2. CASE UNCHANGED <<hits, req>>
      BY <2>2 DEF IInv, TenantIsolation, NothingRemovedIsServed, Isolated
    <2>3. QED
      BY <2>1, <2>2 DEF Step, Exists, Overwrite, CreateIndex, DeleteIndex, Embed, HSet, Expire,
                        Refresh, List, Delete
  <1>4. TenantIsolation' /\ NothingRemovedIsServed'
    BY <1>3 DEF Isolated, TenantIsolation, NothingRemovedIsServed
  <1>5. ASSUME NEW k \in Keys, Present(k)', life'[k] = 0 PROVE Accounted(k)'
    BY <1>5, WriteAccounts, ExpireAccounts, RefreshAccounts, OtherStepsAccount DEF Step
  <1>6. EntriesExpire'
    BY <1>5 DEF EntriesExpire, Accounted
  <1>7. QED
    BY <1>1, <1>2, <1>4, <1>6 DEF IInv

\* A unit of time keeps the invariant.
LEMMA TickIInv == ASSUME IInv, Tick PROVE IInv'
  <1>1. UNCHANGED <<pc, req, ttl, hits>>
    BY DEF Tick
  <1>2. TenantIsolation' /\ NothingRemovedIsServed'
    BY <1>1 DEF IInv, TenantIsolation, NothingRemovedIsServed
  <1>3. ASSUME NEW k \in Keys, Present(k)', life'[k] = 0 PROVE Accounted(k)'
    <2>1. life[k] \in Nat
      BY DEF IInv, Shape, TypeOK
    <2>2. life[k] # 1 /\ store'[k] = store[k] /\ (k \in immortal => k \in immortal')
      BY <1>3 DEF Tick, Present, Absent
    <2>3. life[k] = 0
      BY <1>3, <2>1, <2>2 DEF Tick
    <2>4. QED
      BY <1>1, <1>3, <2>2, <2>3 DEF IInv, EntriesExpire, Present, Accounted, Own, TTLOf
  <1>4. EntriesExpire'
    BY <1>3 DEF EntriesExpire, Accounted
  <1>5. QED
    BY <1>2, <1>4, TickShape, TickHashes DEF IInv

-----------------------------------------------------------------------------

\* The inductive invariant: the shape, hashes that belong to their key, and the three
\* properties below.
THEOREM Invariance == Spec => []IInv
  <1>1. IInv /\ [Next]_vars => IInv'
    <2> SUFFICES ASSUME IInv, [Next]_vars PROVE IInv'
      OBVIOUS
    <2>1. CASE UNCHANGED vars
      BY <2>1 DEF vars, IInv, Shape, TypeOK, CallAt, HashIsOfKey, TenantIsolation,
                  NothingRemovedIsServed, EntriesExpire, Present, Own, TTLOf
    <2>2. QED
      BY <2>1, BeginIInv, StepIInv, TickIInv DEF Next
  <1>2. QED
    BY InitIInv, <1>1, PTL DEF Spec

\* The cache, its expirations and the calls keep their types; no Check has more hits
\* than asked for.
THEOREM TypeCorrect == Spec => []TypeOK
  BY Invariance, PTL DEF IInv, Shape

\* No Check returns an answer of another tenant, whichever way the ids of prompts and
\* filters are made, but for entries that were given away or share their id.
THEOREM TenantsIsolated == Spec => []TenantIsolation
  BY Invariance, PTL DEF IInv

\* No Check returns an entry that was removed and not given a vector since.
THEOREM RemovedStaysRemoved == Spec => []NothingRemovedIsServed
  BY Invariance, PTL DEF IInv

\* Whatever was written under a TTL and does not expire is accounted for by a lost command
\* or by one to come.
THEOREM EverythingExpires == Spec => []EntriesExpire
  BY Invariance, PTL DEF IInv
=============================================================================
