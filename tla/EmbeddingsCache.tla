-------------------------- MODULE EmbeddingsCache --------------------------
(***************************************************************************)
(* EmbeddingsCache (extensions/cache/embeddings.go) and the cache-aside     *)
(* CachedVectorizer in front of it (cached_vectorizer.go), used by several  *)
(* goroutines against one Redis.  Embed is EmbedMany of one text: Get, Set  *)
(* and their pipelines MGet, MSet make the same commands in the same order. *)
(* The vectorizer behind it is one of the hosted ones (vectorize/*.go), which *)
(* embed a list in batches.  A step is one command to Redis or one request to *)
(* the provider.  An entry is its vector and whether it expires; metadata and *)
(* timestamps are left out.                                                   *)
(***************************************************************************)
EXTENDS Integers, Sequences, FiniteSets

CONSTANTS Callers,    \* goroutines, each with a vectorizer and a cache of its own
          Texts,      \* texts, as sequences of colon-separated parts
          Model(_),   \* Model(c): the model of c's vectorizer, a sequence of parts
          Requests,   \* the calls they make, a subset of Request
          TTL,        \* whether the caches have a TTL at first
          BatchSize,  \* texts in a request to the provider, 10 by default
          MaxCalls,   \* bound: calls begun in a behaviour
          MaxFaults   \* bound: commands lost

Request ==
    [op : {"embed"}, texts : Seq(Texts)]                     \* Embed, EmbedMany
        \union [op : {"set"}, texts : {<<t>> : t \in Texts}, ttl : BOOLEAN]  \* SetWithTTL
        \union [op : {"drop"}, texts : Seq(Texts)]
        \union [op : {"clear"}]
        \union [op : {"set_ttl"}, ttl : BOOLEAN]

ASSUME EmbeddingsCacheAssumption ==
    /\ <<>> \notin Texts
    /\ Requests \subseteq Request
    /\ TTL \in BOOLEAN
    /\ BatchSize \in Nat \ {0}
    /\ MaxCalls \in Nat /\ MaxFaults \in Nat

Vector(c, t) == [text |-> t, model |-> Model(c)]
Vectors      == [text : Texts, model : {Model(c) : c \in Callers}]

\* The entry id hashes content + ":" + modelName, taken to be injective in that
\* string: text "a" of model "b:m" and text "a:b" of model "m" share an entry.
Key(c, t) == t \o Model(c)
Keys      == {Key(c, t) : c \in Callers, t \in Texts}

Miss      == [text |-> <<>>, model |-> <<>>]
NoEntry   == [vec |-> Miss, expires |-> FALSE]
NoRequest == [op |-> "none"]

VARIABLES
    store,   \* store[k]: the entry at key k, or NoEntry
    ttl,     \* ttl[c]: whether c's cache has a TTL
    pc, req,
    pos,     \* position in the texts, or in their refreshes
    embedded, \* vectors the inner vectorizer has for the missing texts so far
    out,     \* out[c][n]: the vector for the nth text of c, or Miss
    unsaved, \* texts whose entries c has yet to write
    current, \* the text whose entry c is writing
    unseen,  \* keys the SCAN of c's Clear has yet to visit
    batch,   \* keys of the last SCAN page
    calls, faults,
    due,     \* history: keys present since the call of c began
    careful, \* history: no command of c's call was lost
    immortal \* history: keys whose expiration was lost or never due

cursors == <<unseen, batch>>
work    == <<unsaved, current, cursors>>
vars    == <<store, ttl, pc, req, pos, embedded, out, work, calls, faults, due, careful,
             immortal>>

Present  == {k \in Keys : store[k] # NoEntry}
Finished == {"idle", "ok", "err"}
Labels   == Finished \union {"read", "refresh", "inner", "hset", "expire", "drop", "scan", "del"}

TypeOK ==
    /\ store \in [Keys -> [vec : Vectors, expires : BOOLEAN] \union {NoEntry}]
    /\ ttl \in [Callers -> BOOLEAN]
    /\ pc \in [Callers -> Labels]
    /\ req \in [Callers -> Requests \union {NoRequest}]
    /\ pos \in [Callers -> Nat \ {0}]
    /\ out \in [Callers -> Seq(Vectors \union {Miss})]
    /\ embedded \in [Callers -> Seq(Vectors)]
    /\ \A c \in Callers : Len(embedded[c]) <= Len(out[c])
    /\ unsaved \in [Callers -> SUBSET Texts]
    /\ current \in [Callers -> Texts \union {<<>>}]
    /\ unseen \in [Callers -> SUBSET Keys] /\ batch \in [Callers -> SUBSET Keys]
    /\ calls \in Nat /\ faults \in Nat
    /\ due \in [Callers -> SUBSET Keys]
    /\ careful \in [Callers -> BOOLEAN]
    /\ immortal \in SUBSET Keys

Init ==
    /\ store = [k \in Keys |-> NoEntry]
    /\ ttl = [c \in Callers |-> TTL]
    /\ pc = [c \in Callers |-> "idle"]
    /\ req = [c \in Callers |-> NoRequest]
    /\ pos = [c \in Callers |-> 1]
    /\ out = [c \in Callers |-> <<>>]
    /\ embedded = [c \in Callers |-> <<>>]
    /\ unsaved = [c \in Callers |-> {}]
    /\ current = [c \in Callers |-> <<>>]
    /\ unseen = [c \in Callers |-> {}] /\ batch = [c \in Callers |-> {}]
    /\ calls = 0 /\ faults = 0
    /\ due = [c \in Callers |-> {}]
    /\ careful = [c \in Callers |-> TRUE]
    /\ immortal = {}

texts(c)  == req[c].texts
missed(c) == {n \in DOMAIN out[c] : out[c][n] = Miss}

Goto(c, label) == pc' = [pc EXCEPT ![c] = label] /\ UNCHANGED <<faults, careful>>

\* A command of c is lost, before or after Redis ran it, and c goes on at label.
Lose(c, label) ==
    /\ faults < MaxFaults
    /\ faults' = faults + 1
    /\ careful' = [careful EXCEPT ![c] = FALSE]
    /\ pc' = [pc EXCEPT ![c] = label]

Remove(S) ==
    /\ store' = [k \in Keys |-> IF k \in S THEN NoEntry ELSE store[k]]
    /\ due' = [c \in Callers |-> due[c] \ S]
    /\ immortal' = immortal \ S

First == [embed |-> "read", set |-> "hset", drop |-> "drop", clear |-> "scan", set_ttl |-> "ok"]

Begin(c, r) ==
    /\ pc[c] \in Finished /\ calls < MaxCalls
    /\ calls' = calls + 1
    /\ pc' = [pc EXCEPT ![c] = First[r.op]]
    /\ req' = [req EXCEPT ![c] = r]
    /\ ttl' = [ttl EXCEPT ![c] = IF r.op = "set_ttl" THEN r.ttl ELSE @]
    /\ pos' = [pos EXCEPT ![c] = 1]
    /\ embedded' = [embedded EXCEPT ![c] = <<>>]
    /\ out' = [out EXCEPT ![c] = IF r.op = "embed" THEN [n \in DOMAIN r.texts |-> Miss] ELSE <<>>]
    /\ unsaved' = [unsaved EXCEPT ![c] = IF r.op = "set" THEN {r.texts[1]} ELSE {}]
    /\ unseen' = [unseen EXCEPT ![c] = Keys]
    /\ due' = [due EXCEPT ![c] = Present]
    /\ careful' = [careful EXCEPT ![c] = TRUE]
    /\ UNCHANGED <<store, current, batch, faults, immortal>>

-----------------------------------------------------------------------------
(* Reading: one HGETALL per text; an error is a miss of all the texts.  Then *)
(* the entries found have their expiration renewed, as well as it goes.      *)

\* Where a call goes from position n of the refreshes.
AfterReads(c, o) ==
    IF ttl[c] /\ \E n \in DOMAIN o : o[n] # Miss THEN "refresh"
    ELSE IF \E n \in DOMAIN o : o[n] = Miss THEN "inner" ELSE "ok"

\* Mutant: one missing text makes a miss of those looked up before it.
ReadAllOrNothing(c) ==
    /\ pc[c] = "read" /\ texts(c) # <<>>
    /\ LET n == pos[c]
           e == store[Key(c, texts(c)[n])]
           o == IF e = NoEntry THEN [i \in DOMAIN out[c] |-> Miss]
                ELSE [out[c] EXCEPT ![n] = e.vec]
       IN  /\ out' = [out EXCEPT ![c] = o]
           /\ pos' = [pos EXCEPT ![c] = IF n < Len(texts(c)) THEN n + 1 ELSE 1]
           /\ Goto(c, IF n < Len(texts(c)) THEN "read" ELSE AfterReads(c, o))
    /\ UNCHANGED <<store, ttl, req, embedded, work, calls, due, immortal>>

Read(c) ==
    /\ pc[c] = "read" /\ texts(c) # <<>>
    /\ LET n == pos[c]
           e == store[Key(c, texts(c)[n])]
           o == [out[c] EXCEPT ![n] = IF e = NoEntry THEN Miss ELSE e.vec]
       IN  /\ out' = [out EXCEPT ![c] = o]
           /\ pos' = [pos EXCEPT ![c] = IF n < Len(texts(c)) THEN n + 1 ELSE 1]
           /\ Goto(c, IF n < Len(texts(c)) THEN "read" ELSE AfterReads(c, o))
    /\ UNCHANGED <<store, ttl, req, embedded, work, calls, due, immortal>>

\* Mutant: the error of MGet is returned.
ReadFailsCall(c) ==
    /\ pc[c] = "read" /\ texts(c) # <<>>
    /\ out' = [out EXCEPT ![c] = [n \in DOMAIN out[c] |-> Miss]]
    /\ Lose(c, "err")
    /\ UNCHANGED <<store, ttl, req, embedded, pos, work, calls, due, immortal>>

ReadFails(c) ==
    /\ pc[c] = "read" /\ texts(c) # <<>>
    /\ out' = [out EXCEPT ![c] = [n \in DOMAIN out[c] |-> Miss]]
    /\ Lose(c, "inner")
    /\ UNCHANGED <<store, ttl, req, embedded, pos, work, calls, due, immortal>>

\* Without texts there is nothing to look up and nothing missing.
ReadNone(c) ==
    /\ pc[c] = "read" /\ texts(c) = <<>>
    /\ Goto(c, "ok")
    /\ UNCHANGED <<store, ttl, req, embedded, pos, out, work, calls, due, immortal>>

\* Mutant: EXPIRE of a key that is gone leaves an entry.
RenewedCreates(k) ==
    /\ store' = [store EXCEPT ![k].expires = TRUE]
    /\ immortal' = immortal \ {k}

\* EXPIRE does nothing to a key that is gone.
Renewed(k) ==
    /\ store' = [store EXCEPT ![k] = IF @ = NoEntry THEN @ ELSE [@ EXCEPT !.expires = TRUE]]
    /\ immortal' = immortal \ {k}

Refresh(c) ==
    /\ pc[c] = "refresh"
    /\ LET n    == pos[c]
           last == n = Len(out[c])
           then == IF ~last THEN "refresh" ELSE IF missed(c) = {} THEN "ok" ELSE "inner"
           hit  == n \notin missed(c)
       IN  /\ pos' = [pos EXCEPT ![c] = IF last THEN 1 ELSE n + 1]
           /\ \/ hit /\ Renewed(Key(c, texts(c)[n])) /\ (Goto(c, then) \/ Lose(c, then))
              \/ hit /\ Lose(c, then) /\ UNCHANGED <<store, immortal>>
              \/ ~hit /\ Goto(c, then) /\ UNCHANGED <<store, immortal>>
    /\ UNCHANGED <<ttl, req, embedded, out, work, calls, due>>

-----------------------------------------------------------------------------
(* The inner vectorizer embeds the misses: one request per batch, whose       *)
(* embeddings follow those of the batch before; then each goes to its place.  *)

MissTexts(c) == [i \in 1..Cardinality(missed(c)) |->
                    LET n == CHOOSE n \in missed(c) : Cardinality({m \in missed(c) : m <= n}) = i
                    IN  texts(c)[n]]

BatchEnd(c) == LET end == Len(embedded[c]) + BatchSize
               IN  IF end > Len(MissTexts(c)) THEN Len(MissTexts(c)) ELSE end

\* Mutant: the embeddings are put at their index among the misses, out[n].
PlacedAmongMisses(c, embeddings) ==
    [n \in DOMAIN out[c] |-> IF n \in DOMAIN embeddings THEN embeddings[n] ELSE out[c][n]]

Placed(c, embeddings) ==
    [n \in DOMAIN out[c] |->
        IF n \in missed(c) THEN embeddings[Cardinality({m \in missed(c) : m <= n})]
        ELSE out[c][n]]

Inner(c) ==
    /\ pc[c] = "inner"
    /\ LET some       == SubSeq(MissTexts(c), Len(embedded[c]) + 1, BatchEnd(c))
           embeddings == embedded[c] \o [i \in DOMAIN some |-> Vector(c, some[i])]
       IN  IF Len(embeddings) < Len(MissTexts(c))
           THEN /\ embedded' = [embedded EXCEPT ![c] = embeddings]
                /\ Goto(c, "inner")
                /\ UNCHANGED <<out, unsaved>>
           ELSE /\ embedded' = [embedded EXCEPT ![c] = <<>>]
                /\ out' = [out EXCEPT ![c] = Placed(c, embeddings)]
                /\ unsaved' = [unsaved EXCEPT ![c] = {texts(c)[n] : n \in missed(c)}]
                /\ Goto(c, "hset")
    /\ UNCHANGED <<store, ttl, req, pos, current, cursors, calls, due, immortal>>

\* A request fails, or is answered with another number of embeddings.
InnerFails(c) ==
    /\ pc[c] = "inner"
    /\ Goto(c, "err")
    /\ UNCHANGED <<store, ttl, req, embedded, pos, out, work, calls, due, immortal>>

-----------------------------------------------------------------------------
(* Writing: HSET and, under a TTL, EXPIRE for each text, in any order; what  *)
(* a lost command leaves undone stays undone.  Only Set reports its HSET.    *)

Expires(c) == ttl[c] \/ (req[c].op = "set" /\ req[c].ttl)

AfterWrite(rest) == IF rest = {} THEN "ok" ELSE "hset"

HSet(c, t) ==
    /\ pc[c] = "hset" /\ t \in unsaved[c]
    /\ current' = [current EXCEPT ![c] = t]
    /\ LET k    == Key(c, t)
           rest == unsaved[c] \ {t}
           old  == store[k] # NoEntry /\ store[k].expires
           unexpiring == IF old THEN {} ELSE {k}   \* HSET keeps the expiration
           lost == IF req[c].op = "set" THEN "err" ELSE "ok"
       IN  \/ /\ store' = [store EXCEPT ![k] = [vec |-> Vector(c, t), expires |-> old]]
              /\ IF Expires(c)
                 THEN Goto(c, "expire") /\ UNCHANGED <<unsaved, immortal>>
                 ELSE /\ Goto(c, AfterWrite(rest))
                      /\ unsaved' = [unsaved EXCEPT ![c] = rest]
                      /\ immortal' = immortal \union unexpiring
           \/ /\ store' = [store EXCEPT ![k] = [vec |-> Vector(c, t), expires |-> old]]
              /\ Lose(c, lost)
              /\ immortal' = immortal \union unexpiring
              /\ UNCHANGED unsaved
           \/ Lose(c, lost) /\ UNCHANGED <<store, unsaved, immortal>>
    /\ UNCHANGED <<ttl, req, embedded, pos, out, cursors, calls, due>>

\* Mutant: EXPIRE is sent for the last key of the batch only.
ExpireLastOnly(c) ==
    /\ pc[c] = "expire"
    /\ LET k    == Key(c, current[c])
           rest == unsaved[c] \ {current[c]}
       IN  /\ IF rest = {} THEN Renewed(k) ELSE UNCHANGED <<store, immortal>>
           /\ unsaved' = [unsaved EXCEPT ![c] = rest]
           /\ Goto(c, AfterWrite(rest))
    /\ UNCHANGED <<ttl, req, embedded, pos, out, current, cursors, calls, due>>

Expire(c) ==
    /\ pc[c] = "expire"
    /\ LET k    == Key(c, current[c])
           rest == unsaved[c] \ {current[c]}
       IN  \/ /\ Renewed(k)
              /\ unsaved' = [unsaved EXCEPT ![c] = rest]
              /\ Goto(c, AfterWrite(rest))
           \/ /\ Lose(c, "ok")
              /\ immortal' = immortal \union {j \in {k} \intersect Present : ~store[j].expires}
              /\ UNCHANGED <<store, unsaved>>
    /\ UNCHANGED <<ttl, req, embedded, pos, out, current, cursors, calls, due>>

-----------------------------------------------------------------------------
(* Removing: Drop, Clear's SCAN and DEL, and Redis's expiration. *)

Drop(c) ==
    /\ pc[c] = "drop"
    /\ \/ /\ Remove({Key(c, texts(c)[n]) : n \in DOMAIN texts(c)})
          /\ Goto(c, "ok") \/ Lose(c, "err")
       \/ Lose(c, "err") /\ UNCHANGED <<store, due, immortal>>
    /\ UNCHANGED <<ttl, req, embedded, pos, out, work, calls>>

\* Mutant: an empty page ends the Clear.
ScanStopsAtEmptyPage(c) ==
    /\ pc[c] = "scan"
    /\ \E S \in SUBSET unseen[c] :
          /\ S # {}
          /\ unseen' = [unseen EXCEPT ![c] = @ \ S]
          /\ batch' = [batch EXCEPT ![c] = S \intersect Present]
          /\ Goto(c, IF S \intersect Present = {} THEN "ok" ELSE "del")
    /\ UNCHANGED <<store, ttl, req, embedded, pos, out, unsaved, current, calls, due, immortal>>

\* One SCAN visits some of the key space: every key of it that is there is in the
\* page, which may be empty before the cursor is back at 0.
Scan(c) ==
    /\ pc[c] = "scan"
    /\ \/ \E S \in SUBSET unseen[c] :
             /\ S # {}
             /\ unseen' = [unseen EXCEPT ![c] = @ \ S]
             /\ batch' = [batch EXCEPT ![c] = S \intersect Present]
             /\ Goto(c, IF S \intersect Present # {} THEN "del"
                        ELSE IF S = unseen[c] THEN "ok" ELSE "scan")
       \/ Lose(c, "err") /\ UNCHANGED <<unseen, batch>>
    /\ UNCHANGED <<store, ttl, req, embedded, pos, out, unsaved, current, calls, due, immortal>>

Del(c) ==
    /\ pc[c] = "del"
    /\ \/ /\ Remove(batch[c])
          /\ Goto(c, IF unseen[c] = {} THEN "ok" ELSE "scan") \/ Lose(c, "err")
       \/ Lose(c, "err") /\ UNCHANGED <<store, due, immortal>>
    /\ UNCHANGED <<ttl, req, embedded, pos, out, work, calls>>

Evict(k) ==
    /\ store[k] # NoEntry /\ store[k].expires
    /\ Remove({k})
    /\ UNCHANGED <<ttl, pc, req, embedded, pos, out, work, calls, faults, careful>>

-----------------------------------------------------------------------------

Step(c) ==
    \/ Read(c) \/ ReadFails(c) \/ ReadNone(c) \/ Refresh(c) \/ Inner(c) \/ InnerFails(c)
    \/ (\E t \in Texts : HSet(c, t)) \/ Expire(c)
    \/ Drop(c) \/ Scan(c) \/ Del(c)

Next ==
    \/ \E c \in Callers : Step(c) \/ \E r \in Requests : Begin(c, r)
    \/ \E k \in Keys : Evict(k)

Spec == Init /\ [][Next]_vars

-----------------------------------------------------------------------------
(* What the cache promises. *)

\* To its callers a CachedVectorizer is a vectorizer: whatever is evicted,
\* dropped, cleared or lost between its lookups and its write-back, EmbedMany
\* returns the vector of each text at the place of that text.
V == INSTANCE Vectorizer WITH
    TextLists <- {r.texts : r \in {q \in Requests : q.op = "embed"}} \union {<<>>},
    asked  <- [c \in Callers |-> IF req[c].op = "embed" THEN req[c].texts ELSE <<>>],
    result <- [c \in Callers |->
                 IF req[c].op # "embed" THEN <<"idle">>
                 ELSE IF pc[c] = "ok" THEN <<"vectors", out[c]>>
                 ELSE IF pc[c] = "err" THEN <<"error">> ELSE <<"running">>]
ImplementsVectorizer == V!Spec

Embedding(c) == pc[c] # "idle" /\ req[c].op = "embed"

\* A lost command on the cache never fails Embed or EmbedMany ("a cache failure
\* falls back to the inner vectorizer rather than failing the call").
OnlyInnerFails == [][\A c \in Callers :
    Embedding(c) /\ pc'[c] = "err" /\ pc[c] # "err" => pc[c] = "inner"]_vars

\* "repeated texts are embedded only once" (CachedVectorizer), as far as the cache
\* can see: a text whose entry was there when the call began, and stayed there
\* until it was looked up, is not embedded again.
CachedTextsAreNotEmbedded ==
    \A c \in Callers :
        pc[c] = "inner" /\ careful[c] =>
            \A n \in missed(c) : Key(c, texts(c)[n]) \notin due[c]

\* An entry written under a TTL that does not expire is one whose EXPIRE was lost, or
\* is about to be sent: neither a refresh, nor a concurrent writer, with a TTL or
\* without, nor a Drop or Clear between HSET and EXPIRE leaves another.
EntriesExpire ==
    \A k \in Present :
        \/ store[k].expires \/ k \in immortal
        \/ \E c \in Callers : pc[c] = "expire" /\ Key(c, current[c]) = k

\* Clear "removes all entries under this cache's prefix": those that were there
\* when it began and were still there when it returned without error are none.
ClearRemovesAll ==
    \A c \in Callers : req[c].op = "clear" /\ pc[c] = "ok" => due[c] = {}
=============================================================================
