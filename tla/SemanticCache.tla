---------------------------- MODULE SemanticCache ----------------------------
(***************************************************************************)
(* SemanticCache (extensions/cache/semantic.go): answers stored under their  *)
(* prompt and filter values, found again by the similarity of prompts, and   *)
(* expired by Redis.  Each caller has a SemanticCache of its own, made again  *)
(* by New, on one index.  A step is one command.  One filterable field, the   *)
(* tenant, stands for all; an answer is the tenant whose call wrote it, and a *)
(* vector, given or embedded, the prompt it is of.  Distances are in tenths.  *)
(* Prompt, metadata and timestamps are written and read back only.           *)
(***************************************************************************)
EXTENDS Integers, FiniteSets

CONSTANTS Callers, Prompts, Tenants,
          EntryId(_, _), \* EntryId(p, t): the entry id of a prompt and a filter value
          Near(_, _),  \* Near(d, p): prompts at a distance of at most d from p
          Requests,    \* the calls they make, a subset of Request
          NumResults,  \* hits that Check returns at most
          TTL,         \* TTL of the caches at first, in ticks; 0 if entries do not expire
          DefaultThreshold, MaxThreshold,
          MaxCalls,    \* bound: calls begun in a behaviour
          MaxFaults    \* bound: commands lost

NoFilter == "none"
Nobody   == "nobody"
Filters  == Tenants \union {NoFilter}

\* Update takes the fields of the schema, of which prompt, timestamps and metadata are
\* "other" ones, and no unknown ones.
Fields == {"response", "vector", "tenant", "other", "unknown"}

Request ==
    [op : {"store", "expire"}, prompt : Prompts, tenant : Filters, ttl : Nat]
        \union [op : {"check"}, prompt : Prompts, tenant : Filters, threshold : Int]
        \union [op : {"update"}, prompt : Prompts, tenant : Filters, fields : SUBSET Fields,
                like : Prompts, to : Tenants]
        \union [op : {"drop"}, prompt : Prompts, tenant : Filters]
        \union [op : {"clear", "delete"}]
        \union [op : {"new"}, overwrite : BOOLEAN, ttl : Nat, threshold : Int]
        \union [op : {"set_ttl"}, ttl : Nat]
        \union [op : {"set_threshold"}, threshold : Int]

ASSUME SemanticCacheAssumption ==
    /\ Requests \subseteq Request
    /\ IsFiniteSet(Prompts) /\ IsFiniteSet(Tenants)
    /\ {NoFilter, Nobody} \intersect (Tenants \union Prompts) = {}
    /\ NumResults \in Nat \ {0}
    /\ TTL \in Nat
    /\ MaxThreshold \in Nat /\ DefaultThreshold \in 0..MaxThreshold
    /\ MaxCalls \in Nat /\ MaxFaults \in Nat

\* Mutant: the entry id is the hash of the prompt alone.
KeyOfPrompt(p, t) == EntryId(p, CHOOSE u \in Tenants : TRUE)

\* makeEntryID hashes the prompt and the filter values, joined without a mark between
\* them: two prompts may share an id, one with a filter and one without.
Key(p, t) == EntryId(p, t)
Keys      == {EntryId(p, t) : p \in Prompts, t \in Filters}

\* A hash: its tenant field, the answer, and the prompt vector.  An absent field is Nobody.
Hash   == [there : {TRUE}, tenant : Tenants \union {Nobody}, answer : Filters \union {Nobody},
           vector : Prompts \union {Nobody}]
Absent == [there |-> FALSE, tenant |-> Nobody, answer |-> Nobody, vector |-> Nobody]

VARIABLES
    index,     \* whether the index exists
    store,     \* store[k]: the hash at k, or Absent
    life,      \* life[k]: ticks until Redis removes it; 0 if it does not expire
    ttl,       \* ttl[c], threshold[c]: the defaults of c's SemanticCache
    threshold,
    pc, req,
    pending,   \* keys c's Check has yet to refresh, or its Clear to delete
    hits,      \* hits of c's Check
    calls, faults,
    stored,    \* history: keys whose vector was given since they were last absent
    moved,     \* history: keys whose tenant field an Update wrote last
    immortal,  \* history: keys whose expiration was lost, or never due
    promise    \* history: promise[k], ticks an overriding Store has left to k

own     == <<ttl, threshold>>
history == <<stored, moved, immortal, promise>>
vars    == <<index, store, life, own, pc, req, pending, hits, calls, faults, history>>

Hit == [key : Keys, hash : Hash, stored : BOOLEAN, moved : BOOLEAN]
Labels == {"idle", "ok", "err", "embed", "hset", "expire", "search", "refresh", "list", "del",
           "delete", "exists", "overwrite", "create"}

TypeOK ==
    /\ index \in BOOLEAN
    /\ store \in [Keys -> Hash \union {Absent}]
    /\ life \in [Keys -> Nat]
    /\ \A k \in Keys : store[k] = Absent => life[k] = 0
    /\ ttl \in [Callers -> Nat] /\ threshold \in [Callers -> 0..MaxThreshold]
    /\ pc \in [Callers -> Labels]
    /\ \A c \in Callers : pc[c] # "idle" => req[c] \in Requests
    /\ pending \in [Callers -> SUBSET Keys]
    /\ \A c \in Callers : hits[c] \subseteq Hit /\ Cardinality(hits[c]) <= NumResults
    /\ calls \in Nat /\ faults \in Nat
    /\ stored \subseteq Keys /\ moved \subseteq Keys /\ immortal \subseteq Keys
    /\ promise \in [Keys -> Nat]

Init ==
    /\ index = TRUE
    /\ store = [k \in Keys |-> Absent]
    /\ life = [k \in Keys |-> 0]
    /\ ttl = [c \in Callers |-> TTL]
    /\ threshold = [c \in Callers |-> DefaultThreshold]
    /\ pc = [c \in Callers |-> "idle"]
    /\ req = [c \in Callers |-> [op |-> "none"]]
    /\ pending = [c \in Callers |-> {}]
    /\ hits = [c \in Callers |-> {}]
    /\ calls = 0 /\ faults = 0
    /\ stored = {} /\ moved = {} /\ immortal = {}
    /\ promise = [k \in Keys |-> 0]

Own(c)     == Key(req[c].prompt, req[c].tenant)
Present(k) == store[k].there

Goto(c, label) == pc' = [pc EXCEPT ![c] = label] /\ UNCHANGED faults

\* The command, or its reply, is lost.
Lose(c, label) ==
    /\ faults < MaxFaults
    /\ faults' = faults + 1
    /\ pc' = [pc EXCEPT ![c] = label]

Remove(S) ==
    /\ store' = [k \in Keys |-> IF k \in S THEN Absent ELSE store[k]]
    /\ life' = [k \in Keys |-> IF k \in S THEN 0 ELSE life[k]]
    /\ stored' = stored \ S /\ moved' = moved \ S /\ immortal' = immortal \ S

FirstOf == [store |-> "embed", check |-> "embed", update |-> "hset", expire |-> "expire",
            drop |-> "del", clear |-> "list", delete |-> "delete", new |-> "exists",
            set_ttl |-> "ok", set_threshold |-> "ok"]

\* "distance must be between 0 and 2".  The threshold of a Check is not checked.
Refused(r) == \/ r.op \in {"new", "set_threshold"} /\ r.threshold \notin 0..MaxThreshold
              \/ r.op = "update" /\ "unknown" \in r.fields

\* An Update without fields refreshes the expiration only.
First(r) == IF Refused(r) THEN "err"
            ELSE IF r.op = "update" /\ r.fields = {} THEN "expire" ELSE FirstOf[r.op]

Begin(c, r) ==
    /\ pc[c] \in {"idle", "ok", "err"} /\ calls < MaxCalls
    /\ calls' = calls + 1
    /\ req' = [req EXCEPT ![c] = r]
    /\ hits' = [hits EXCEPT ![c] = {}]
    /\ ttl' = [ttl EXCEPT ![c] = IF r.op = "set_ttl" THEN r.ttl ELSE @]
    /\ threshold' = [threshold EXCEPT ![c] =
                       IF r.op = "set_threshold" /\ ~Refused(r) THEN r.threshold ELSE @]
    /\ Goto(c, First(r))
    /\ UNCHANGED <<index, store, life, pending, history>>

\* The vectorizer embeds the prompt; or it fails, or the vector has not its dimensions.
Embed(c) ==
    /\ pc[c] = "embed"
    /\ \/ Goto(c, IF req[c].op = "store" THEN "hset" ELSE "search")
       \/ Goto(c, "err")
    /\ UNCHANGED <<index, store, life, own, req, pending, hits, calls, history>>

-----------------------------------------------------------------------------
(* New is SearchIndex.Create: FT._LIST, then FT.DROPINDEX when overwriting,   *)
(* which leaves the hashes, then FT.CREATE.  Delete is FT.DROPINDEX with them. *)

\* The caller has a new SemanticCache.
Made(c) ==
    /\ ttl' = [ttl EXCEPT ![c] = req[c].ttl]
    /\ threshold' = [threshold EXCEPT ![c] =
                       IF req[c].threshold = 0 THEN DefaultThreshold ELSE req[c].threshold]

Exists(c) ==
    /\ pc[c] = "exists"
    /\ \/ /\ index /\ ~req[c].overwrite
          /\ Made(c) /\ Goto(c, "ok")
       \/ /\ ~(index /\ ~req[c].overwrite) /\ UNCHANGED own
          /\ Goto(c, IF index THEN "overwrite" ELSE "create")
       \/ Lose(c, "err") /\ UNCHANGED own
    /\ UNCHANGED <<index, store, life, req, pending, hits, calls, history>>

\* FT.DROPINDEX fails without an index.
Overwrite(c) ==
    /\ pc[c] = "overwrite"
    /\ \/ /\ index' = FALSE
          /\ Goto(c, IF index THEN "create" ELSE "err") \/ Lose(c, "err")
       \/ Lose(c, "err") /\ UNCHANGED index
    /\ UNCHANGED <<store, life, own, req, pending, hits, calls, history>>

\* FT.CREATE fails if there is one.
CreateIndex(c) ==
    /\ pc[c] = "create"
    /\ \/ /\ ~index /\ index' = TRUE
          /\ Made(c) /\ Goto(c, "ok")
       \/ /\ index' = TRUE /\ UNCHANGED own
          /\ (index /\ Goto(c, "err")) \/ Lose(c, "err")
       \/ Lose(c, "err") /\ UNCHANGED <<index, own>>
    /\ UNCHANGED <<store, life, req, pending, hits, calls, history>>

DeleteIndex(c) ==
    /\ pc[c] = "delete"
    /\ \/ /\ index /\ index' = FALSE
          /\ Remove(Keys) /\ promise' = [k \in Keys |-> 0]
          /\ Goto(c, "ok") \/ Lose(c, "err")
       \/ /\ (~index /\ Goto(c, "err")) \/ Lose(c, "err")
          /\ UNCHANGED <<index, store, life, history>>
    /\ UNCHANGED <<own, req, pending, hits, calls>>

-----------------------------------------------------------------------------
(* Store loads one record, HSET and EXPIRE in a pipeline; Update makes the   *)
(* same commands with the fields it changes, on a key that may be gone.      *)

TTLOf(c) ==
    IF req[c].op \in {"store", "expire"} /\ req[c].ttl > 0 THEN req[c].ttl ELSE ttl[c]

Gives(c, field) == req[c].op = "update" /\ field \in req[c].fields

\* Mutant: Update embeds the prompt again, whatever fields it is given.
VectorReembeds(c) == req[c].prompt

\* The fields after a command of c.  A Store without a filter leaves the tenant field.
Vector(c) == IF req[c].op = "store" THEN req[c].prompt
             ELSE IF Gives(c, "vector") THEN req[c].like ELSE store[Own(c)].vector
Tenant(c) == IF req[c].op = "store" /\ req[c].tenant # NoFilter THEN req[c].tenant
             ELSE IF Gives(c, "tenant") THEN req[c].to ELSE store[Own(c)].tenant
Answer(c) == IF req[c].op = "store" \/ Gives(c, "response") THEN req[c].tenant
             ELSE store[Own(c)].answer

Written(c) ==
    [there |-> TRUE, tenant |-> Tenant(c), answer |-> Answer(c), vector |-> Vector(c)]

\* HSET keeps the expiration of a hash; without one it gets none.
NotDue(k) == immortal' = immortal \union (IF life[k] = 0 THEN {k} ELSE {})

HSet(c) ==
    /\ pc[c] = "hset"
    /\ LET k     == Own(c)
           write == /\ store' = [store EXCEPT ![k] = Written(c)]
                    /\ stored' = IF req[c].op = "store" \/ Gives(c, "vector")
                                 THEN stored \union {k} ELSE stored
                    /\ moved' = IF Gives(c, "tenant") THEN moved \union {k}
                                ELSE IF req[c].op = "store" /\ req[c].tenant # NoFilter
                                THEN moved \ {k} ELSE moved
                    /\ promise' = [promise EXCEPT ![k] = 0]
       IN  \/ /\ write /\ TTLOf(c) > 0
              /\ Goto(c, "expire") /\ UNCHANGED immortal
           \/ /\ write /\ TTLOf(c) = 0
              /\ Goto(c, "ok") /\ NotDue(k)
           \/ write /\ Lose(c, "err") /\ NotDue(k)
           \/ Lose(c, "err") /\ UNCHANGED <<store, history>>
    /\ UNCHANGED <<index, life, own, req, pending, hits, calls>>

Renew(k, ticks) ==
    IF ticks > 0 THEN /\ life' = [life EXCEPT ![k] = IF Present(k) THEN ticks ELSE @]
                      /\ immortal' = immortal \ {k}
                 ELSE UNCHANGED <<life, immortal>>

\* Mutant: only an Update without fields refreshes the expiration.
ExpireUnlessUpdated(c) ==
    /\ pc[c] = "expire"
    /\ IF req[c].op = "update" THEN UNCHANGED <<life, immortal>> ELSE Renew(Own(c), TTLOf(c))
    /\ Goto(c, "ok")
    /\ UNCHANGED <<index, store, own, req, pending, hits, calls, stored, moved, promise>>

\* Of Store, Update and Expire: only Store, in its pipeline, reports an error.
Expire(c) ==
    /\ pc[c] = "expire"
    /\ LET k    == Own(c)
           lost == IF req[c].op = "store" THEN "err" ELSE "ok"
       IN  \/ /\ Renew(k, TTLOf(c))
              /\ promise' = [promise EXCEPT ![k] =
                    IF req[c].op = "store" /\ Present(k) THEN req[c].ttl ELSE 0]
              /\ Goto(c, "ok") \/ Lose(c, lost)
           \/ /\ Lose(c, lost)
              /\ immortal' = IF Present(k) /\ life[k] = 0 THEN immortal \union {k} ELSE immortal
              /\ UNCHANGED <<life, promise>>
    /\ UNCHANGED <<index, store, own, req, pending, hits, calls, stored, moved>>

-----------------------------------------------------------------------------
(* Check: a vector range query with the filter, then the expiration of each  *)
(* hit, one command per hit, errors ignored.                                 *)

ThresholdOf(c) == IF req[c].threshold = 0 THEN threshold[c] ELSE req[c].threshold

\* Redis refuses a search without an index, and a negative radius.
Searchable(c) == index /\ ThresholdOf(c) >= 0

\* Only a hash with a vector can be within a distance.
Matching(c) ==
    {k \in Keys : /\ store[k].vector # Nobody
                  /\ store[k].vector \in Near(ThresholdOf(c), req[c].prompt)
                  /\ req[c].tenant \in {NoFilter, store[k].tenant}}

\* Mutant: the number of results is not sent.
BestAll(S) == {S}

Best(S) == {T \in SUBSET S :
              IF Cardinality(S) <= NumResults THEN T = S ELSE Cardinality(T) = NumResults}

\* A hit, with what the history knows of it.
HitAt(k) == [key |-> k, hash |-> store[k], stored |-> k \in stored, moved |-> k \in moved]

Search(c) ==
    /\ pc[c] = "search"
    /\ \/ \E S \in Best(Matching(c)) :
             /\ Searchable(c)
             /\ hits' = [hits EXCEPT ![c] = {HitAt(k) : k \in S}]
             /\ pending' = [pending EXCEPT ![c] = IF ttl[c] > 0 THEN S ELSE {}]
             /\ Goto(c, IF ttl[c] > 0 /\ S # {} THEN "refresh" ELSE "ok")
       \/ /\ (~Searchable(c) /\ Goto(c, "err")) \/ Lose(c, "err")
          /\ UNCHANGED <<hits, pending>>
    /\ UNCHANGED <<index, store, life, own, req, calls, history>>

Refresh(c) ==
    /\ pc[c] = "refresh"
    /\ \E k \in pending[c] :
          LET then == IF pending[c] = {k} THEN "ok" ELSE "refresh"
          IN  /\ pending' = [pending EXCEPT ![c] = @ \ {k}]
              /\ \/ Renew(k, ttl[c]) /\ (Goto(c, then) \/ Lose(c, then))
                 \/ Lose(c, then) /\ UNCHANGED <<life, immortal>>
    /\ UNCHANGED <<index, store, own, req, hits, calls, stored, moved, promise>>

-----------------------------------------------------------------------------
(* Drop is one DEL; Clear is one of the keys it finds in the index, which has *)
(* every hash of the cache (SearchIndex has its pages).                       *)

List(c) ==
    /\ pc[c] = "list"
    /\ LET found == {k \in Keys : Present(k)}
       IN  \/ /\ index
              /\ pending' = [pending EXCEPT ![c] = found]
              /\ Goto(c, IF found = {} THEN "ok" ELSE "del")
           \/ /\ (~index /\ Goto(c, "err")) \/ Lose(c, "err")
              /\ UNCHANGED pending
    /\ UNCHANGED <<index, store, life, own, req, hits, calls, history>>

Delete(c) ==
    /\ pc[c] = "del"
    /\ LET S == IF req[c].op = "drop" THEN {Own(c)} ELSE pending[c]
       IN  \/ /\ Remove(S)
              /\ promise' = [k \in Keys |-> IF k \in S THEN 0 ELSE promise[k]]
              /\ Goto(c, "ok") \/ Lose(c, "err")
           \/ Lose(c, "err") /\ UNCHANGED <<store, life, history>>
    /\ pending' = [pending EXCEPT ![c] = {}]
    /\ UNCHANGED <<index, own, req, hits, calls>>

\* Time passes; Redis removes what is due.
Tick ==
    /\ \E k \in Keys : life[k] > 0
    /\ LET gone == {k \in Keys : life[k] = 1}
       IN  /\ store' = [k \in Keys |-> IF k \in gone THEN Absent ELSE store[k]]
           /\ stored' = stored \ gone /\ moved' = moved \ gone /\ immortal' = immortal \ gone
    /\ life' = [k \in Keys |-> IF life[k] > 0 THEN life[k] - 1 ELSE 0]
    /\ promise' = [k \in Keys |-> IF promise[k] > 0 THEN promise[k] - 1 ELSE 0]
    /\ UNCHANGED <<index, own, pc, req, pending, hits, calls, faults>>

-----------------------------------------------------------------------------

Step(c) ==
    \/ Exists(c) \/ Overwrite(c) \/ CreateIndex(c) \/ DeleteIndex(c)
    \/ Embed(c) \/ HSet(c) \/ Expire(c) \/ Search(c) \/ Refresh(c) \/ List(c) \/ Delete(c)

Next ==
    \/ \E c \in Callers : Step(c) \/ \E r \in Requests : Begin(c, r)
    \/ Tick

Spec == Init /\ [][Next]_vars

-----------------------------------------------------------------------------

\* Two prompts with their filters, joined, read the same.
Shared(k) ==
    \E p, q \in Prompts, t, u \in Filters :
        <<p, t>> # <<q, u>> /\ EntryId(p, t) = k /\ EntryId(q, u) = k

\* A Check with a filter returns only answers written for the filter's tenant, though
\* tenants store and update the same prompts; but for an entry that an Update gave to
\* another tenant, and one whose id another prompt has too.
TenantIsolation ==
    \A c \in Callers : \A h \in hits[c] :
        req[c].op = "check" /\ req[c].tenant # NoFilter =>
            h.hash.answer \in {req[c].tenant, Nobody} \/ h.moved \/ Shared(h.key)

\* An entry that was dropped, cleared, deleted or expired is not served until a Store,
\* or an Update that is given a vector, writes it again: another Update that comes too
\* late writes it back into its key and no more, also when the index is dropped and made
\* again over it.
NothingRemovedIsServed == \A c \in Callers : \A h \in hits[c] : h.stored

\* Every hash written under a TTL expires, also one an Update brought back or a
\* cache without a TTL wrote over, unless the command that would expire it is lost
\* or about to come.
EntriesExpire ==
    \A k \in Keys :
        Present(k) /\ life[k] = 0 =>
            k \in immortal \/ \E c \in Callers : pc[c] = "expire" /\ Own(c) = k /\ TTLOf(c) > 0

\* StoreOptions: "TTL overrides the cache default for this entry": until the
\* override is over, or the entry is dropped or written again, it is there.
OverrideHolds == \A k \in Keys : promise[k] > 0 => life[k] >= promise[k]
=============================================================================
