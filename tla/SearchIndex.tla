---------------------------- MODULE SearchIndex ----------------------------
(***************************************************************************)
(* The state-changing operations of SearchIndex (index.go): Create and     *)
(* Delete of the index, Load, DropKeys, ExpireKeys and Clear of its        *)
(* documents, run by several goroutines or processes at once against one   *)
(* Redis.  A step is one round trip, or one command of a pipeline: the     *)
(* pipelines of index.go are not transactions, so commands of other        *)
(* clients run in between, and a connection that breaks leaves a prefix.   *)
(***************************************************************************)
EXTENDS Integers, Sequences, FiniteSets

CONSTANTS Clients,    \* goroutines or processes calling the index
          Keys,       \* full Redis keys under the index's prefix
          Requests,   \* the calls they may make, a subset of Request
          PageSize,   \* documents per FT.SEARCH page of Clear (500 in the code)
          BatchSize,  \* records per pipeline of Load (200 by default)
          MaxCalls,   \* bound: calls begun in a behaviour
          MaxFaults   \* bound: round trips whose request or reply is lost

Request ==
    [op : {"create"}, overwrite : BOOLEAN, drop : BOOLEAN,
     args : {"none", "refused", "accepted"}]   \* what SchemaArgs yields, and Redis thinks of it
        \union [op : {"delete"}, drop : BOOLEAN]
        \union [op : {"load"}, keys : Seq(Keys), ttl : BOOLEAN,
                wellFormed : BOOLEAN, invalid : Nat]
        \union [op : {"dropkeys"}, keys : SUBSET Keys]
        \union [op : {"expire"}, keys : Seq(Keys)]
        \union [op : {"clear"}]

ASSUME ConstantsAssumption ==
    /\ Requests \subseteq Request
    /\ \A r \in Requests : r.op = "load" => r.invalid <= Len(r.keys)   \* the first, or 0
    /\ IsFiniteSet(Keys) /\ IsFiniteSet(Clients)
    /\ PageSize \in Nat \ {0}
    /\ BatchSize \in Nat \ {0}
    /\ MaxCalls \in Nat
    /\ MaxFaults \in Nat

NoRequest == [op |-> "none"]

VARIABLES
    index,    \* "live", or why it is absent: "never", "deleted", "replacing", "abandoned"
    docs,     \* docs[k]: "none", "plain" (no expiration) or "ttl"
    pc,       \* pc[c]: the round trip c is about to make; "idle", "ok", "err" between calls
    req,      \* req[c]: the call c is making
    next,     \* next[c]: record (Load) or key (ExpireKeys) the pipeline is at
    page,     \* page[c]: keys of the last FT.SEARCH page of Clear
    total,    \* total[c]: Clear's count of deleted records
    calls, faults,   \* calls begun and round trips lost so far
    written,  \* history: keys HSET by the current Load of c
    writer,   \* history: writer[k], the client whose HSET of k was the last
    due,      \* history: keys present when Clear began and not written since
    ledger    \* history: documents created less documents removed uncounted

server  == <<index, docs>>
history == <<written, writer, due, ledger>>
vars    == <<index, docs, pc, req, next, page, total, calls, faults,
             written, writer, due, ledger>>

Present == {k \in Keys : docs[k] # "none"}
\* FT.CREATE indexes every key under the prefix, and FT.SEARCH needs the index.
Tracked == IF index = "live" THEN Present ELSE {}

Finished == {"idle", "ok", "err"}
Labels   == Finished \union
            {"exists", "overwrite", "create", "drop", "batch", "hset", "expire", "del",
             "search", "clear"}

TypeOK ==
    /\ index \in {"never", "live", "deleted", "replacing", "abandoned"}
    /\ docs \in [Keys -> {"none", "plain", "ttl"}]
    /\ pc \in [Clients -> Labels]
    /\ req \in [Clients -> Requests \union {NoRequest}]
    /\ next \in [Clients -> Nat]
    /\ page \in [Clients -> SUBSET Keys]
    /\ total \in [Clients -> Nat]
    /\ calls \in Nat /\ faults \in Nat
    /\ written \in [Clients -> SUBSET Keys]
    /\ writer \in [Keys -> Clients \union {"nobody"}]
    /\ due \in [Clients -> SUBSET Keys]
    /\ ledger \in Int

Init ==
    /\ index \in {"never", "live"}
    /\ docs \in [Keys -> {"none", "plain"}]
    /\ pc = [c \in Clients |-> "idle"]
    /\ req = [c \in Clients |-> NoRequest]
    /\ next = [c \in Clients |-> 1]
    /\ page = [c \in Clients |-> {}]
    /\ total = [c \in Clients |-> 0]
    /\ calls = 0 /\ faults = 0
    /\ written = [c \in Clients |-> {}]
    /\ writer = [k \in Keys |-> "nobody"]
    /\ due = [c \in Clients |-> {}]
    /\ ledger = Cardinality(Present)

-----------------------------------------------------------------------------
(* Round trips.  Answer: the command ran and c goes on at label, or its    *)
(* reply is lost and the call returns the error.                           *)

Goto(c, label) == pc' = [pc EXCEPT ![c] = label] /\ UNCHANGED faults

LoseReply(c) ==
    /\ faults < MaxFaults
    /\ faults' = faults + 1
    /\ pc' = [pc EXCEPT ![c] = "err"]

Answer(c, label) == Goto(c, label) \/ LoseReply(c)

\* The request itself is lost, the context is cancelled, or the process dies.
LoseRequest(c) ==
    /\ pc[c] \notin Finished \union {"batch"}
    /\ LoseReply(c)
    /\ index' = IF pc[c] = "create" /\ index = "replacing" THEN "abandoned" ELSE index
    /\ UNCHANGED <<docs, req, next, page, total, calls, history>>

RemoveDocs(S) ==
    docs' = [k \in Keys |-> IF k \in S THEN "none" ELSE docs[k]]

-----------------------------------------------------------------------------
(* Starting a call. *)

\* A malformed Load, a Create of a schema that has no arguments, and a DropKeys or
\* ExpireKeys of nothing make no round trip.
FirstTrip == [create |-> "exists", delete |-> "drop", load |-> "batch",
              dropkeys |-> "del", expire |-> "expire", clear |-> "search"]

First(r) ==
    IF \/ r.op = "load" /\ ~r.wellFormed
       \/ r.op = "create" /\ r.args = "none" THEN "err"
    ELSE IF \/ r.op = "dropkeys" /\ r.keys = {}
            \/ r.op = "expire" /\ r.keys = <<>>
    THEN "ok"
    ELSE FirstTrip[r.op]

Begin(c, r) ==
    /\ pc[c] \in Finished
    /\ calls < MaxCalls
    /\ calls' = calls + 1
    /\ Goto(c, First(r))
    /\ req' = [req EXCEPT ![c] = r]
    /\ next' = [next EXCEPT ![c] = 1]
    /\ page' = [page EXCEPT ![c] = {}]
    /\ total' = [total EXCEPT ![c] = 0]
    /\ written' = [written EXCEPT ![c] = {}]
    /\ due' = [due EXCEPT ![c] = Present]
    /\ ledger' = ledger - total[c]
    /\ UNCHANGED <<server, writer>>

-----------------------------------------------------------------------------
(* Create: FT._LIST, then FT.DROPINDEX when overwriting, then FT.CREATE,   *)
(* three separate round trips.                                             *)

Exists(c) ==
    /\ pc[c] = "exists"
    /\ Answer(c, IF index # "live" THEN "create"
                 ELSE IF req[c].overwrite THEN "overwrite" ELSE "ok")
    /\ UNCHANGED <<server, req, next, page, total, calls, history>>

\* Mutant: DD is always sent.
DropIndexAlwaysDD(c, reason, label) ==
    IF index # "live"
    THEN Goto(c, "err") /\ UNCHANGED <<server, ledger>>
    ELSE /\ Answer(c, label)
         /\ index' = IF pc'[c] = "err" /\ reason = "replacing" THEN "abandoned" ELSE reason
         /\ RemoveDocs(Tracked)
         /\ ledger' = ledger - Cardinality(Tracked)

\* FT.DROPINDEX [DD], the body of Delete; an unknown index is ErrIndexNotFound.
DropIndex(c, reason, label) ==
    IF index # "live"
    THEN Goto(c, "err") /\ UNCHANGED <<server, ledger>>
    ELSE /\ Answer(c, label)
         /\ index' = IF pc'[c] = "err" /\ reason = "replacing" THEN "abandoned" ELSE reason
         /\ RemoveDocs(IF req[c].drop THEN Tracked ELSE {})
         /\ ledger' = IF req[c].drop THEN ledger - Cardinality(Tracked) ELSE ledger

\* Mutant: an overwriting Create returns once the old index is dropped.
OverwriteOnlyDrops(c) ==
    /\ pc[c] = "overwrite"
    /\ DropIndex(c, "replacing", "ok")
    /\ UNCHANGED <<req, next, page, total, calls, written, writer, due>>

Overwrite(c) ==
    /\ pc[c] = "overwrite"
    /\ DropIndex(c, "replacing", "create")
    /\ UNCHANGED <<req, next, page, total, calls, written, writer, due>>

Delete(c) ==
    /\ pc[c] = "drop"
    /\ DropIndex(c, "deleted", "ok")
    /\ UNCHANGED <<req, next, page, total, calls, written, writer, due>>

CreateIndex(c) ==
    /\ pc[c] = "create"
    /\ IF index = "live" \/ req[c].args = "refused"
       THEN Goto(c, "err")   \* FT.CREATE refuses an existing index and a bad definition
       ELSE Answer(c, "ok")
    /\ index' = IF index = "live" \/ req[c].args # "refused" THEN "live"
                ELSE IF index = "replacing" THEN "abandoned" ELSE index
    /\ UNCHANGED <<docs, req, next, page, total, calls, history>>

-----------------------------------------------------------------------------
(* Load: the records of a batch are validated, then sent as one pipeline   *)
(* of HSET and, with a TTL, EXPIRE commands.                               *)

BatchEnd(r, i) == IF i + BatchSize - 1 < Len(r.keys) THEN i + BatchSize - 1 ELSE Len(r.keys)

\* validateRecord: a field of record i has a value that its type does not take.
Invalid(r, i) == r.invalid = i

\* Mutant: each record is validated only when the batch starts with it.
BatchValidatesFirst(c) ==
    /\ pc[c] = "batch"
    /\ Goto(c, IF next[c] > Len(req[c].keys) THEN "ok"
               ELSE IF Invalid(req[c], next[c]) THEN "err" ELSE "hset")
    /\ UNCHANGED <<server, req, next, page, total, calls, history>>

Batch(c) ==
    /\ pc[c] = "batch"
    /\ Goto(c, IF next[c] > Len(req[c].keys) THEN "ok"
               ELSE IF \E i \in next[c]..BatchEnd(req[c], next[c]) : Invalid(req[c], i) THEN "err"
               ELSE "hset")
    /\ UNCHANGED <<server, req, next, page, total, calls, history>>

\* Where the pipeline goes once the commands of record i are done.
Advance(r, i) ==
    IF r.op = "expire" THEN IF i = Len(r.keys) THEN "ok" ELSE "expire"
    ELSE IF i = Len(r.keys) \/ i % BatchSize = 0 THEN "batch" ELSE "hset"

HSet(c) ==
    /\ pc[c] = "hset"
    /\ LET k == req[c].keys[next[c]]
       IN  /\ docs' = [docs EXCEPT ![k] = IF @ = "none" THEN "plain" ELSE @]
           /\ written' = [written EXCEPT ![c] = @ \union {k}]
           /\ writer' = [writer EXCEPT ![k] = c]
           /\ due' = [d \in Clients |-> due[d] \ {k}]
           /\ ledger' = IF docs[k] = "none" THEN ledger + 1 ELSE ledger
    /\ IF req[c].ttl
       THEN Answer(c, "expire") /\ UNCHANGED next
       ELSE /\ Answer(c, Advance(req[c], next[c]))
            /\ next' = [next EXCEPT ![c] = @ + 1]
    /\ UNCHANGED <<index, req, page, total, calls>>

\* Mutant: EXPIRE never changes an expiration-free document (EXPIRE ... XX).
ExpireOnlyRenews(c) ==
    /\ pc[c] = "expire"
    /\ Answer(c, Advance(req[c], next[c]))
    /\ next' = [next EXCEPT ![c] = @ + 1]
    /\ UNCHANGED <<server, req, page, total, calls, history>>

\* EXPIRE of one key, in Load's pipeline or in ExpireKeys'.
Expire(c) ==
    /\ pc[c] = "expire"
    /\ LET k == req[c].keys[next[c]]
       IN docs' = [docs EXCEPT ![k] = IF @ = "none" THEN @ ELSE "ttl"]
    /\ Answer(c, Advance(req[c], next[c]))
    /\ next' = [next EXCEPT ![c] = @ + 1]
    /\ UNCHANGED <<index, req, page, total, calls, history>>

\* Redis removes a document whose expiration is due.
Evict(k) ==
    /\ docs[k] = "ttl"
    /\ docs' = [docs EXCEPT ![k] = "none"]
    /\ ledger' = ledger - 1
    /\ UNCHANGED <<index, pc, req, next, page, total, calls, faults, written, writer, due>>

-----------------------------------------------------------------------------
(* DropKeys is one DEL.  Clear repeats FT.SEARCH "*" LIMIT 0 PageSize and  *)
(* DEL of the page until a page is short; an error returns the total so far. *)

\* Mutants: the keys sent are counted, not DEL's reply; DEL is sent ids without
\* their prefix, which match no key; an error's count of -1 is added.
DelCountsSent(c, S, label) ==
    /\ RemoveDocs(S)
    /\ Answer(c, label)
    /\ total' = IF pc'[c] = "err" THEN total ELSE [total EXCEPT ![c] = @ + Cardinality(S)]
    /\ ledger' = IF pc'[c] = "err" THEN ledger - Cardinality(S \intersect Present) ELSE ledger

DelByBareId(c, S, label) ==
    Answer(c, label) /\ UNCHANGED <<docs, total, ledger>>

DelAddsErrorCount(c, S, label) ==
    /\ RemoveDocs(S)
    /\ Answer(c, label)
    /\ total' = [total EXCEPT ![c] =
                    IF pc'[c] = "err" THEN @ - 1 ELSE @ + Cardinality(S \intersect Present)]
    /\ ledger' = IF pc'[c] = "err" THEN ledger - Cardinality(S \intersect Present) ELSE ledger

Del(c, S, label) ==
    /\ RemoveDocs(S)
    /\ Answer(c, label)
    /\ total' = IF pc'[c] = "err" THEN total
                ELSE [total EXCEPT ![c] = @ + Cardinality(S \intersect Present)]
    /\ ledger' = IF pc'[c] = "err" THEN ledger - Cardinality(S \intersect Present) ELSE ledger

DropKeys(c) ==
    /\ pc[c] = "del"
    /\ Del(c, req[c].keys, "ok")
    /\ UNCHANGED <<index, req, next, page, calls, written, writer, due>>

IsPage(p) ==
    /\ p \subseteq Tracked
    /\ IF Cardinality(Tracked) <= PageSize THEN p = Tracked ELSE Cardinality(p) = PageSize

ClearSearch(c) ==
    /\ pc[c] = "search"
    /\ IF index # "live"
       THEN Goto(c, "err") /\ UNCHANGED page
       ELSE \E p \in SUBSET Tracked :
                /\ IsPage(p)
                /\ page' = [page EXCEPT ![c] = p]
                /\ Answer(c, IF p = {} THEN "ok" ELSE "clear")
    /\ UNCHANGED <<server, req, next, total, calls, history>>

\* Mutant: the last page is taken to be one of at most PageSize documents.
ClearDelStopsAtFullPage(c) ==
    /\ pc[c] = "clear"
    /\ Del(c, page[c], IF Cardinality(page[c]) <= PageSize THEN "ok" ELSE "search")
    /\ UNCHANGED <<index, req, next, page, calls, written, writer, due>>

ClearDel(c) ==
    /\ pc[c] = "clear"
    /\ Del(c, page[c], IF Cardinality(page[c]) < PageSize THEN "ok" ELSE "search")
    /\ UNCHANGED <<index, req, next, page, calls, written, writer, due>>

-----------------------------------------------------------------------------

RoundTrip(c) ==
    \/ Exists(c) \/ Overwrite(c) \/ Delete(c) \/ CreateIndex(c)
    \/ Batch(c) \/ HSet(c) \/ Expire(c)
    \/ DropKeys(c) \/ ClearSearch(c) \/ ClearDel(c)

Next ==
    \/ \E c \in Clients : RoundTrip(c) \/ LoseRequest(c) \/ \E r \in Requests : Begin(c, r)
    \/ \E k \in Keys : Evict(k)

Spec == Init /\ [][Next]_vars

\* A command sent to Redis is answered or fails: every call in progress moves on.
FairSpec == Spec /\ \A c \in Clients : WF_vars(RoundTrip(c))

-----------------------------------------------------------------------------
(* What the operations promise. *)

\* Clear "removes all keys tracked by the index" (index.go, Clear): once it has
\* returned without error, no document that was there when it began, and that
\* nobody wrote since, is left, however many pages it took and whatever other
\* clients loaded, dropped or expired meanwhile.
ClearIsComplete ==
    \A c \in Clients :
        req[c].op = "clear" /\ pc[c] = "ok" => due[c] \intersect Present = {}

SumOf(f) == LET S[D \in SUBSET Clients] ==
                  IF D = {} THEN 0
                  ELSE LET d == CHOOSE x \in D : TRUE IN f[d] + S[D \ {d}]
          IN  S[Clients]

\* Clear and DropKeys return "the number of deleted records": two calls that
\* race for the same documents never both count one, and a count never includes
\* a document that expired or was dropped with the index.
EveryRemovalCountedOnce == Cardinality(Present) + SumOf(total) = ledger

\* Load either returns all its keys, every record written, or stops at the batch
\* of the first invalid record having written exactly the batches before it.
LoadWritesWholeBatches ==
    \A c \in Clients :
        LET r == req[c]
            Upto(n) == {r.keys[i] : i \in 1..n}
        IN  r.op = "load" =>
              /\ pc[c] = "ok" => /\ written[c] = Upto(Len(r.keys))
                                 /\ r.wellFormed /\ r.invalid = 0
              /\ pc[c] = "err" /\ faults = 0 =>
                    written[c] = IF ~r.wellFormed THEN {}
                                 ELSE Upto(((r.invalid - 1) \div BatchSize) * BatchSize)

\* "TTL sets an expiration on each written key" (LoadOptions): a document of a
\* Load with TTL that returned is gone or expires, unless another client wrote
\* it again in the meantime.
LoadSetsTTL ==
    \A c \in Clients :
        req[c].op = "load" /\ pc[c] = "ok" /\ req[c].ttl =>
            \A k \in written[c] : writer[k] = c => docs[k] # "plain"

MayRemove(r, k) ==
    \/ r.op = "clear"
    \/ r.op = "dropkeys" /\ k \in r.keys
    \/ r.op = "delete" /\ r.drop
    \/ r.op = "create" /\ r.overwrite /\ r.drop

LossIsAsked ==
    /\ \A k \in Keys : docs[k] = "plain" /\ docs'[k] = "none" =>
           \E c \in Clients : pc'[c] # pc[c] /\ MayRemove(req[c], k)
    /\ index = "live" /\ index' # "live" =>
           \E c \in Clients :
               /\ pc'[c] # pc[c]
               /\ \/ req[c].op = "delete"
                  \/ req[c].op = "create" /\ req[c].overwrite

\* Only a call that asks for it destroys: a document without expiration is
\* removed by Clear, DropKeys or a dropping Delete or Create, and the index by
\* Delete or an overwriting Create; a Create without Overwrite destroys nothing.
DestroysOnlyWhenAsked == [][LossIsAsked]_vars

\* However overwriting Creates race (two of them dropping and creating in any
\* order), the index is missing in the middle of an overwrite only while some
\* client is still about to create it: none of them leaves Redis without the
\* index unless a Delete, a lost round trip or a definition that Redis refuses is to
\* blame; a schema that has no arguments at all is found out before anything is dropped.
OverwriteNeverLosesIndex ==
    index = "replacing" => \E c \in Clients : pc[c] = "create"

\* Clear stops, with however many other clients adding documents while it runs,
\* once they stop adding.
ClearReturns ==
    \A c \in Clients : pc[c] \in {"search", "clear"} ~> pc[c] \in {"ok", "err"}
=============================================================================
