------------------------------ MODULE LangCache ------------------------------
(***************************************************************************)
(* The LangCache client (extensions/cache/langcache.go): calls to a remote  *)
(* semantic cache over HTTP, each a loop of attempts with a backoff between  *)
(* them.  The hosted vectorizers and rerankers run the same loop             *)
(* (vectorize/http.go, rerank/rerank.go) against services without state, the *)
(* vectorizers once for each batch of texts.                                 *)
(* A request the client gave up on may still be executed, later than the     *)
(* attempts that follow it.                                                  *)
(***************************************************************************)
EXTENDS Integers, FiniteSets, Sequences

CONSTANTS Callers,
          Attributes,   \* attribute values of entries
          Requests,     \* the calls the callers make
          NumResults,   \* hits that Check returns at most
          BatchSize,    \* texts in a request of EmbedMany (10 by default)
          MaxRetries,   \* attempts per request (3 by default)
          MaxCalls      \* bound: calls begun in a behaviour

All == "all"    \* the empty attribute filter
Filters == Attributes \union {All}

Request ==
    [op : {"store"}, attr : Attributes, wellFormed : BOOLEAN]   \* no empty prompt or response
        \union [op : {"check", "deletequery"}, attr : Filters, wellFormed : BOOLEAN]
        \union [op : {"deletebyid"}, id : Nat, wellFormed : BOOLEAN]
        \union [op : {"flush"}, wellFormed : BOOLEAN]
        \union [op : {"embed", "rank"}, n : Nat, wellFormed : {TRUE}]  \* n texts or documents

ASSUME LangCacheAssumption ==
    /\ Requests \subseteq Request
    /\ All \notin Attributes
    /\ NumResults \in Nat \ {0} /\ BatchSize \in Nat \ {0} /\ MaxRetries \in Nat \ {0} /\ MaxCalls \in Nat

NoRequest == [op |-> "none"]
Entry     == [id : Nat \ {0}, attr : Attributes]

\* What a call returns besides its error: ids of entries, a count, the texts whose
\* vectors are in a list, or the documents in an order.
Value == [ids : SUBSET Nat, count : Nat, list : Seq(Int)]
Nil   == [ids |-> {}, count |-> 0, list |-> <<>>]

\* 2xx, without a body, with one that cannot be decoded; 429 or 5xx; any other
Statuses == {"ok", "empty", "garbled", "retryable", "refused"}
NoReply  == [status |-> "none", value |-> Nil]

VARIABLES
    entries, lastId,  \* the service
    wire,             \* requests sent and neither executed nor lost yet
    pc,               \* "idle", "send", "wait", "backoff"; "ok", "err"
    req, call, attempt,
    cancelled,        \* whether the context of c's call is done
    reply,            \* the reply to c's last request
    out,              \* the batches EmbedMany has the vectors of
    value,            \* what c's call returned
    calls,
    executed,         \* history: how often c's request (its batch) was executed
    created,          \* history: ids of the entries they created
    due               \* history: entries there when c's call began

service == <<entries, lastId>>
client  == <<pc, attempt, reply, out, value>>
context == <<req, call, cancelled, calls>>
history == <<executed, created, due>>
vars    == <<service, wire, client, context, history>>

Message == [call : Nat, attempt : Nat, done : Nat, from : Callers, req : Requests]

TypeOK ==
    /\ entries \in SUBSET Entry /\ lastId \in Nat
    /\ wire \in SUBSET Message
    /\ pc \in [Callers -> {"idle", "send", "wait", "backoff", "ok", "err"}]
    /\ req \in [Callers -> Requests \union {NoRequest}]
    /\ call \in [Callers -> Nat] /\ attempt \in [Callers -> 0..MaxRetries - 1]
    /\ cancelled \in [Callers -> BOOLEAN]
    /\ reply \in [Callers -> [status : Statuses, value : Value] \union {NoReply}]
    /\ out \in [Callers -> Seq(Int)] /\ value \in [Callers -> Value]
    /\ calls \in Nat
    /\ executed \in [Callers -> Nat]
    /\ created \in [Callers -> SUBSET Nat]
    /\ due \in [Callers -> SUBSET Entry]

Init ==
    /\ entries = {} /\ lastId = 0 /\ wire = {}
    /\ pc = [c \in Callers |-> "idle"]
    /\ req = [c \in Callers |-> NoRequest]
    /\ call = [c \in Callers |-> 0] /\ attempt = [c \in Callers |-> 0]
    /\ cancelled = [c \in Callers |-> FALSE]
    /\ reply = [c \in Callers |-> NoReply]
    /\ out = [c \in Callers |-> <<>>] /\ value = [c \in Callers |-> Nil]
    /\ calls = 0
    /\ executed = [c \in Callers |-> 0]
    /\ created = [c \in Callers |-> {}]
    /\ due = [c \in Callers |-> {}]

-----------------------------------------------------------------------------
(* The loop of do and postJSON. *)

\* No texts, no documents: nothing to ask.
Empty(r) == r.op \in {"embed", "rank"} /\ r.n = 0

\* The request c is at, of the texts behind those it has vectors of.
Current(c) == [call |-> call[c], attempt |-> attempt[c], done |-> Len(out[c]),
               from |-> c, req |-> req[c]]

\* Whether m is one of the attempts at that request.
IsOf(m, c) == m.from = c /\ m.call = call[c] /\ m.done = Len(out[c])

\* A batch has BatchSize texts, the last one the rest.
Size(r, done) == IF done + BatchSize < r.n THEN BatchSize ELSE r.n - done
More(c)       == req[c].op = "embed" /\ Len(out[c]) + BatchSize < req[c].n

Begin(c, r) ==
    /\ pc[c] \in {"idle", "ok", "err"} /\ calls < MaxCalls
    /\ calls' = calls + 1
    /\ call' = [call EXCEPT ![c] = calls + 1]
    /\ pc' = [pc EXCEPT ![c] = IF ~r.wellFormed THEN "err"
                                ELSE IF Empty(r) THEN "ok" ELSE "send"]
    /\ req' = [req EXCEPT ![c] = r]
    /\ attempt' = [attempt EXCEPT ![c] = 0]
    /\ cancelled' = [cancelled EXCEPT ![c] = FALSE]
    /\ reply' = [reply EXCEPT ![c] = NoReply]
    /\ out' = [out EXCEPT ![c] = <<>>]
    /\ value' = [value EXCEPT ![c] = Nil]
    /\ executed' = [executed EXCEPT ![c] = 0]
    /\ created' = [created EXCEPT ![c] = {}]
    /\ due' = [due EXCEPT ![c] = entries]
    /\ UNCHANGED <<service, wire>>

\* The context of a call may be done at any time.
Cancel(c) ==
    /\ pc[c] \in {"send", "wait", "backoff"} /\ ~cancelled[c]
    /\ cancelled' = [cancelled EXCEPT ![c] = TRUE]
    /\ UNCHANGED <<service, wire, client, req, call, calls, history>>

\* Mutant: one attempt too many.
RetryOnceMore(c) ==
    IF attempt[c] < MaxRetries
    THEN /\ pc' = [pc EXCEPT ![c] = "backoff"]
         /\ attempt' = [attempt EXCEPT ![c] = @ + 1]
    ELSE pc' = [pc EXCEPT ![c] = "err"] /\ UNCHANGED attempt

\* continue: another attempt after a backoff, or the last error.
Retry(c) ==
    IF attempt[c] + 1 < MaxRetries
    THEN /\ pc' = [pc EXCEPT ![c] = "backoff"]
         /\ attempt' = [attempt EXCEPT ![c] = @ + 1]
    ELSE pc' = [pc EXCEPT ![c] = "err"] /\ UNCHANGED attempt

\* The timer and a done context may both be ready: select takes either.
Backoff(c) ==
    /\ pc[c] = "backoff"
    /\ \/ pc' = [pc EXCEPT ![c] = "send"]
       \/ cancelled[c] /\ pc' = [pc EXCEPT ![c] = "err"]
    /\ UNCHANGED <<service, wire, attempt, reply, out, value, context, history>>

\* net/http sends nothing under a context that is done.
Send(c) ==
    /\ pc[c] = "send"
    /\ IF cancelled[c]
       THEN Retry(c) /\ UNCHANGED <<wire, reply>>
       ELSE /\ wire' = wire \union {Current(c)}
            /\ reply' = [reply EXCEPT ![c] = NoReply]
            /\ pc' = [pc EXCEPT ![c] = "wait"]
            /\ UNCHANGED attempt
    /\ UNCHANGED <<service, out, value, context, history>>

\* No connection, a timeout, the context done, or a body that cannot be read.
Fail(c) ==
    /\ pc[c] = "wait"
    /\ Retry(c)
    /\ reply' = [reply EXCEPT ![c] = NoReply]
    /\ UNCHANGED <<service, wire, out, value, context, history>>

\* A delete by id and a flush do not decode the body; the cache takes an empty one for a
\* result without anything, which the vectorizers and rerankers cannot decode.
Decoded(c) == \/ reply[c].status = "ok"
              \/ reply[c].status = "empty" /\ req[c].op \notin {"embed", "rank"}
              \/ reply[c].status = "garbled" /\ req[c].op \in {"deletebyid", "flush"}

\* As many vectors as texts; no document that was not sent.
Accepted(c) ==
    LET list == reply[c].value.list
    IN  /\ req[c].op = "embed" => Len(list) = Size(req[c], Len(out[c]))
        /\ req[c].op = "rank" => \A i \in DOMAIN list : list[i] \in 0..req[c].n - 1

Arrived(c) == pc[c] = "wait" /\ reply[c] # NoReply

\* Mutants: every reply with a body is a result; only refusals end the call.
ReceiveAnything(c) ==
    /\ Arrived(c)
    /\ value' = [value EXCEPT ![c] = reply[c].value]
    /\ pc' = [pc EXCEPT ![c] = IF reply[c].status = "refused" THEN "err" ELSE "ok"]
    /\ UNCHANGED <<service, wire, attempt, reply, out, context, history>>

ReceiveRetriesRefusals(c) ==
    /\ Arrived(c)
    /\ IF reply[c].status = "ok"
       THEN /\ value' = [value EXCEPT ![c] = reply[c].value]
            /\ pc' = [pc EXCEPT ![c] = "ok"]
            /\ UNCHANGED attempt
       ELSE Retry(c) /\ UNCHANGED value
    /\ UNCHANGED <<service, wire, reply, out, context, history>>

Receive(c) ==
    /\ Arrived(c)
    /\ IF reply[c].status = "retryable" THEN Retry(c) /\ UNCHANGED value
       ELSE IF Decoded(c) /\ Accepted(c)
       THEN /\ ~More(c)
            /\ value' = [value EXCEPT ![c] = [reply[c].value EXCEPT !.list = out[c] \o @]]
            /\ pc' = [pc EXCEPT ![c] = "ok"]
            /\ UNCHANGED attempt
       ELSE pc' = [pc EXCEPT ![c] = "err"] /\ UNCHANGED <<attempt, value>>
    /\ UNCHANGED <<service, wire, reply, out, context, history>>

\* EmbedMany goes on to its next batch, with a loop of its own.
NextBatch(c) ==
    /\ Arrived(c) /\ Decoded(c) /\ Accepted(c) /\ More(c)
    /\ out' = [out EXCEPT ![c] = @ \o reply[c].value.list]
    /\ pc' = [pc EXCEPT ![c] = "send"]
    /\ attempt' = [attempt EXCEPT ![c] = 0]
    /\ reply' = [reply EXCEPT ![c] = NoReply]
    /\ executed' = [executed EXCEPT ![c] = 0]
    /\ UNCHANGED <<service, wire, value, context, created, due>>

-----------------------------------------------------------------------------
(* The service. *)

Matching(f) == {e \in entries : f \in {All, e.attr}}

\* What a request deletes.
Victims(r) ==
    CASE r.op = "deletequery" -> Matching(r.attr)
      [] r.op = "deletebyid"  -> {e \in entries : e.id = r.id}
      [] r.op = "flush"       -> entries
      [] OTHER                -> {}

\* Check keeps the first NumResults of the entries the service answers with.
Hits(r) == {S \in SUBSET {e.id : e \in Matching(r.attr)} : Cardinality(S) <= NumResults}

\* Some vectors of the batch may be missing, and a reranker may name any documents.
Lists(m) ==
    CASE m.req.op = "embed" ->
           {[i \in 1..k |-> m.done + i] : k \in {Size(m.req, m.done), Size(m.req, m.done) - 1}}
      [] m.req.op = "rank" -> UNION {[1..k -> -1..m.req.n] : k \in 0..NumResults}
      [] OTHER -> {<<>>}

\* The fields of a result may be absent: the id of a new entry, the number of the deleted.
Values(m) ==
    {[ids |-> ids, list |-> list, count |-> count] :
        ids \in IF m.req.op = "check" THEN Hits(m.req)
                ELSE IF m.req.op = "store" THEN {{lastId + 1}, {}} ELSE {{}},
        count \in IF m.req.op = "deletequery" THEN {Cardinality(Victims(m.req)), 0} ELSE {0},
        list \in Lists(m)}

Reply(m, status, v) ==
    reply' = [c \in Callers |-> IF pc[c] = "wait" /\ Current(c) = m
                               THEN [status |-> status, value |-> v] ELSE reply[c]]

Of(m, f, x) == [c \in Callers |-> IF IsOf(m, c) THEN x ELSE f[c]]

Execute(m) ==
    /\ wire' = wire \ {m}
    /\ executed' = Of(m, executed, executed[m.from] + 1)
    /\ IF m.req.op = "store"
       THEN /\ lastId' = lastId + 1
            /\ entries' = entries \union {[id |-> lastId + 1, attr |-> m.req.attr]}
            /\ created' = Of(m, created, created[m.from] \union {lastId + 1})
       ELSE entries' = entries \ Victims(m.req) /\ UNCHANGED <<lastId, created>>
    /\ due' = [c \in Callers |-> due[c] \ Victims(m.req)]
    /\ \/ \E v \in Values(m) : Reply(m, "ok", v)
       \/ \E status \in {"empty", "garbled", "retryable"} : Reply(m, status, Nil)
    /\ UNCHANGED <<pc, attempt, out, value, context>>

\* Throttled, failing, or refused without being executed; or lost on its way.
Reject(m) ==
    /\ wire' = wire \ {m}
    /\ (\E status \in {"retryable", "refused"} : Reply(m, status, Nil)) \/ UNCHANGED reply
    /\ UNCHANGED <<service, pc, attempt, out, value, context, history>>

-----------------------------------------------------------------------------

Step(c) == Backoff(c) \/ Send(c) \/ Fail(c) \/ Receive(c) \/ NextBatch(c)

Next ==
    \/ \E c \in Callers : Step(c) \/ Cancel(c) \/ \E r \in Requests : Begin(c, r)
    \/ \E m \in wire : Execute(m) \/ Reject(m)

Spec == Init /\ [][Next]_vars

-----------------------------------------------------------------------------
(* Thresholds: distances in hundredths, on the scale of Redis or normalized, as  *)
(* similarities in two hundredths.                                              *)

similarityThreshold(scale, d) == IF scale = "redis" THEN 200 - d ELSE 200 - 2 * d
distanceFromSimilarity(scale, s) == IF scale = "redis" THEN 200 - s ELSE 100 - s \div 2

\* What the service asks of hits: the similarity, unless the request leaves it out,
\* as a similarity of zero is left out.
SentThreshold(scale, d, default) ==
    IF d > 0 /\ similarityThreshold(scale, d) # 0 THEN similarityThreshold(scale, d) ELSE default

-----------------------------------------------------------------------------

Matches(e, r) ==
    \/ r.op = "deletequery" /\ r.attr \in {All, e.attr}
    \/ r.op = "deletebyid" /\ e.id = r.id
    \/ r.op = "flush"

Succeeded(c) ==
    /\ executed[c] > 0 \/ Empty(req[c])
    /\ req[c].op = "store" => created[c] # {} /\ value[c].ids \subseteq created[c]
    /\ \A e \in due[c] : ~Matches(e, req[c])
    /\ req[c].op = "embed" => value[c].list = [i \in 1..req[c].n |-> i]
    /\ req[c].op = "rank" => \A i \in DOMAIN value[c].list : value[c].list[i] \in 0..req[c].n - 1

\* A call that returned without error was executed by the service, whichever of
\* its attempts got through: Store created an entry, and the one it names, if the
\* reply had an id, is one this call created, not another caller's; DeleteQuery,
\* DeleteByID and Flush leave none of the entries that were there when they began.
\* EmbedMany has one vector of every text, in their order, though a batch is
\* answered short, late or empty; Rank names only documents it was given.
SuccessIsExecuted == \A c \in Callers : pc[c] = "ok" => Succeeded(c)

\* Transient errors are "retried up to MaxRetries times" (vectorizers.adoc): a
\* request asks the service, and so stores or deletes, at most that often, counting
\* what is or will be executed after the client gave up on it.
OnTheWire(c) == {m \in wire : IsOf(m, c)}

AtMostMaxRetries ==
    \A c \in Callers : executed[c] + Cardinality(OnTheWire(c)) <= MaxRetries

\* Nothing is sent for a call whose context is done, or that was answered by a
\* result or a refusal ("authCalls = 1 (no retries on 4xx)", langcache_test.go).
NoRequestAfterVerdict ==
    [][\A m \in wire' \ wire :
          ~cancelled[m.from] /\ reply[m.from].status \in {"none", "retryable"}]_vars
=============================================================================
