----------------------------- MODULE IndexReads -----------------------------
(***************************************************************************)
(* The reading operations of SearchIndex (index.go, batch.go) beside the      *)
(* writing ones of module SearchIndex: Paginate, BatchSearch and FetchMany.   *)
(* Search, Query, Count, Aggregate and Hybrid are a BatchSearch of one query, *)
(* and Fetch a FetchMany of one id.  A step is one command.  What a query       *)
(* finds is computed, with module Queries, from the string it is rendered to.  *)
(***************************************************************************)
EXTENDS SearchIndex, Queries

CONSTANTS Readers,       \* goroutines or processes that read
          ReadRequests,  \* the calls they make, a subset of ReadRequest
          MaxReads       \* bound: reads begun in a behaviour

\* A string of one alternative: whoever writes a union himself puts it in parentheses.
IsOne(s) == s = <<s[1]>> /\ s[1] \in Seq(Range(s[1]))

\* A filter is rendered to one alternative, which matches what the filter means, and of a
\* union with "*" what is left of it.  (Theorems ConditionsAreRendered and FiltersCombine
\* are that every builder's is.)
Rendered(e) ==
    /\ IsOne(e.string) /\ e.narrowed \in BOOLEAN
    /\ Matching(e.string) \subseteq e.means /\ e.means \subseteq Documents
    /\ ~e.narrowed => e.means = Matching(e.string)

IsQuery(q) ==
    /\ DOMAIN q = DOMAIN NewFilterQuery(q.filter)
    /\ q.offset \in Nat /\ q.num \in Nat /\ q.k \in Nat
    /\ IsOne(q.base) /\ Rendered(q.filter)
    /\ q.nearest # "" => \A k \in Keys : Contents[k][q.nearest] \subseteq Int

\* stop is the page at which Paginate's callback returns an error, 0 for none.
IsReadRequest(q) ==
    \/ q.op = "paginate" /\ IsQuery(q.query) /\ q.size \in Int /\ q.stop \in Nat
    \/ /\ q.op = "search" /\ q.size \in Int
       /\ q.queries \in Seq(Range(q.queries)) /\ \A i \in DOMAIN q.queries : IsQuery(q.queries[i])
    \/ q.op = "fetch" /\ q.ids \in Seq(Keys)

\* Contents[k] is what the clients that load key k write there.
ASSUME ReadsAssumption == /\ \A q \in ReadRequests : IsReadRequest(q)
                          /\ DOMAIN Contents = Keys /\ MaxReads \in Nat

\* The orders of a set of documents, as the pairs of one before another.
Orders(S) ==
    {o \in SUBSET (S \X S) :
        /\ \A a, b \in S : <<a, b>> \in o <=> a # b /\ <<b, a>> \notin o
        /\ \A a, b, c \in S : <<a, b>> \in o /\ <<b, c>> \in o => <<a, c>> \in o}

VARIABLES
    order,    \* the order of the documents in the replies of the index
    rpc,      \* the command a reader is about to send; "idle", "ok", "err"
    rreq,
    at,       \* offset of the next page; number of queries or ids answered
    answers,  \* the replies so far: pages, results, documents
    reads,
    kept,     \* history: the documents there since the read began
    quiet     \* history: since then none was removed or written again

readers == <<rpc, rreq, at, answers, reads>>
rvars   == <<vars, order, readers, kept, quiet>>

ReadsTypeOK ==
    /\ TypeOK
    /\ order \in Orders(Tracked)
    /\ rpc \in [Readers -> Finished \union {"paginate", "search", "fetch"}]
    /\ \A r \in Readers : rpc[r] # "idle" => rreq[r] \in ReadRequests
    /\ at \in [Readers -> Nat] /\ reads \in Nat
    /\ answers \in [Readers -> Seq(SUBSET Keys)]
    /\ kept \in [Readers -> SUBSET Present] /\ quiet \in [Readers -> BOOLEAN]

ReadsInit ==
    /\ Init
    /\ order \in Orders(Tracked)
    /\ rpc = [r \in Readers |-> "idle"]
    /\ rreq = [r \in Readers |-> NoRequest]
    /\ at = [r \in Readers |-> 0]
    /\ answers = [r \in Readers |-> <<>>]
    /\ reads = 0
    /\ kept = [r \in Readers |-> {}]
    /\ quiet = [r \in Readers |-> FALSE]

-----------------------------------------------------------------------------
(* A write puts its document behind the others, which is where an index         *)
(* without sorting has it; a new index has them in any order.                  *)

Reorder(W) ==
    /\ LET old == Tracked' \ W
       IN  order' \in IF index = "live"
                      THEN {(order \intersect (old \X old)) \union (old \X (Tracked' \intersect W))}
                      ELSE Orders(Tracked')
    /\ kept' = [r \in Readers |-> kept[r] \intersect Present']
    /\ quiet' = [r \in Readers |->
                    /\ quiet[r] /\ index' = index
                    /\ Present \subseteq Present' \ W]
    /\ UNCHANGED readers

Writes(c) == IF pc[c] = "hset" THEN {req[c].keys[next[c]]} ELSE {}

Write(c) == RoundTrip(c) /\ Reorder(Writes(c))

NoWrite ==
    /\ \/ \E c \in Clients : LoseRequest(c) \/ \E q \in Requests : Begin(c, q)
       \/ \E k \in Keys : Evict(k)
    /\ Reorder({})

-----------------------------------------------------------------------------

ReadBegin(r, q) ==
    /\ rpc[r] \in Finished /\ reads < MaxReads
    /\ reads' = reads + 1
    /\ rpc' = [rpc EXCEPT ![r] =
                  IF q.op = "paginate" /\ q.size <= 0 THEN "err"
                  ELSE IF \/ q.op = "search" /\ q.queries = <<>>
                          \/ q.op = "fetch" /\ q.ids = <<>> THEN "ok"
                  ELSE q.op]
    /\ rreq' = [rreq EXCEPT ![r] = q]
    /\ at' = [at EXCEPT ![r] = 0]
    /\ answers' = [answers EXCEPT ![r] = <<>>]
    /\ kept' = [kept EXCEPT ![r] = Present]
    /\ quiet' = [quiet EXCEPT ![r] = TRUE]
    /\ UNCHANGED <<vars, order>>

\* The reader has the answer, has n more behind it, and goes on at label.
Answered(r, answer, n, label) ==
    /\ answers' = [answers EXCEPT ![r] = Append(@, answer)]
    /\ at' = [at EXCEPT ![r] = @ + n]
    /\ rpc' = [rpc EXCEPT ![r] = label]
    /\ UNCHANGED <<vars, order, rreq, reads, kept, quiet>>

\* It returns without a further answer.
Returns(r, label) ==
    /\ rpc' = [rpc EXCEPT ![r] = label]
    /\ UNCHANGED <<vars, order, rreq, at, answers, reads, kept, quiet>>

LoseRead(r) == rpc[r] \notin Finished /\ Returns(r, "err")

\* Paginate sets offset and limit of the caller's query, nothing else.
PageAt(r) == Reply([rreq[r].query EXCEPT !.offset = at[r], !.num = rreq[r].size], Tracked, order)

\* Mutant: a full page is taken to be the last.
PageStopsWhenFull(r) ==
    /\ rpc[r] = "paginate"
    /\ LET p == PageAt(r)
       IN  IF index # "live" \/ ~WellFormed(rreq[r].query) THEN Returns(r, "err")
           ELSE IF p = {} THEN Returns(r, "ok")
           ELSE Answered(r, p, rreq[r].size,
                         IF rreq[r].stop = Len(answers[r]) + 1 THEN "err" ELSE "ok")

Page(r) ==
    /\ rpc[r] = "paginate"
    /\ LET p == PageAt(r)
       IN  IF index # "live" \/ ~WellFormed(rreq[r].query) THEN Returns(r, "err")
           ELSE IF p = {} THEN Returns(r, "ok")
           ELSE Answered(r, p, rreq[r].size,
                         IF rreq[r].stop = Len(answers[r]) + 1 THEN "err"
                         ELSE IF Cardinality(p) < rreq[r].size THEN "ok" ELSE "paginate")

\* The queries sent with the next one, when that is the first of its pipeline.
Pipeline(r) ==
    LET size == IF rreq[r].size > 0 THEN rreq[r].size ELSE 10
    IN  IF at[r] % size = 0 THEN (at[r] + 1)..(at[r] + size) \intersect DOMAIN rreq[r].queries
        ELSE {}

After(r, last) == IF at[r] + 1 = last THEN "ok" ELSE rpc[r]

\* Mutant: a malformed query is left out of its pipeline.
QueryLeavesOut(r) ==
    /\ rpc[r] = "search"
    /\ LET qs == rreq[r].queries
       IN  IF index # "live" THEN Returns(r, "err")
           ELSE IF WellFormed(qs[at[r] + 1])
                THEN Answered(r, Reply(qs[at[r] + 1], Tracked, order), 1, After(r, Len(qs)))
           ELSE /\ at' = [at EXCEPT ![r] = @ + 1]
                /\ rpc' = [rpc EXCEPT ![r] = After(r, Len(qs))]
                /\ UNCHANGED <<vars, order, rreq, answers, reads, kept, quiet>>

Query(r) ==
    /\ rpc[r] = "search"
    /\ LET qs == rreq[r].queries
       IN  IF index # "live" \/ \E i \in Pipeline(r) : ~WellFormed(qs[i])
           THEN Returns(r, "err")
           ELSE Answered(r, Reply(qs[at[r] + 1], Tracked, order), 1, After(r, Len(qs)))

\* HGETALL, which needs no index; a document that is not there is nil.
Fetch(r) ==
    /\ rpc[r] = "fetch"
    /\ LET ids == rreq[r].ids
       IN  Answered(r, {ids[at[r] + 1]} \intersect Present, 1, After(r, Len(ids)))

Read(r) == Page(r) \/ Query(r) \/ Fetch(r)

ReadsNext ==
    \/ \E c \in Clients : Write(c)
    \/ NoWrite
    \/ \E r \in Readers : Read(r) \/ LoseRead(r) \/ \E q \in ReadRequests : ReadBegin(r, q)

ReadsSpec == ReadsInit /\ [][ReadsNext]_rvars

-----------------------------------------------------------------------------

\* The documents that a query is meant for, whatever it is rendered to: those its filter
\* means that have what it asks for besides.
Asked(q) ==
    {k \in Keys : /\ k \in q.filter.means /\ Matches(q.base, k)
                  /\ q.nearest # "" => Contents[k][q.nearest] # {}}

\* The pages of a Paginate that returned without error have every document it asked for
\* that the index had when it began, if meanwhile documents were added but none removed
\* or written again; and none twice, unless the query sorts by distance, where a document
\* added at the front moves the others on to the next page.  (A search for the K nearest
\* has no pages behind these, and a filter that lost the "*" of a union asks for less than
\* it means.)
PaginateVisitsAll ==
    \A r \in Readers :
      rpc[r] = "ok" /\ rreq[r].op = "paginate" /\ quiet[r] /\ ~IsKNN(rreq[r].query) =>
        /\ ~rreq[r].query.filter.narrowed =>
               kept[r] \intersect Asked(rreq[r].query) \subseteq UNION ToSet(answers[r])
        /\ rreq[r].query.nearest = "" =>
               \A i, j \in DOMAIN answers[r] : i # j => answers[r][i] \intersect answers[r][j] = {}

\* A page that may lack something: full, of an offset, or all of the K nearest; or of a
\* filter in which a "*" was left out of a union, which filter.go:75 says it is.
MayLack(q, p) == \/ Cardinality(p) = Limit(q) \/ q.offset # 0
                 \/ IsKNN(q) /\ Cardinality(p) = q.k
                 \/ q.filter.narrowed

\* "In query order", "matches the input order": what BatchSearch and FetchMany return
\* has, at each place, what was asked there and nothing else, whatever is malformed,
\* however the queries share pipelines, and however filters are combined, negated and
\* joined to a text or a range; and it lacks a document that was there all along only if
\* it is a full page, or its filter a union from which "*" was dropped, though others are
\* added and removed between the commands.
AnswersAreInOrder ==
    \A r \in Readers : rpc[r] = "ok" /\ rreq[r].op \in {"search", "fetch"} =>
        LET n        == IF rreq[r].op = "fetch" THEN Len(rreq[r].ids) ELSE Len(rreq[r].queries)
            asked(i) == IF rreq[r].op = "fetch" THEN {rreq[r].ids[i]} ELSE Asked(rreq[r].queries[i])
            lacks(i) == rreq[r].op = "search" /\ MayLack(rreq[r].queries[i], answers[r][i])
        IN  /\ Len(answers[r]) = n
            /\ \A i \in 1..n : /\ answers[r][i] \subseteq asked(i)
                               /\ ~lacks(i) => asked(i) \intersect kept[r] \subseteq answers[r][i]
=============================================================================
