------------------------------- MODULE History -------------------------------
(***************************************************************************)
(* MessageHistory and SemanticMessageHistory (extensions/history): messages   *)
(* of several sessions in one index, added in pipelines and read back by time *)
(* or by relevance.  SemanticMessageHistory has every method of the other; a  *)
(* MessageHistory is one whose embeddings never fail.  A step is one command,  *)
(* or one reading of the clock.  Tool calls and metadata are left out, and so  *)
(* are the distances that order relevant messages; Count changes nothing.     *)
(***************************************************************************)
EXTENDS Integers, FiniteSets, SequencesExt

CONSTANTS Clients, Sessions, Roles, Contents,
          SessionOf(_),   \* SessionOf(h): the session of h's history
          Relevant(_),    \* Relevant(d): contents at a distance of at most d, in
                          \* tenths, from the prompts asked
          DefaultThreshold,
          Ids,            \* ids that callers give their messages: their own, or read before
          NoId,           \* the empty id
          Requests,       \* the calls they make, a subset of Request
          FullHistory,    \* messages that Messages reads at most, 1000 in the code
          MaxTime,        \* bound: readings of the clock that differ
          MaxMessages,    \* bound: messages stamped
          MaxCalls,       \* bound: calls begun in a behaviour
          MaxFaults       \* bound: commands lost

Now == 0   \* the time of a message that has none yet

\* validRoles; "oracle" stands for the others.
ValidRoles == Roles \ {"oracle"}

Message == [role : Roles, content : Contents, id : Ids \union {NoId}, ts : Nat]
Query   == [topK : Int, session : Sessions, roles : SUBSET Roles]

Request ==
    [op : {"add", "store"}, messages : Seq(Message), session : Sessions]
        \union [op : {"recent"}, query : Query]
        \union [op : {"relevant"}, query : Query, fallBack : BOOLEAN, threshold : Int]
        \union [op : {"drop"}, id : Ids \union {NoId}]
        \union [op : {"messages", "clear", "delete"}]
        \union [op : {"set_threshold"}, threshold : Int]
        \union [op : {"new"}, threshold : Int, overwrite : BOOLEAN]

ASSUME HistoryAssumption ==
    /\ Requests \subseteq Request
    /\ \A q \in Requests : q.op = "store" =>
          /\ Len(q.messages) = 2
          /\ q.messages[1].role = "user" /\ q.messages[2].role = "llm"
          /\ \A i \in 1..2 : q.messages[i].id = NoId /\ q.messages[i].ts = Now
    /\ \A h \in Clients : SessionOf(h) \in Sessions
    /\ DefaultThreshold \in Int
    /\ NoId \notin Ids \union 1..MaxMessages
    /\ FullHistory \in Nat \ {0} /\ MaxTime \in Nat \ {0}
    /\ MaxMessages \in Nat /\ MaxCalls \in Nat /\ MaxFaults \in Nat

\* makeEntryID: session, time and eight random digits, taken never to repeat.  A caller
\* that has read a message may give its id to another one.
Generated == 1..MaxMessages
Keys      == Ids \union Generated
Entry     == [key : Keys, session : Sessions, role : Roles, content : Contents, ts : Nat]

VARIABLES
    index,     \* whether the index exists
    entries,   \* the hashes in Redis, at most one for each key
    threshold, \* threshold[h]: the relevance threshold of h's history
    now,       \* the clock, as far as a float64 of seconds tells times apart
    pc, req,
    queue,     \* messages h has stamped and not sent
    target,    \* the key h's Drop deletes
    shown,     \* what h's last read returned
    lastId, calls, faults,
    removed,   \* history: keys deleted, or whose HSET Redis refused
    given,     \* history: keys that callers gave the messages they added
    exchanges  \* history: <<p, a>> for the prompt p and answer a of a Store

vars == <<index, entries, threshold, now, pc, req, queue, target, shown, lastId, calls, faults,
          removed, given, exchanges>>

Labels == {"idle", "ok", "err", "embed", "stamp", "hset", "hset_err", "recent", "latest",
           "relevant", "del", "messages", "clear", "delete", "new", "dropindex", "create"}

TypeOK ==
    /\ index \in BOOLEAN
    /\ entries \subseteq Entry
    /\ \A e, f \in entries : e.key = f.key => e = f
    /\ threshold \in [Clients -> Int]
    /\ now \in 1..MaxTime
    /\ pc \in [Clients -> Labels]
    /\ \A h \in Clients :
          /\ pc[h] # "idle" => req[h] \in Requests
          /\ queue[h] \in Seq(Entry) /\ shown[h] \in Seq(Entry)
          /\ \A i \in DOMAIN queue[h] : queue[h][i].role \in ValidRoles
    /\ target \in [Clients -> Keys \union {NoId}]
    /\ lastId \in 0..MaxMessages /\ calls \in Nat /\ faults \in Nat
    /\ removed \subseteq Keys /\ given \subseteq Keys
    /\ exchanges \subseteq Keys \X Keys

Init ==
    /\ index = TRUE /\ entries = {} /\ now = 1
    /\ threshold = [h \in Clients |-> DefaultThreshold]
    /\ pc = [h \in Clients |-> "idle"]
    /\ req = [h \in Clients |-> [op |-> "none"]]
    /\ queue = [h \in Clients |-> <<>>]
    /\ target = [h \in Clients |-> NoId]
    /\ shown = [h \in Clients |-> <<>>]
    /\ lastId = 0 /\ calls = 0 /\ faults = 0
    /\ removed = {} /\ given = {} /\ exchanges = {}

Goto(h, label) == pc' = [pc EXCEPT ![h] = label] /\ UNCHANGED faults

Fault(h, label) ==
    /\ faults < MaxFaults
    /\ faults' = faults + 1
    /\ pc' = [pc EXCEPT ![h] = label]

\* The command, or its reply, is lost.
Lose(h) == Fault(h, "err")

\* Time passes, or too little of it for two readings to differ.
Tick ==
    /\ now < MaxTime
    /\ now' = now + 1
    /\ UNCHANGED <<index, entries, threshold, pc, req, queue, target, shown, lastId, calls, faults,
                   removed, given, exchanges>>

Refused(q) ==
    q.op \in {"recent", "relevant"} /\ (q.query.topK < 0 \/ ~q.query.roles \subseteq ValidRoles)

\* A generated id is known to who has read the message, and nobody guesses one.
Known(id) == id \in Generated => id \in {e.key : e \in entries} \union removed

KnowsIds(q) ==
    /\ q.op = "add" => \A m \in ToSet(q.messages) : Known(m.id)
    /\ q.op = "drop" => Known(q.id)

First(q) ==
    CASE q.op = "set_threshold" -> "ok"
      [] q.op \in {"add", "store", "relevant"} -> "embed"
      [] q.op = "drop" -> IF q.id = NoId THEN "latest" ELSE "del"
      [] OTHER -> q.op

Begin(h, q) ==
    /\ pc[h] \in {"idle", "ok", "err"} /\ calls < MaxCalls /\ KnowsIds(q)
    /\ calls' = calls + 1
    /\ req' = [req EXCEPT ![h] = q]
    /\ queue' = [queue EXCEPT ![h] = <<>>]
    /\ target' = [target EXCEPT ![h] = IF q.op = "drop" THEN q.id ELSE NoId]
    /\ shown' = [shown EXCEPT ![h] = <<>>]
    /\ threshold' = [threshold EXCEPT ![h] = IF q.op = "set_threshold" THEN q.threshold ELSE @]
    /\ Goto(h, IF Refused(q) THEN "err" ELSE First(q))
    /\ UNCHANGED <<index, entries, now, lastId, removed, given, exchanges>>

-----------------------------------------------------------------------------
(* AddMessages: the contents are embedded, then each message gets its time     *)
(* and id, then all are sent in one pipeline.                                  *)

Embed(h) ==
    /\ pc[h] = "embed"
    /\ Goto(h, "err") \/ Goto(h, IF req[h].op = "relevant" THEN "relevant" ELSE "stamp")
    /\ UNCHANGED <<index, entries, threshold, now, req, queue, target, shown, lastId, calls,
                   removed, given, exchanges>>

\* Mutant: roles are not checked.
StampAnyRole(h) ==
    /\ pc[h] = "stamp" /\ lastId < MaxMessages
    /\ LET batch == req[h].messages
           m     == batch[Len(queue[h]) + 1]
           entry == [key |-> lastId + 1, session |-> req[h].session, role |-> m.role,
                     content |-> m.content, ts |-> IF m.ts = Now THEN now ELSE m.ts]
       IN  IF batch = <<>> THEN Goto(h, "ok") /\ UNCHANGED <<queue, lastId, given, exchanges>>
           ELSE /\ queue' = [queue EXCEPT ![h] = Append(@, entry)]
                /\ lastId' = lastId + 1
                /\ Goto(h, IF Len(queue[h]) + 1 < Len(batch) THEN "stamp" ELSE "hset")
                /\ UNCHANGED <<given, exchanges>>
    /\ UNCHANGED <<index, entries, threshold, now, req, target, shown, calls, removed>>

\* messageFields of the next message.
Stamp(h) ==
    /\ pc[h] = "stamp" /\ lastId < MaxMessages
    /\ LET batch == req[h].messages
           n     == Len(queue[h]) + 1
           m     == batch[n]
           key   == IF m.id = NoId THEN lastId + 1 ELSE m.id
           entry == [key |-> key, session |-> req[h].session, role |-> m.role,
                     content |-> m.content, ts |-> IF m.ts = Now THEN now ELSE m.ts]
       IN  CASE batch = <<>> -> Goto(h, "ok") /\ UNCHANGED <<queue, lastId, given, exchanges>>
             [] batch # <<>> /\ m.role \notin ValidRoles ->
                    Goto(h, "err") /\ UNCHANGED <<queue, lastId, given, exchanges>>
             [] OTHER ->
                    /\ queue' = [queue EXCEPT ![h] = Append(@, entry)]
                    /\ lastId' = lastId + 1
                    /\ Goto(h, IF n < Len(batch) THEN "stamp" ELSE "hset")
                    /\ given' = IF m.id = NoId THEN given ELSE given \union {m.id}
                    /\ exchanges' = IF req[h].op = "store" /\ n = 2
                                    THEN exchanges \union {<<queue[h][1].key, key>>}
                                    ELSE exchanges
    /\ UNCHANGED <<index, entries, threshold, now, req, target, shown, calls, removed>>

\* The pipeline goes on behind a command that was answered, to "ok", or to "err" when
\* Redis refused one.
After(rest, label) ==
    IF rest # <<>> THEN label ELSE IF label = "hset" THEN "ok" ELSE "err"

\* Mutant: the last message of the batch is sent first.
HSetLastFirst(h) ==
    /\ pc[h] \in {"hset", "hset_err"}
    /\ LET e    == Last(queue[h])
           rest == Front(queue[h])
       IN  /\ entries' = {f \in entries : f.key # e.key} \union {e}
           /\ queue' = [queue EXCEPT ![h] = rest]
           /\ Goto(h, After(rest, pc[h]))
    /\ UNCHANGED <<index, threshold, now, req, target, shown, lastId, calls, removed, given,
                   exchanges>>

\* The next command of the pipeline is executed, is refused by Redis, or is not sent.
HSet(h) ==
    /\ pc[h] \in {"hset", "hset_err"}
    /\ LET e    == Head(queue[h])
           rest == Tail(queue[h])
       IN  \/ /\ entries' = {f \in entries : f.key # e.key} \union {e}
              /\ queue' = [queue EXCEPT ![h] = rest]
              /\ Goto(h, After(rest, pc[h])) \/ Lose(h)
              /\ UNCHANGED removed
           \/ /\ removed' = removed \union {e.key}
              /\ queue' = [queue EXCEPT ![h] = rest]
              /\ Fault(h, After(rest, "hset_err"))
              /\ UNCHANGED entries
           \/ Lose(h) /\ UNCHANGED <<entries, queue, removed>>
    /\ UNCHANGED <<index, threshold, now, req, target, shown, lastId, calls, given, exchanges>>

-----------------------------------------------------------------------------
(* Reading.  Equal times are in any order.                                     *)

IsChronological(s) == \A i, j \in DOMAIN s : i < j => s[i].ts <= s[j].ts

Of(session, roles) ==
    {e \in entries : e.session = session /\ (roles = {} \/ e.role \in roles)}

TopK(q) == IF q.topK = 0 THEN 5 ELSE q.topK

\* FT.SEARCH sorted by time: the first k, or the last k in the order of time.
ByTime(S) == {s \in SetToSeqs(S) : IsChronological(s)}
Earliest(S, k) == {SubSeq(s, 1, IF k < Len(s) THEN k ELSE Len(s)) : s \in ByTime(S)}

\* Mutant: sorted upwards, then reversed.
LatestUpwards(S, k) == {Reverse(s) : s \in Earliest(S, k)}

Latest(S, k) ==
    {SubSeq(s, IF k < Len(s) THEN Len(s) - k + 1 ELSE 1, Len(s)) : s \in ByTime(S)}

\* A search without an index is an error.
Reply(h, answers) ==
    \/ /\ index
       /\ \E s \in answers : shown' = [shown EXCEPT ![h] = s]
       /\ Goto(h, "ok")
    \/ ~index /\ Goto(h, "err") /\ UNCHANGED shown
    \/ Lose(h) /\ UNCHANGED shown

\* GetRecent, also as the fallback of GetRelevant.
Recent(h) ==
    /\ pc[h] = "recent"
    /\ LET q == req[h].query IN Reply(h, Latest(Of(q.session, q.roles), TopK(q)))
    /\ UNCHANGED <<index, entries, threshold, now, req, queue, target, lastId, calls, removed,
                   given, exchanges>>

Messages(h) ==
    /\ pc[h] = "messages"
    /\ Reply(h, Earliest(Of(SessionOf(h), {}), FullHistory))
    /\ UNCHANGED <<index, entries, threshold, now, req, queue, target, lastId, calls, removed,
                   given, exchanges>>

GetRelevant(h) ==
    /\ pc[h] = "relevant"
    /\ LET q    == req[h].query
           d    == IF req[h].threshold = 0 THEN threshold[h] ELSE req[h].threshold
           near == {e \in Of(q.session, q.roles) : e.content \in Relevant(d)}
       IN  IF d < 0 THEN (Goto(h, "err") \/ Lose(h)) /\ UNCHANGED shown   \* Redis refuses it
           ELSE IF index /\ near = {} /\ req[h].fallBack
           THEN (Goto(h, "recent") \/ Lose(h)) /\ UNCHANGED shown
           ELSE Reply(h, UNION {SetToSeqs(S) : S \in {T \in SUBSET near :
                    IF Cardinality(near) <= TopK(q) THEN T = near ELSE Cardinality(T) = TopK(q)}})
    /\ UNCHANGED <<index, entries, threshold, now, req, queue, target, lastId, calls, removed,
                   given, exchanges>>

-----------------------------------------------------------------------------
(* Removing.                                                                   *)

\* Drop without an id: GetRecent of one message, then its DEL.
ReadLatest(h) ==
    /\ pc[h] = "latest"
    /\ \/ /\ index
          /\ \E s \in Latest(Of(SessionOf(h), {}), 1) :
                /\ target' = [target EXCEPT ![h] = IF s = <<>> THEN NoId ELSE s[1].key]
                /\ Goto(h, IF s = <<>> THEN "ok" ELSE "del")
       \/ ~index /\ Goto(h, "err") /\ UNCHANGED target
       \/ Lose(h) /\ UNCHANGED target
    /\ UNCHANGED <<index, entries, threshold, now, req, queue, shown, lastId, calls, removed,
                   given, exchanges>>

RemoveKeys(S) ==
    /\ entries' = {e \in entries : e.key \notin S}
    /\ removed' = removed \union {e.key : e \in {f \in entries : f.key \in S}}

Del(h) ==
    /\ pc[h] = "del"
    /\ \/ RemoveKeys({target[h]}) /\ (Goto(h, "ok") \/ Lose(h))
       \/ Lose(h) /\ UNCHANGED <<entries, removed>>
    /\ UNCHANGED <<index, threshold, now, req, queue, target, shown, lastId, calls, given,
                   exchanges>>

\* SearchIndex.Clear, and Delete with its documents (SearchIndex has their commands).
\* They are of all sessions.
Empty(h) ==
    /\ pc[h] \in {"clear", "delete"}
    /\ \/ /\ index
          /\ RemoveKeys(Keys)
          /\ index' = (pc[h] = "clear")
          /\ Goto(h, "ok") \/ Lose(h)
       \/ ~index /\ Goto(h, "err") /\ UNCHANGED <<index, entries, removed>>
       \/ Lose(h) /\ UNCHANGED <<index, entries, removed>>
    /\ UNCHANGED <<threshold, now, req, queue, target, shown, lastId, calls, given,
                   exchanges>>

\* NewSemanticMessageHistory: SearchIndex.Create, which leaves the messages; those added
\* without an index are in the next one, which has their prefix.
Made(h) ==
    /\ Goto(h, "ok")
    /\ threshold' = [threshold EXCEPT ![h] =
                       IF req[h].threshold = 0 THEN DefaultThreshold ELSE req[h].threshold]

\* FT._LIST.
New(h) ==
    /\ pc[h] = "new"
    /\ \/ index /\ ~req[h].overwrite /\ Made(h)
       \/ index /\ req[h].overwrite /\ Goto(h, "dropindex") /\ UNCHANGED threshold
       \/ ~index /\ Goto(h, "create") /\ UNCHANGED threshold
       \/ Lose(h) /\ UNCHANGED threshold
    /\ UNCHANGED <<index, entries, now, req, queue, target, shown, lastId, calls, removed, given,
                   exchanges>>

\* FT.DROPINDEX, which fails when another client was faster.
DropIndex(h) ==
    /\ pc[h] = "dropindex"
    /\ \/ index' = FALSE /\ (Goto(h, IF index THEN "create" ELSE "err") \/ Lose(h))
       \/ Lose(h) /\ UNCHANGED index
    /\ UNCHANGED <<entries, threshold, now, req, queue, target, shown, lastId, calls, removed,
                   given, exchanges>>

\* FT.CREATE, likewise.
Create(h) ==
    /\ pc[h] = "create"
    /\ \/ ~index /\ index' = TRUE /\ Made(h)
       \/ index /\ Goto(h, "err") /\ UNCHANGED <<index, threshold>>
       \/ index' \in {index, TRUE} /\ Lose(h) /\ UNCHANGED threshold
    /\ UNCHANGED <<entries, now, req, queue, target, shown, lastId, calls, removed, given,
                   exchanges>>

-----------------------------------------------------------------------------

Step(h) ==
    \/ Embed(h) \/ Stamp(h) \/ HSet(h)
    \/ Recent(h) \/ Messages(h) \/ GetRelevant(h)
    \/ ReadLatest(h) \/ Del(h) \/ Empty(h)
    \/ New(h) \/ DropIndex(h) \/ Create(h)

Next ==
    \/ \E h \in Clients : Step(h) \/ \E q \in Requests : Begin(h, q)
    \/ Tick

Spec == Init /\ [][Next]_vars

-----------------------------------------------------------------------------

Shown(h) == {shown[h][i].key : i \in DOMAIN shown[h]}

\* However a Store is cut off, Messages has no answer without its prompt, unless the prompt
\* was deleted or refused by Redis, or a caller has added a message under the id of one of
\* the two, which may move it to another session: the pipeline is in order, and a failing
\* one is not rolled back.  (Equal times may push the prompt behind the answer, so this
\* needs the whole history.)
NoAnswerWithoutPrompt ==
    \A h \in Clients : req[h].op = "messages" /\ Len(shown[h]) < FullHistory =>
        \A x \in exchanges :
            x[2] \in Shown(h) \ given => x[1] \in Shown(h) \union removed \union given

\* What a read returns, by itself or by falling back, is of the session and the roles
\* asked for, no more than asked for, and, when it is read by time, in the order of
\* time and without a gap: nothing it leaves out is newer than what it has.
RecentIsLatest ==
    [][\A h \in Clients :
          pc[h] \in {"recent", "relevant"} /\ pc'[h] = "ok" =>
              LET q      == req[h].query
                  answer == shown'[h]
                  mine   == {e \in entries : /\ e.session = q.session
                                             /\ q.roles # {} => e.role \in q.roles}
              IN  /\ ToSet(answer) \subseteq mine /\ Len(answer) <= TopK(q)
                  /\ answer = <<>> => mine = {} \/ (req[h].op = "relevant" /\ ~req[h].fallBack)
                  /\ pc[h] = "recent" =>
                        /\ IsChronological(answer)
                        /\ \A e \in mine \ ToSet(answer), f \in ToSet(answer) : e.ts <= f.ts]_vars
=============================================================================
