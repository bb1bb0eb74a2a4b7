-------------------------- MODULE LangCache_proofs --------------------------
(***************************************************************************)
(* Theorems about LangCache for any number of callers, calls, attempts and    *)
(* texts in a batch.                                                          *)
(***************************************************************************)
EXTENDS LangCache, FiniteSetTheorems, TLAPS

Running == {"send", "wait", "backoff"}

\* A call that began has its request, and its texts in order up to its batch.
CallsHaveRequests ==
    \A c \in Callers :
        /\ call[c] <= calls /\ (pc[c] # "idle" => req[c] \in Requests)
        /\ out[c] = [i \in 1..Len(out[c]) |-> i]
        /\ req[c].op # "embed" => out[c] = <<>>
        /\ pc[c] \in Running /\ req[c].op = "embed" => Len(out[c]) < req[c].n

\* What is on the wire was sent by a call that began, at or before its batch.
WireIsOld ==
    /\ IsFiniteSet(wire) /\ IsFiniteSet(entries)
    /\ \A m \in wire :
          /\ m.call <= calls
          /\ m.call = call[m.from] => m.done <= Len(out[m.from])
          /\ m.req.op = "embed" => m.done < m.req.n

\* The attempts that were made at c's request.
Sent(c) == IF pc[c] \in {"send", "backoff"} THEN attempt[c] ELSE attempt[c] + 1

SentBounds == \A c \in Callers : executed[c] + Cardinality(OnTheWire(c)) <= Sent(c)

\* Another attempt follows only on no reply or one that is to be retried.
NoVerdictYet ==
    \A c \in Callers : pc[c] \in {"send", "backoff"} => reply[c].status \in {"none", "retryable"}

\* A reply with a result tells what the service did.
ReplyIsTrue(c) ==
    pc[c] = "wait" /\ reply[c].status \in {"ok", "empty", "garbled"} =>
        /\ executed[c] > 0
        /\ req[c].op = "store" => created[c] # {} /\ reply[c].value.ids \subseteq created[c]
        /\ \A e \in due[c] : ~Matches(e, req[c])
        /\ req[c].op = "embed" =>
              \E k \in Nat : reply[c].value.list = [i \in 1..k |-> Len(out[c]) + i]

RepliesAreTrue == \A c \in Callers : ReplyIsTrue(c)

DueIsThere == \A c \in Callers : due[c] \subseteq entries

IInv == /\ TypeOK /\ CallsHaveRequests /\ WireIsOld /\ SentBounds /\ NoVerdictYet
        /\ RepliesAreTrue /\ DueIsThere /\ SuccessIsExecuted

-----------------------------------------------------------------------------

\* The requests have the fields their operation needs.
LEMMA RequestFields ==
    \A r \in Requests :
        /\ r.wellFormed \in BOOLEAN
        /\ r.op \in {"embed", "rank"} => r.n \in Nat
        /\ r.op = "store" => r.attr \in Attributes
  BY LangCacheAssumption DEF Request

\* The constants, and the parts of records that are compared.
LEMMA Constants ==
    /\ BatchSize \in Nat \ {0} /\ MaxRetries \in Nat \ {0} /\ NumResults \in Nat \ {0}
    /\ NoReply.status = "none" /\ NoReply.value = Nil /\ Nil \in Value
    /\ NoRequest.op = "none"
  BY LangCacheAssumption DEF NoReply, Nil, Value, NoRequest

\* The invariant holds before the first call.
LEMMA InitIInv == Init => IInv
  <1> SUFFICES ASSUME Init PROVE IInv
    OBVIOUS
  <1> USE DEF Init
  <1>1. TypeOK
    BY Constants, FS_EmptySet DEF TypeOK, Entry, Message
  <1>2. CallsHaveRequests
    BY Constants DEF CallsHaveRequests, Running
  <1>3. WireIsOld
    BY FS_EmptySet DEF WireIsOld
  <1>4. SentBounds
    <2>1. \A c \in Callers : OnTheWire(c) = {}
      BY DEF OnTheWire
    <2>2. \A c \in Callers : executed[c] = 0 /\ Sent(c) = 1
      BY DEF Sent
    <2>3. \A c \in Callers : Cardinality(OnTheWire(c)) = 0
      BY <2>1, FS_EmptySet
    <2>4. QED
      BY <2>2, <2>3 DEF SentBounds
  <1>5. NoVerdictYet /\ RepliesAreTrue /\ DueIsThere /\ SuccessIsExecuted
    BY Constants DEF NoVerdictYet, RepliesAreTrue, ReplyIsTrue, DueIsThere,
                     SuccessIsExecuted, Succeeded
  <1>6. QED
    BY <1>1, <1>2, <1>3, <1>4, <1>5 DEF IInv

-----------------------------------------------------------------------------
(* The wire. *)

\* A call's messages on the wire are finitely many.
LEMMA WireCounts ==
    ASSUME WireIsOld, NEW c \in Callers
    PROVE  IsFiniteSet(OnTheWire(c)) /\ Cardinality(OnTheWire(c)) \in Nat
  <1>1. OnTheWire(c) \subseteq wire
    BY DEF OnTheWire
  <1>2. QED
    BY <1>1, FS_Subset, FS_CardinalityType DEF WireIsOld

\* Nothing of the wire changes for a call that stays where it is, if no message comes.
LEMMA WireUnchanged ==
    ASSUME WireIsOld, NEW c \in Callers, wire' \subseteq wire,
           call'[c] = call[c], Len(out'[c]) = Len(out[c])
    PROVE  Cardinality(OnTheWire(c)') <= Cardinality(OnTheWire(c))
  <1>1. OnTheWire(c)' \subseteq OnTheWire(c)
    BY DEF OnTheWire, IsOf
  <1>2. QED
    BY <1>1, WireCounts, FS_Subset DEF WireIsOld

\* A reply stays true while its request does, whatever is executed or deleted later.
LEMMA ReplyStays ==
    ASSUME NEW c \in Callers, ReplyIsTrue(c), executed[c] \in Nat, executed'[c] \in Nat,
           pc'[c] = "wait" => pc[c] = "wait", reply'[c] = reply[c], req'[c] = req[c],
           out'[c] = out[c], executed'[c] >= executed[c], created[c] \subseteq created'[c],
           due'[c] \subseteq due[c]
    PROVE  ReplyIsTrue(c)'
  <1> SUFFICES ASSUME pc'[c] = "wait", reply'[c].status \in {"ok", "empty", "garbled"}
               PROVE  /\ executed'[c] > 0
                      /\ req'[c].op = "store" =>
                            created'[c] # {} /\ reply'[c].value.ids \subseteq created'[c]
                      /\ \A e \in due'[c] : ~Matches(e, req'[c])
                      /\ req'[c].op = "embed" =>
                            \E k \in Nat : reply'[c].value.list = [i \in 1..k |-> Len(out'[c]) + i]
    BY DEF ReplyIsTrue, Matches
  <1>1. /\ executed[c] > 0
        /\ req[c].op = "store" => created[c] # {} /\ reply[c].value.ids \subseteq created[c]
        /\ \A e \in due[c] : ~Matches(e, req[c])
        /\ req[c].op = "embed" =>
              \E k \in Nat : reply[c].value.list = [i \in 1..k |-> Len(out[c]) + i]
    BY DEF ReplyIsTrue
  <1>2. executed'[c] > 0 /\ \A e \in due'[c] : ~Matches(e, req'[c])
    BY <1>1
  <1>3. req'[c].op = "store" =>
           created'[c] # {} /\ reply'[c].value.ids \subseteq created'[c]
    BY <1>1
  <1>4. ASSUME req'[c].op = "embed"
        PROVE  \E k \in Nat : reply'[c].value.list = [i \in 1..k |-> Len(out'[c]) + i]
    <2>1. PICK k \in Nat : reply[c].value.list = [i \in 1..k |-> Len(out[c]) + i]
      BY <1>1, <1>4
    <2>2. reply'[c].value.list = [i \in 1..k |-> Len(out'[c]) + i]
      BY <2>1
    <2>3. QED
      BY <2>2
  <1>5. QED
    BY <1>2, <1>3, <1>4

\* A success stays one, whatever is executed or deleted later.
LEMMA SuccessStays ==
    ASSUME NEW c \in Callers, Succeeded(c), executed[c] \in Nat, executed'[c] \in Nat,
           executed'[c] >= executed[c], req'[c] = req[c], value'[c] = value[c],
           created[c] \subseteq created'[c], due'[c] \subseteq due[c]
    PROVE  Succeeded(c)'
  <1>1. /\ executed[c] > 0 \/ Empty(req[c])
        /\ req[c].op = "store" => created[c] # {} /\ value[c].ids \subseteq created[c]
        /\ \A e \in due[c] : ~Matches(e, req[c])
        /\ req[c].op = "embed" => value[c].list = [i \in 1..req[c].n |-> i]
        /\ req[c].op = "rank" =>
              \A i \in DOMAIN value[c].list : value[c].list[i] \in 0..req[c].n - 1
    BY DEF Succeeded
  <1>2. /\ executed'[c] > 0 \/ Empty(req'[c])
        /\ req'[c].op = "store" => created'[c] # {} /\ value'[c].ids \subseteq created'[c]
        /\ \A e \in due'[c] : ~Matches(e, req'[c])
    BY <1>1
  <1>3. req'[c].op = "embed" => value'[c].list = [i \in 1..req'[c].n |-> i]
    BY <1>1
  <1>4. req'[c].op = "rank" =>
           \A i \in DOMAIN value'[c].list : value'[c].list[i] \in 0..req'[c].n - 1
    BY <1>1
  <1>5. QED
    BY <1>2, <1>3, <1>4 DEF Succeeded, Matches, Empty

-----------------------------------------------------------------------------
(* The steps of a caller. *)

\* What Retry leaves: another attempt after a backoff, or the end of the call.
LEMMA RetrySteps ==
    ASSUME TypeOK, NEW c \in Callers, Retry(c)
    PROVE  /\ pc' \in [Callers -> {"idle", "send", "wait", "backoff", "ok", "err"}]
           /\ attempt' \in [Callers -> 0..MaxRetries - 1]
           /\ \A d \in Callers \ {c} : pc'[d] = pc[d] /\ attempt'[d] = attempt[d]
           /\ \/ pc'[c] = "backoff" /\ attempt'[c] = attempt[c] + 1
              \/ pc'[c] = "err" /\ attempt'[c] = attempt[c]
  <1>1. attempt[c] \in 0..MaxRetries - 1 /\ MaxRetries \in Nat \ {0}
    BY Constants DEF TypeOK
  <1>2. CASE attempt[c] + 1 < MaxRetries
    <2>1. /\ pc' = [pc EXCEPT ![c] = "backoff"]
          /\ attempt' = [attempt EXCEPT ![c] = @ + 1] /\ attempt[c] + 1 \in 0..MaxRetries - 1
      BY <1>1, <1>2 DEF Retry
    <2>2. QED
      BY <2>1 DEF TypeOK
  <1>3. CASE ~(attempt[c] + 1 < MaxRetries)
    BY <1>3 DEF TypeOK, Retry
  <1>4. QED
    BY <1>2, <1>3

\* A call begins with nothing of it sent.
LEMMA BeginKeepsIInv ==
    ASSUME IInv, NEW c \in Callers, NEW r \in Requests, Begin(c, r)
    PROVE  IInv'
  <1> USE DEF IInv
  <1>0. r.wellFormed \in BOOLEAN /\ (r.op \in {"embed", "rank"} => r.n \in Nat)
    BY RequestFields
  <1>1. TypeOK'
    BY <1>0, Constants DEF TypeOK, Begin, service
  <1>2. /\ out'[c] = <<>> /\ req'[c] = r /\ executed'[c] = 0 /\ attempt'[c] = 0
        /\ call'[c] = calls + 1 /\ calls' = calls + 1 /\ reply'[c] = NoReply
        /\ pc'[c] \in {"err", "ok", "send"} /\ (pc'[c] = "ok" => Empty(r))
        /\ (pc'[c] = "send" => ~Empty(r)) /\ value'[c] = Nil /\ due'[c] = entries
        /\ wire' = wire /\ entries' = entries
    BY DEF TypeOK, Begin, service
  <1>3. \A d \in Callers \ {c} :
           /\ out'[d] = out[d] /\ req'[d] = req[d] /\ executed'[d] = executed[d]
           /\ attempt'[d] = attempt[d] /\ call'[d] = call[d] /\ reply'[d] = reply[d]
           /\ pc'[d] = pc[d] /\ value'[d] = value[d] /\ due'[d] = due[d]
           /\ created'[d] = created[d]
    BY DEF TypeOK, Begin
  <1>4. CallsHaveRequests'
    <2>1. calls \in Nat /\ \A d \in Callers : call[d] \in Nat /\ call[d] <= calls
      BY DEF TypeOK, CallsHaveRequests
    <2>2. \A d \in Callers : call'[d] <= calls'
      BY <1>2, <1>3, <2>1
    <2>3. /\ req'[c] \in Requests /\ out'[c] = [i \in 1..Len(out'[c]) |-> i]
          /\ (pc'[c] \in Running /\ req'[c].op = "embed" => Len(out'[c]) < req'[c].n)
      BY <1>0, <1>2 DEF Running, Empty
    <2>4. ASSUME NEW d \in Callers \ {c}
          PROVE  /\ (pc'[d] # "idle" => req'[d] \in Requests)
                 /\ out'[d] = [i \in 1..Len(out'[d]) |-> i]
                 /\ (req'[d].op # "embed" => out'[d] = <<>>)
                 /\ (pc'[d] \in Running /\ req'[d].op = "embed" => Len(out'[d]) < req'[d].n)
      BY <1>3 DEF CallsHaveRequests
    <2>5. QED
      BY <1>2, <2>2, <2>3, <2>4 DEF CallsHaveRequests
  <1>5. WireIsOld'
    <2>1. \A m \in wire : m.call \in Nat /\ m.from \in Callers
      BY DEF TypeOK, Message
    <2>2. ASSUME NEW m \in wire'
          PROVE  /\ m.call <= calls' /\ (m.call = call'[m.from] => m.done <= Len(out'[m.from]))
                 /\ (m.req.op = "embed" => m.done < m.req.n)
      <3>1. m \in wire /\ m.call <= calls /\ m.call \in Nat /\ m.from \in Callers /\ calls \in Nat
        BY <1>2, <2>1 DEF WireIsOld, TypeOK
      <3>2. m.call = call'[m.from] => m.from # c
        BY <1>2, <3>1
      <3>3. QED
        BY <1>2, <1>3, <3>1, <3>2 DEF WireIsOld
    <2>3. QED
      BY <1>2, <2>2 DEF WireIsOld
  <1>6. SentBounds'
    <2>1. \A m \in wire : m.call \in Nat /\ m.call <= calls
      BY DEF TypeOK, Message, WireIsOld
    <2>2. OnTheWire(c)' = {}
      BY <1>2, <2>1 DEF OnTheWire, IsOf, TypeOK
    <2>3. executed'[c] + Cardinality(OnTheWire(c)') <= Sent(c)'
      BY <1>2, <2>2, FS_EmptySet DEF Sent
    <2>4. ASSUME NEW d \in Callers \ {c}
          PROVE  executed'[d] + Cardinality(OnTheWire(d)') <= Sent(d)'
      BY <1>2, <1>3 DEF OnTheWire, IsOf, Sent, SentBounds
    <2>5. QED
      BY <2>3, <2>4 DEF SentBounds
  <1>7. NoVerdictYet' /\ RepliesAreTrue'
    <2>1. NoVerdictYet'
      BY <1>2, <1>3, Constants DEF NoVerdictYet
    <2>2. ReplyIsTrue(c)'
      BY <1>2 DEF ReplyIsTrue
    <2>3. ASSUME NEW d \in Callers \ {c} PROVE ReplyIsTrue(d)'
      <3>1. executed[d] \in Nat
        BY DEF TypeOK
      <3>2. QED
        BY <1>3, <3>1, ReplyStays DEF RepliesAreTrue
    <2>4. QED
      BY <2>1, <2>2, <2>3 DEF RepliesAreTrue
  <1>8. DueIsThere'
    BY <1>2, <1>3 DEF DueIsThere
  <1>9. SuccessIsExecuted'
    <2>1. ASSUME pc'[c] = "ok"
          PROVE  /\ r.op \in {"embed", "rank"} /\ r.n = 0 /\ value'[c].list = <<>>
                 /\ \A e \in due'[c] : ~Matches(e, r)
      BY <1>2, <2>1 DEF Empty, Nil, Matches
    <2>2. ASSUME pc'[c] = "ok" PROVE Succeeded(c)'
      BY <1>2, <2>1, <2>2 DEF Succeeded, Empty, Matches
    <2>3. ASSUME NEW d \in Callers \ {c}, pc'[d] = "ok" PROVE Succeeded(d)'
      <3>1. Succeeded(d) /\ executed[d] \in Nat
        BY <1>3, <2>3 DEF SuccessIsExecuted, TypeOK
      <3>2. QED
        BY <1>3, <3>1, SuccessStays
    <2>4. QED
      BY <2>2, <2>3 DEF SuccessIsExecuted
  <1>10. QED
    BY <1>1, <1>4, <1>5, <1>6, <1>7, <1>8, <1>9

\* A step that sends nothing and takes up no batch; the call succeeds only as it should.
Quiet(c) ==
    /\ wire' = wire
    /\ UNCHANGED <<service, out, req, call, calls, history>>
    /\ \A d \in Callers \ {c} : /\ pc'[d] = pc[d] /\ attempt'[d] = attempt[d]
                               /\ reply'[d] = reply[d] /\ value'[d] = value[d]
    /\ pc[c] \in Running /\ pc'[c] \in {"send", "wait", "backoff", "ok", "err"}
    /\ pc'[c] = "ok" => Succeeded(c)'
    /\ pc'[c] = "wait" => pc[c] = "wait" /\ reply'[c] = reply[c]
    /\ pc'[c] \in {"send", "backoff"} => reply'[c].status \in {"none", "retryable"}
    /\ Sent(c)' >= Sent(c)

\* It keeps the invariant, apart from the types.
LEMMA QuietKeeps ==
    ASSUME IInv, TypeOK', NEW c \in Callers, Quiet(c)
    PROVE  IInv'
  <1> USE DEF IInv
  <1>1. CallsHaveRequests'
    BY DEF CallsHaveRequests, Quiet, Running
  <1>2. WireIsOld'
    BY DEF WireIsOld, Quiet, service
  <1>3. SentBounds'
    <2>1. ASSUME NEW d \in Callers PROVE executed'[d] + Cardinality(OnTheWire(d)') <= Sent(d)'
      <3>1. OnTheWire(d)' = OnTheWire(d) /\ executed'[d] = executed[d]
        BY DEF OnTheWire, IsOf, Quiet, history
      <3>2. Sent(d)' >= Sent(d)
        <4>1. CASE d = c
          BY <4>1 DEF Quiet
        <4>2. CASE d # c
          BY <4>2 DEF Quiet, Sent, TypeOK
        <4>3. QED
          BY <4>1, <4>2
      <3>3. /\ executed[d] \in Nat /\ Cardinality(OnTheWire(d)) \in Nat
            /\ Sent(d) \in Nat /\ Sent(d)' \in Nat
        <4>1. attempt[d] \in Nat /\ attempt'[d] \in Nat /\ executed[d] \in Nat
          BY Constants DEF TypeOK
        <4>2. QED
          BY <4>1, WireCounts DEF Sent
      <3>4. QED
        BY <3>1, <3>2, <3>3 DEF SentBounds
    <2>2. QED
      BY <2>1 DEF SentBounds
  <1>4. NoVerdictYet'
    BY DEF NoVerdictYet, Quiet
  <1>5. RepliesAreTrue'
    <2>1. ASSUME NEW d \in Callers PROVE ReplyIsTrue(d)'
      <3>1. CASE pc'[d] = "wait"
        <4>1. pc[d] = "wait" /\ reply'[d] = reply[d]
          BY <3>1 DEF Quiet
        <4>2. /\ executed' = executed /\ created' = created /\ due' = due
              /\ req' = req /\ out' = out /\ executed[d] \in Nat
          BY DEF Quiet, history, TypeOK
        <4>3. QED
          BY <4>1, <4>2, ReplyStays DEF RepliesAreTrue
      <3>2. CASE pc'[d] # "wait"
        BY <3>2 DEF ReplyIsTrue
      <3>3. QED
        BY <3>1, <3>2
    <2>2. QED
      BY <2>1 DEF RepliesAreTrue
  <1>6. DueIsThere'
    BY DEF DueIsThere, Quiet, history, service
  <1>7. SuccessIsExecuted'
    <2>1. ASSUME NEW d \in Callers \ {c}, pc'[d] = "ok" PROVE Succeeded(d)'
      <3>1. Succeeded(d) /\ executed[d] \in Nat
        BY <2>1 DEF SuccessIsExecuted, Quiet, TypeOK
      <3>2. /\ executed' = executed /\ created' = created /\ due' = due
            /\ req' = req /\ value'[d] = value[d]
        BY DEF Quiet, history
      <3>3. QED
        BY <3>1, <3>2, SuccessStays
    <2>2. QED
      BY <2>1 DEF SuccessIsExecuted, Quiet
  <1>8. QED
    BY <1>1, <1>2, <1>3, <1>4, <1>5, <1>6, <1>7

\* A context that is done, the end of a backoff, and an attempt that failed are such steps.
LEMMA CancelKeepsIInv ==
    ASSUME IInv, NEW c \in Callers, Cancel(c)
    PROVE  IInv'
  <1>1. TypeOK'
    BY DEF IInv, TypeOK, Cancel, service, client, history
  <1>2. Quiet(c)
    <2>1. Sent(c)' = Sent(c) /\ Sent(c) \in Int
      BY DEF Sent, Cancel, client, IInv, TypeOK
    <2>2. QED
      BY <2>1 DEF Cancel, client, Quiet, Running, IInv, NoVerdictYet
  <1>3. QED
    BY <1>1, <1>2, QuietKeeps

LEMMA BackoffKeepsIInv ==
    ASSUME IInv, NEW c \in Callers, Backoff(c)
    PROVE  IInv'
  <1>1. TypeOK'
    BY DEF IInv, TypeOK, Backoff, service, context, history
  <1>2. /\ pc[c] = "backoff" /\ pc'[c] \in {"send", "err"} /\ attempt'[c] = attempt[c]
        /\ attempt[c] \in Nat /\ reply' = reply
        /\ \A d \in Callers \ {c} : pc'[d] = pc[d] /\ attempt'[d] = attempt[d]
    BY DEF IInv, TypeOK, Backoff
  <1>3. Quiet(c)
    <2>1. Sent(c)' >= Sent(c)
      BY <1>2 DEF Sent
    <2>2. QED
      BY <1>2, <2>1 DEF Backoff, context, Quiet, Running, IInv, NoVerdictYet
  <1>4. QED
    BY <1>1, <1>3, QuietKeeps

LEMMA FailKeepsIInv ==
    ASSUME IInv, NEW c \in Callers, Fail(c)
    PROVE  IInv'
  <1>0. TypeOK /\ Retry(c) /\ pc[c] = "wait" /\ reply' = [reply EXCEPT ![c] = NoReply]
    BY DEF IInv, Fail
  <1>1. TypeOK'
    BY <1>0, RetrySteps DEF TypeOK, Fail, service, context, history
  <1>2. /\ \A d \in Callers \ {c} : reply'[d] = reply[d]
        /\ reply'[c].status = "none" /\ attempt[c] \in Nat
    BY <1>0, Constants DEF TypeOK
  <1>3. Sent(c)' >= Sent(c) /\ pc'[c] \in {"backoff", "err"}
    BY <1>0, <1>2, RetrySteps DEF Sent
  <1>4. Quiet(c)
    BY <1>0, <1>2, <1>3, RetrySteps DEF Quiet, Running, Fail, context
  <1>5. QED
    BY <1>1, <1>4, QuietKeeps

\* A request is sent, the first that has this number, or not under a context that is done.
LEMMA SendKeepsIInv ==
    ASSUME IInv, NEW c \in Callers, Send(c)
    PROVE  IInv'
  <1>0. TypeOK /\ pc[c] = "send" /\ attempt[c] \in Nat
    BY Constants DEF IInv, TypeOK, Send
  <1> USE DEF IInv
  <1>1. CASE cancelled[c]
    <2>0. Retry(c) /\ wire' = wire /\ reply' = reply
      BY <1>1 DEF Send
    <2>1. TypeOK'
      BY <1>0, <2>0, RetrySteps DEF TypeOK, Send, service, context, history
    <2>2. Sent(c)' >= Sent(c) /\ pc'[c] \in {"backoff", "err"}
      BY <1>0, <2>0, RetrySteps DEF Sent
    <2>3. Quiet(c)
      BY <1>0, <2>0, <2>2, RetrySteps
      DEF Quiet, Running, Send, context, IInv, NoVerdictYet
    <2>4. QED
      BY <2>1, <2>3, QuietKeeps
  <1>2. CASE ~cancelled[c]
    <2>0. /\ wire' = wire \union {Current(c)} /\ reply' = [reply EXCEPT ![c] = NoReply]
          /\ pc' = [pc EXCEPT ![c] = "wait"] /\ attempt' = attempt
          /\ UNCHANGED <<service, out, value, context, history>>
      BY <1>2 DEF Send
    <2>1. req[c] \in Requests /\ call[c] \in Nat /\ Len(out[c]) \in Nat /\ call[c] <= calls
      BY <1>0 DEF IInv, CallsHaveRequests, TypeOK
    <2>2. Current(c) \in Message
      BY <1>0, <2>1 DEF Current, Message
    <2>3. TypeOK'
      BY <1>0, <2>0, <2>2 DEF TypeOK, service, context, history
    <2>4. /\ call' = call /\ calls' = calls /\ req' = req /\ out' = out /\ value' = value
          /\ entries' = entries /\ executed' = executed /\ created' = created /\ due' = due
          /\ reply'[c].status = "none" /\ pc'[c] = "wait"
          /\ \A d \in Callers \ {c} : pc'[d] = pc[d] /\ reply'[d] = reply[d]
      BY <1>0, <2>0, Constants DEF service, context, history, TypeOK
    <2>5. CallsHaveRequests'
      BY <1>0, <2>4 DEF CallsHaveRequests, Running
    <2>6. WireIsOld'
      <3>1. IsFiniteSet(wire')
        BY <2>0, FS_AddElement DEF WireIsOld
      <3>2. ASSUME NEW m \in wire'
            PROVE  /\ m.call <= calls /\ (m.call = call[m.from] => m.done <= Len(out[m.from]))
                   /\ (m.req.op = "embed" => m.done < m.req.n)
        <4>1. CASE m = Current(c)
          <5>1. m.call = call[c] /\ m.from = c /\ m.done = Len(out[c]) /\ m.req = req[c]
            BY <4>1 DEF Current
          <5>2. req[c].op = "embed" => Len(out[c]) < req[c].n
            BY <1>0 DEF CallsHaveRequests, Running
          <5>3. QED
            BY <2>1, <5>1, <5>2
        <4>2. CASE m \in wire
          BY <4>2 DEF WireIsOld
        <4>3. QED
          BY <2>0, <4>1, <4>2
      <3>3. QED
        BY <2>4, <3>1, <3>2 DEF WireIsOld
    <2>7. SentBounds'
      <3>1. /\ Cardinality(OnTheWire(c)') <= Cardinality(OnTheWire(c)) + 1
            /\ Cardinality(OnTheWire(c)') \in Nat
        <4>1. OnTheWire(c)' = OnTheWire(c) \union {Current(c)}
          BY <2>0, <2>4 DEF OnTheWire, IsOf, Current
        <4>2. IsFiniteSet(OnTheWire(c)) /\ Cardinality(OnTheWire(c)) \in Nat
          BY WireCounts
        <4>3. Cardinality(OnTheWire(c) \union {Current(c)}) =
                 IF Current(c) \in OnTheWire(c) THEN Cardinality(OnTheWire(c))
                                               ELSE Cardinality(OnTheWire(c)) + 1
          BY <4>2, FS_AddElement
        <4>4. QED
          BY <4>1, <4>2, <4>3
      <3>3. executed'[c] + Cardinality(OnTheWire(c)') <= Sent(c)'
        <4>1. Sent(c)' = attempt[c] + 1 /\ Sent(c) = attempt[c] /\ executed[c] \in Nat
          BY <1>0, <2>0, <2>4 DEF Sent, TypeOK
        <4>2. QED
          BY <1>0, <2>4, <3>1, <4>1, WireCounts DEF SentBounds
      <3>4. ASSUME NEW d \in Callers \ {c}
            PROVE  executed'[d] + Cardinality(OnTheWire(d)') <= Sent(d)'
        <4>1. OnTheWire(d)' = OnTheWire(d)
          BY <2>0, <2>4 DEF OnTheWire, IsOf, Current
        <4>2. Sent(d)' = Sent(d)
          BY <2>0, <2>4 DEF Sent
        <4>3. QED
          BY <2>4, <4>1, <4>2 DEF SentBounds
      <3>5. QED
        BY <3>3, <3>4 DEF SentBounds
    <2>8. NoVerdictYet' /\ DueIsThere'
      BY <2>4 DEF NoVerdictYet, DueIsThere
    <2>9. RepliesAreTrue'
      <3>1. ReplyIsTrue(c)'
        BY <2>4 DEF ReplyIsTrue
      <3>2. ASSUME NEW d \in Callers \ {c} PROVE ReplyIsTrue(d)'
        <4>1. executed[d] \in Nat
          BY DEF TypeOK
        <4>2. QED
          BY <2>4, <4>1, ReplyStays DEF RepliesAreTrue
      <3>3. QED
        BY <3>1, <3>2 DEF RepliesAreTrue
    <2>10. SuccessIsExecuted'
      <3>1. ASSUME NEW d \in Callers, pc'[d] = "ok" PROVE Succeeded(d)'
        <4>1. Succeeded(d) /\ executed[d] \in Nat
          BY <2>4, <3>1 DEF SuccessIsExecuted, TypeOK
        <4>2. QED
          BY <2>4, <4>1, SuccessStays
      <3>2. QED
        BY <3>1 DEF SuccessIsExecuted
    <2>11. QED
      BY <2>3, <2>5, <2>6, <2>7, <2>8, <2>9, <2>10
  <1>3. QED
    BY <1>1, <1>2

\* The sequence of the first texts, and of the next ones behind them.
LEMMA TextsInOrder ==
    ASSUME NEW a \in Nat, NEW b \in Nat
    PROVE  /\ [i \in 1..a |-> i] \in Seq(Int) /\ Len([i \in 1..a |-> i]) = a
           /\ [i \in 1..b |-> a + i] \in Seq(Int) /\ Len([i \in 1..b |-> a + i]) = b
           /\ [i \in 1..a |-> i] \o [i \in 1..b |-> a + i] = [i \in 1..a + b |-> i]
  OBVIOUS

\* What an accepted reply adds is the batch, which ends with the last text or before it.
LEMMA AcceptedBatch ==
    ASSUME IInv, NEW c \in Callers, Arrived(c), Decoded(c), Accepted(c), req[c].op = "embed"
    PROVE  /\ Size(req[c], Len(out[c])) \in Nat \ {0}
           /\ out[c] \o reply[c].value.list =
                 [i \in 1..Len(out[c]) + Size(req[c], Len(out[c])) |-> i]
           /\ More(c) => Len(out[c]) + Size(req[c], Len(out[c])) < req[c].n
           /\ ~More(c) => Len(out[c]) + Size(req[c], Len(out[c])) = req[c].n
  <1> USE DEF IInv
  <1>1. pc[c] = "wait" /\ reply[c].status = "ok" /\ req[c] \in Requests
    BY DEF Arrived, Decoded, CallsHaveRequests
  <1>2. /\ Len(out[c]) \in Nat /\ req[c].n \in Nat /\ Len(out[c]) < req[c].n
        /\ out[c] = [i \in 1..Len(out[c]) |-> i]
    BY <1>1, RequestFields DEF CallsHaveRequests, TypeOK, Running
  <1>3. /\ Size(req[c], Len(out[c])) \in Nat \ {0}
        /\ More(c) => Len(out[c]) + Size(req[c], Len(out[c])) < req[c].n
        /\ ~More(c) => Len(out[c]) + Size(req[c], Len(out[c])) = req[c].n
    BY <1>2, Constants DEF Size, More
  <1>4. PICK k \in Nat : reply[c].value.list = [i \in 1..k |-> Len(out[c]) + i]
    BY <1>1 DEF RepliesAreTrue, ReplyIsTrue
  <1>5. k = Size(req[c], Len(out[c]))
    BY <1>2, <1>4, TextsInOrder DEF Accepted
  <1>6. QED
    BY <1>2, <1>3, <1>4, <1>5, TextsInOrder

\* A result ends the call as the service made it true; a refusal ends it, too.
LEMMA ReceiveKeepsIInv ==
    ASSUME IInv, NEW c \in Callers, Receive(c)
    PROVE  IInv'
  <1> USE DEF IInv
  <1>0. /\ TypeOK /\ pc[c] = "wait" /\ Arrived(c) /\ attempt[c] \in Nat /\ reply[c].value \in Value
        /\ reply' = reply /\ wire' = wire /\ UNCHANGED <<service, out, context, history>>
    BY Constants DEF TypeOK, Receive, Arrived
  <1>1. CASE reply[c].status = "retryable"
    <2>0. Retry(c) /\ value' = value
      BY <1>1 DEF Receive
    <2>1. TypeOK'
      BY <1>0, <2>0, RetrySteps DEF TypeOK, service, context, history
    <2>2. Sent(c)' >= Sent(c) /\ pc'[c] \in {"backoff", "err"}
      BY <1>0, <2>0, RetrySteps DEF Sent
    <2>3. Quiet(c)
      BY <1>0, <1>1, <2>0, <2>2, RetrySteps DEF Quiet, Running, context
    <2>4. QED
      BY <2>1, <2>3, QuietKeeps
  <1>2. CASE reply[c].status # "retryable" /\ Decoded(c) /\ Accepted(c)
    <2>0. /\ ~More(c) /\ attempt' = attempt
          /\ value' = [value EXCEPT ![c] = [reply[c].value EXCEPT !.list = out[c] \o @]]
          /\ pc' = [pc EXCEPT ![c] = "ok"]
      BY <1>2 DEF Receive
    <2>1. /\ reply[c].value.list \in Seq(Int) /\ out[c] \in Seq(Int)
          /\ reply[c].value.ids \in SUBSET Nat /\ reply[c].value.count \in Nat
      BY <1>0 DEF Value, TypeOK
    <2>2. /\ value'[c] = [ids |-> reply[c].value.ids, count |-> reply[c].value.count,
                         list |-> out[c] \o reply[c].value.list]
          /\ \A d \in Callers \ {c} : value'[d] = value[d] /\ pc'[d] = pc[d]
          /\ pc'[c] = "ok"
      BY <1>0, <2>0 DEF TypeOK, Value
    <2>3. TypeOK'
      <3>1. value'[c] \in Value
        BY <2>1, <2>2 DEF Value
      <3>2. QED
        BY <1>0, <2>0, <3>1 DEF TypeOK, service, context, history
    <2>4. Succeeded(c)'
      <3>1. /\ executed' = executed /\ created' = created /\ due' = due /\ req' = req
        BY <1>0 DEF history, context
      <3>2. reply[c].status \in {"ok", "empty", "garbled"} /\ ReplyIsTrue(c)
        BY <1>2 DEF Decoded, RepliesAreTrue
      <3>3. req[c].op = "embed" => value'[c].list = [i \in 1..req[c].n |-> i]
        <4>1. ASSUME req[c].op = "embed"
              PROVE  value'[c].list = [i \in 1..req[c].n |-> i]
          <5>1. Len(out[c]) + Size(req[c], Len(out[c])) = req[c].n
            BY <1>0, <1>2, <2>0, <4>1, AcceptedBatch
          <5>2. out[c] \o reply[c].value.list =
                   [i \in 1..Len(out[c]) + Size(req[c], Len(out[c])) |-> i]
            BY <1>0, <1>2, <4>1, AcceptedBatch
          <5>3. value'[c].list = out[c] \o reply[c].value.list
            <6> DEFINE l == out[c] \o reply[c].value.list
            <6>1. value'[c] = [ids |-> reply[c].value.ids, count |-> reply[c].value.count,
                              list |-> l]
              BY <2>2
            <6> HIDE DEF l
            <6>2. value'[c].list = l
              BY <6>1
            <6>3. QED
              BY <6>2 DEF l
          <5>4. QED
            BY <5>1, <5>2, <5>3
        <4>2. QED
          BY <4>1
      <3>4. req[c].op = "rank" =>
               \A i \in DOMAIN value'[c].list : value'[c].list[i] \in 0..req[c].n - 1
        <4>1. ASSUME req[c].op = "rank" PROVE value'[c].list = reply[c].value.list
          <5>1. out[c] = <<>>
            BY <4>1 DEF CallsHaveRequests
          <5>2. QED
            BY <2>1, <2>2, <5>1
        <4>2. QED
          BY <1>2, <4>1 DEF Accepted
      <3>5. QED
        <4>1. /\ executed[c] > 0
              /\ req[c].op = "store" => created[c] # {} /\ value'[c].ids \subseteq created[c]
              /\ \A e \in due[c] : ~Matches(e, req[c])
          BY <1>0, <2>2, <3>2 DEF ReplyIsTrue
        <4>2. QED
          BY <3>1, <3>3, <3>4, <4>1 DEF Succeeded, Matches, Empty
    <2>5. Sent(c)' = Sent(c) /\ Sent(c) \in Int
      BY <1>0, <2>0, <2>2 DEF Sent
    <2>6. Quiet(c)
      BY <1>0, <2>0, <2>2, <2>4, <2>5 DEF Quiet, Running, context
    <2>7. QED
      BY <2>3, <2>6, QuietKeeps
  <1>3. CASE reply[c].status # "retryable" /\ ~(Decoded(c) /\ Accepted(c))
    <2>0. pc' = [pc EXCEPT ![c] = "err"] /\ attempt' = attempt /\ value' = value
      BY <1>3 DEF Receive
    <2>1. TypeOK'
      BY <1>0, <2>0 DEF TypeOK, service, context, history
    <2>2. pc'[c] = "err" /\ \A d \in Callers \ {c} : pc'[d] = pc[d]
      BY <1>0, <2>0 DEF TypeOK
    <2>3. Sent(c)' = Sent(c) /\ Sent(c) \in Int
      BY <1>0, <2>0, <2>2 DEF Sent
    <2>4. Quiet(c)
      BY <1>0, <2>0, <2>2, <2>3 DEF Quiet, Running, context
    <2>5. QED
      BY <2>1, <2>4, QuietKeeps
  <1>4. QED
    BY <1>1, <1>2, <1>3

\* Nothing of the next batch was sent before.
LEMMA NextBatchKeepsIInv ==
    ASSUME IInv, NEW c \in Callers, NextBatch(c)
    PROVE  IInv'
  <1> USE DEF IInv
  <1>0. /\ TypeOK /\ pc[c] = "wait" /\ Arrived(c) /\ Decoded(c) /\ Accepted(c) /\ More(c)
        /\ req[c].op = "embed"
        /\ wire' = wire /\ entries' = entries /\ lastId' = lastId /\ value' = value
        /\ UNCHANGED <<context, created, due>>
    BY DEF NextBatch, Arrived, More, service
  <1>1. /\ out' = [out EXCEPT ![c] = @ \o reply[c].value.list]
        /\ pc' = [pc EXCEPT ![c] = "send"] /\ attempt' = [attempt EXCEPT ![c] = 0]
        /\ reply' = [reply EXCEPT ![c] = NoReply] /\ executed' = [executed EXCEPT ![c] = 0]
    BY DEF NextBatch
  <1> DEFINE k == Size(req[c], Len(out[c]))
  <1>2. /\ k \in Nat \ {0} /\ Len(out[c]) \in Nat /\ Len(out[c]) + k < req[c].n
        /\ out[c] \o reply[c].value.list = [i \in 1..Len(out[c]) + k |-> i]
    <2>1. Len(out[c]) \in Nat
      BY DEF TypeOK
    <2>2. k \in Nat \ {0} /\ out[c] \o reply[c].value.list = [i \in 1..Len(out[c]) + k |-> i]
      BY <1>0, AcceptedBatch
    <2>3. Len(out[c]) + k < req[c].n
      BY <1>0, AcceptedBatch
    <2>4. QED
      BY <2>1, <2>2, <2>3
  <1>3. /\ out'[c] = [i \in 1..Len(out[c]) + k |-> i] /\ out'[c] \in Seq(Int)
        /\ Len(out'[c]) = Len(out[c]) + k
    BY <1>0, <1>1, <1>2, TextsInOrder DEF TypeOK
  <1>4. /\ pc'[c] = "send" /\ attempt'[c] = 0 /\ executed'[c] = 0 /\ reply'[c].status = "none"
        /\ \A d \in Callers \ {c} : /\ out'[d] = out[d] /\ pc'[d] = pc[d] /\ attempt'[d] = attempt[d]
                                   /\ reply'[d] = reply[d] /\ executed'[d] = executed[d]
    BY <1>0, <1>1, Constants DEF TypeOK
  <1>5. /\ req' = req /\ call' = call /\ calls' = calls /\ created' = created /\ due' = due
    BY <1>0 DEF context
  <1>6. TypeOK'
    <2>1. out' \in [Callers -> Seq(Int)]
      BY <1>0, <1>1, <1>3, <1>4 DEF TypeOK
    <2>2. QED
      BY <1>0, <1>1, <1>5, <2>1, Constants DEF TypeOK, context
  <1>7. CallsHaveRequests'
    <2>1. Len(out'[c]) < req'[c].n /\ out'[c] = [i \in 1..Len(out'[c]) |-> i]
      BY <1>2, <1>3, <1>5
    <2>2. QED
      BY <1>0, <1>4, <1>5, <2>1 DEF CallsHaveRequests
  <1>8. WireIsOld'
    <2>1. ASSUME NEW m \in wire PROVE m.call = call[m.from] => m.done <= Len(out'[m.from])
      <3>1. m.done \in Nat /\ m.from \in Callers
        BY DEF TypeOK, Message
      <3>2. QED
        BY <1>2, <1>3, <1>4, <3>1 DEF WireIsOld
    <2>2. QED
      BY <1>0, <1>5, <2>1 DEF WireIsOld
  <1>9. SentBounds'
    <2>1. OnTheWire(c)' = {}
      <3>1. ASSUME NEW m \in wire, m.from = c, m.call = call[c] PROVE m.done # Len(out'[c])
        <4>1. m.done \in Nat /\ m.done <= Len(out[c])
          BY <3>1 DEF TypeOK, Message, WireIsOld
        <4>2. QED
          BY <1>2, <1>3, <4>1
      <3>2. QED
        BY <1>0, <1>5, <3>1 DEF OnTheWire, IsOf
    <2>2. executed'[c] + Cardinality(OnTheWire(c)') <= Sent(c)'
      BY <1>4, <2>1, FS_EmptySet DEF Sent
    <2>3. ASSUME NEW d \in Callers \ {c}
          PROVE  executed'[d] + Cardinality(OnTheWire(d)') <= Sent(d)'
      <3>1. OnTheWire(d)' = OnTheWire(d) /\ Sent(d)' = Sent(d)
        BY <1>0, <1>4, <1>5 DEF OnTheWire, IsOf, Sent
      <3>2. QED
        BY <1>4, <3>1 DEF SentBounds
    <2>4. QED
      BY <2>2, <2>3 DEF SentBounds
  <1>10. NoVerdictYet' /\ DueIsThere'
    BY <1>0, <1>4, <1>5 DEF NoVerdictYet, DueIsThere
  <1>11. RepliesAreTrue'
    <2>1. ReplyIsTrue(c)'
      BY <1>4 DEF ReplyIsTrue
    <2>2. ASSUME NEW d \in Callers \ {c} PROVE ReplyIsTrue(d)'
      <3>1. executed[d] \in Nat
        BY DEF TypeOK
      <3>2. QED
        BY <1>4, <1>5, <3>1, ReplyStays DEF RepliesAreTrue
    <2>3. QED
      BY <2>1, <2>2 DEF RepliesAreTrue
  <1>12. SuccessIsExecuted'
    <2>1. ASSUME NEW d \in Callers, pc'[d] = "ok" PROVE Succeeded(d)'
      <3>1. d # c /\ Succeeded(d) /\ executed[d] \in Nat
        BY <1>4, <2>1 DEF SuccessIsExecuted, TypeOK
      <3>2. QED
        BY <1>0, <1>4, <1>5, <3>1, SuccessStays
    <2>2. QED
      BY <2>1 DEF SuccessIsExecuted
  <1>13. QED
    BY <1>6, <1>7, <1>8, <1>9, <1>10, <1>11, <1>12

-----------------------------------------------------------------------------
(* The steps of the service. *)

\* What the service answers has the parts of a value.
LEMMA ValuesAreValues ==
    ASSUME IInv, NEW m \in wire, NEW v \in Values(m)
    PROVE  v \in Value
  <1> USE DEF IInv
  <1>1. /\ m.req \in Requests /\ m.done \in Nat /\ (m.req.op \in {"embed", "rank"} => m.req.n \in Nat)
        /\ (m.req.op = "embed" => m.done < m.req.n) /\ lastId \in Nat /\ entries \subseteq Entry
    BY RequestFields DEF TypeOK, Message, WireIsOld
  <1>2. PICK ids \in IF m.req.op = "check" THEN Hits(m.req)
                     ELSE IF m.req.op = "store" THEN {{lastId + 1}, {}} ELSE {{}},
             count \in IF m.req.op = "deletequery" THEN {Cardinality(Victims(m.req)), 0} ELSE {0},
             list \in Lists(m) :
             v = [ids |-> ids, list |-> list, count |-> count]
    BY DEF Values
  <1>3. Matching(m.req.attr) \subseteq entries
    BY DEF Matching
  <1>4. Victims(m.req) \subseteq entries
    BY DEF Victims, Matching
  <1>5. v.count \in Nat
    BY <1>2, <1>4, FS_Subset, FS_CardinalityType DEF WireIsOld
  <1>6. ids \subseteq Nat
    BY <1>1, <1>2, <1>3 DEF Hits, Entry
  <1>7. list \in Seq(Int)
    <2>1. CASE m.req.op = "embed"
      <3>1. PICK k \in {Size(m.req, m.done), Size(m.req, m.done) - 1} :
               list = [i \in 1..k |-> m.done + i]
        BY <2>1 DEF Lists
      <3>2. k \in Nat
        BY <1>1, <2>1, <3>1, Constants DEF Size
      <3>3. QED
        BY <1>1, <3>1, <3>2, TextsInOrder
    <2>2. CASE m.req.op = "rank"
      <3>1. PICK k \in 0..NumResults : list \in [1..k -> -1..m.req.n]
        BY <2>2 DEF Lists
      <3>2. k \in Nat /\ \A i \in 1..k : list[i] \in Int
        BY <1>1, <2>2, <3>1, Constants
      <3>3. QED
        BY <3>1, <3>2
    <2>3. CASE m.req.op \notin {"embed", "rank"}
      <3>1. Lists(m) = {<<>>}
        BY <2>3 DEF Lists
      <3>2. QED
        BY <3>1
    <2>4. QED
      BY <2>1, <2>2, <2>3
  <1>8. QED
    BY <1>2, <1>5, <1>6, <1>7 DEF Value

\* Taking a message from the wire leaves the bound, if its execution is counted.
LEMMA TakenMessage ==
    ASSUME IInv, NEW m \in wire, wire' = wire \ {m}, NEW c \in Callers,
           call' = call, out' = out, Sent(c)' = Sent(c),
           \/ executed'[c] = executed[c]
           \/ IsOf(m, c) /\ executed'[c] = executed[c] + 1
    PROVE  executed'[c] + Cardinality(OnTheWire(c)') <= Sent(c)'
  <1> USE DEF IInv
  <1>1. executed[c] \in Nat /\ Sent(c) \in Int /\ IsFiniteSet(OnTheWire(c))
        /\ Cardinality(OnTheWire(c)) \in Nat /\ executed[c] + Cardinality(OnTheWire(c)) <= Sent(c)
    BY Constants, WireCounts DEF TypeOK, Sent, SentBounds
  <1>2. OnTheWire(c)' = OnTheWire(c) \ {m}
    BY DEF OnTheWire, IsOf
  <1>3. /\ Cardinality(OnTheWire(c)') \in Nat
        /\ Cardinality(OnTheWire(c)') <= Cardinality(OnTheWire(c))
        /\ IsOf(m, c) => Cardinality(OnTheWire(c)') = Cardinality(OnTheWire(c)) - 1
    <2>1. CASE IsOf(m, c)
      <3>1. m \in OnTheWire(c)
        BY <2>1 DEF OnTheWire
      <3>2. Cardinality(OnTheWire(c) \ {m}) = Cardinality(OnTheWire(c)) - 1
        BY <1>1, <3>1, FS_RemoveElement
      <3>3. Cardinality(OnTheWire(c) \ {m}) \in Nat
        BY <1>1, FS_RemoveElement, FS_CardinalityType
      <3>4. QED
        BY <1>1, <1>2, <3>2, <3>3
    <2>2. CASE ~IsOf(m, c)
      <3>1. OnTheWire(c) \ {m} = OnTheWire(c)
        BY <2>2 DEF OnTheWire
      <3>2. Cardinality(OnTheWire(c)') = Cardinality(OnTheWire(c))
        BY <1>2, <3>1
      <3>3. QED
        BY <1>1, <2>2, <3>2
    <2>3. QED
      BY <2>1, <2>2
  <1>4. QED
    BY <1>1, <1>3

\* An attempt is executed, and its reply reaches the caller only if it waits for it.
LEMMA ExecuteKeepsIInv ==
    ASSUME IInv, NEW m \in wire, Execute(m)
    PROVE  IInv'
  <1> USE DEF IInv
  <1>1. /\ m \in Message /\ m.req \in Requests /\ m.from \in Callers /\ lastId \in Nat
        /\ (m.req.op = "store" => m.req.attr \in Attributes)
    BY RequestFields DEF TypeOK, Message
  <1>2. /\ wire' = wire \ {m} /\ executed' = Of(m, executed, executed[m.from] + 1)
        /\ due' = [c \in Callers |-> due[c] \ Victims(m.req)]
        /\ UNCHANGED <<pc, attempt, out, value, context>>
    BY DEF Execute
  <1>3. /\ req' = req /\ call' = call /\ calls' = calls /\ cancelled' = cancelled
        /\ pc' = pc /\ attempt' = attempt /\ out' = out /\ value' = value
    BY <1>2 DEF context
  <1>4. PICK v \in Values(m) \union {Nil}, status \in Statuses :
              Reply(m, status, v) /\ (v = Nil \/ v \in Values(m)) /\ status # "refused"
    BY DEF Execute, Statuses
  <1>5. v \in Value
    BY <1>4, ValuesAreValues, Constants
  <1>6. \A c \in Callers : /\ executed'[c] = IF IsOf(m, c) THEN executed[c] + 1 ELSE executed[c]
                           /\ executed[c] \in Nat /\ due'[c] = due[c] \ Victims(m.req)
    BY <1>2 DEF Of, IsOf, TypeOK
  <1>7. \A c \in Callers : IF pc[c] = "wait" /\ Current(c) = m
                            THEN reply'[c] = [status |-> status, value |-> v]
                            ELSE reply'[c] = reply[c]
    BY <1>4 DEF Reply
  <1>8. \/ /\ m.req.op = "store" /\ lastId' = lastId + 1
           /\ entries' = entries \union {[id |-> lastId + 1, attr |-> m.req.attr]}
           /\ created' = Of(m, created, created[m.from] \union {lastId + 1})
        \/ /\ m.req.op # "store" /\ entries' = entries \ Victims(m.req)
           /\ lastId' = lastId /\ created' = created
    BY DEF Execute
  <1>9. \A c \in Callers : created[c] \subseteq created'[c] /\ created'[c] \subseteq Nat
    <2>1. \A c \in Callers : created[c] \subseteq Nat
      BY DEF TypeOK
    <2>2. CASE created' = Of(m, created, created[m.from] \union {lastId + 1})
      <3>1. \A c \in Callers : created'[c] = IF IsOf(m, c) THEN created[m.from] \union {lastId + 1}
                                             ELSE created[c]
        BY <2>2 DEF Of
      <3>2. \A c \in Callers : IsOf(m, c) => m.from = c
        BY DEF IsOf
      <3>3. QED
        BY <1>1, <2>1, <3>1, <3>2
    <2>3. QED
      BY <1>8, <2>1, <2>2
  <1>10. TypeOK'
    <2>1. lastId' \in Nat /\ entries' \subseteq Entry /\ wire' \subseteq Message
      BY <1>1, <1>2, <1>8 DEF TypeOK, Entry
    <2>2. executed' \in [Callers -> Nat] /\ due' \in [Callers -> SUBSET Entry]
      BY <1>2, <1>6 DEF Of, TypeOK
    <2>3. created' \in [Callers -> SUBSET Nat]
      BY <1>8, <1>9 DEF Of, TypeOK
    <2>4. reply' \in [Callers -> [status : Statuses, value : Value] \union {NoReply}]
      BY <1>4, <1>5, <1>7 DEF Reply, TypeOK, Statuses
    <2>5. QED
      BY <1>3, <2>1, <2>2, <2>3, <2>4 DEF TypeOK
  <1>11. CallsHaveRequests' /\ NoVerdictYet'
    BY <1>3, <1>7 DEF CallsHaveRequests, NoVerdictYet
  <1>12. WireIsOld'
    <2>1. IsFiniteSet(wire') /\ IsFiniteSet(entries')
      BY <1>2, <1>8, FS_Subset, FS_AddElement DEF WireIsOld
    <2>2. QED
      BY <1>2, <1>3, <2>1 DEF WireIsOld
  <1>13. SentBounds'
    <2>1. ASSUME NEW c \in Callers PROVE executed'[c] + Cardinality(OnTheWire(c)') <= Sent(c)'
      <3>1. Sent(c)' = Sent(c)
        BY <1>3 DEF Sent
      <3>2. QED
        BY <1>2, <1>3, <1>6, <3>1, TakenMessage
    <2>2. QED
      BY <2>1 DEF SentBounds
  <1>14. DueIsThere'
    BY <1>6, <1>8 DEF DueIsThere, Victims
  <1>15. RepliesAreTrue'
    <2>1. ASSUME NEW c \in Callers PROVE ReplyIsTrue(c)'
      <3>1. CASE pc[c] = "wait" /\ Current(c) = m
        <4>1. IsOf(m, c) /\ m.from = c /\ m.req = req[c] /\ m.done = Len(out[c])
          BY <3>1 DEF IsOf, Current
        <4>2. executed'[c] > 0
          BY <1>6, <4>1
        <4>3. req[c].op = "store" => created'[c] # {} /\ v.ids \subseteq created'[c]
          <5>1. ASSUME req[c].op = "store"
                PROVE  lastId + 1 \in created'[c] /\ v.ids \in {{lastId + 1}, {}}
            <6>1. created'[c] = created[m.from] \union {lastId + 1}
              BY <1>8, <4>1, <5>1 DEF Of
            <6>2. v.ids \in {{lastId + 1}, {}}
              BY <1>4, <4>1, <5>1 DEF Values, Nil
            <6>3. QED
              BY <6>1, <6>2
          <5>2. QED
            BY <5>1
        <4>4. \A e \in due'[c] : ~Matches(e, req[c])
          BY <1>6, <4>1 DEF DueIsThere, Matches, Victims, Matching
        <4>5. req[c].op = "embed" => \E k \in Nat : v.list = [i \in 1..k |-> Len(out[c]) + i]
          <5>1. ASSUME req[c].op = "embed"
                PROVE  \E k \in Nat : v.list = [i \in 1..k |-> Len(out[c]) + i]
            <6>1. CASE v = Nil
              <7>1. v.list = [i \in 1..0 |-> Len(out[c]) + i]
                BY <6>1 DEF Nil
              <7>2. QED
                BY <7>1
            <6>2. CASE v \in Values(m)
              <7>1. v.list \in Lists(m)
                BY <6>2 DEF Values
              <7>2. PICK k \in {Size(m.req, m.done), Size(m.req, m.done) - 1} :
                       v.list = [i \in 1..k |-> m.done + i]
                BY <4>1, <5>1, <7>1 DEF Lists
              <7>3. m.done \in Nat /\ m.req.n \in Nat /\ m.done < m.req.n
                BY <1>1, <4>1, <5>1, RequestFields DEF WireIsOld, Message
              <7>4. k \in Nat
                BY <7>2, <7>3, Constants DEF Size
              <7>5. QED
                BY <4>1, <7>2, <7>4
            <6>3. QED
              BY <1>4, <6>1, <6>2
          <5>2. QED
            BY <5>1
        <4>6. reply'[c].value = v /\ pc'[c] = pc[c] /\ req'[c] = req[c] /\ out'[c] = out[c]
          BY <1>3, <1>7, <3>1
        <4>7. QED
          BY <4>2, <4>3, <4>4, <4>5, <4>6 DEF ReplyIsTrue, Matches
      <3>2. CASE ~(pc[c] = "wait" /\ Current(c) = m)
        BY <1>3, <1>6, <1>7, <1>9, <3>2, ReplyStays DEF RepliesAreTrue
      <3>3. QED
        BY <3>1, <3>2
    <2>2. QED
      BY <2>1 DEF RepliesAreTrue
  <1>16. SuccessIsExecuted'
    <2>1. ASSUME NEW c \in Callers, pc'[c] = "ok" PROVE Succeeded(c)'
      <3>1. Succeeded(c) /\ executed'[c] >= executed[c] /\ executed[c] \in Nat
        BY <1>3, <1>6, <2>1 DEF SuccessIsExecuted
      <3>2. created[c] \subseteq created'[c] /\ due'[c] \subseteq due[c]
        BY <1>6, <1>9
      <3>3. QED
        BY <1>3, <1>6, <3>1, <3>2, SuccessStays
    <2>2. QED
      BY <2>1 DEF SuccessIsExecuted
  <1>17. QED
    BY <1>10, <1>11, <1>12, <1>13, <1>14, <1>15, <1>16

\* A rejected attempt has no result.
LEMMA RejectKeepsIInv ==
    ASSUME IInv, NEW m \in wire, Reject(m)
    PROVE  IInv'
  <1> USE DEF IInv
  <1>1. /\ wire' = wire \ {m} /\ entries' = entries /\ lastId' = lastId
        /\ req' = req /\ call' = call /\ calls' = calls /\ cancelled' = cancelled
        /\ pc' = pc /\ attempt' = attempt /\ out' = out /\ value' = value
        /\ executed' = executed /\ created' = created /\ due' = due
    BY DEF Reject, service, context, history
  <1>2. \A c \in Callers : \/ reply'[c] = reply[c]
                           \/ /\ pc[c] = "wait" /\ reply'[c].status \in {"retryable", "refused"}
    BY DEF Reject, Reply
  <1>3. TypeOK'
    <2>1. reply' \in [Callers -> [status : Statuses, value : Value] \union {NoReply}]
      BY Constants DEF Reject, Reply, TypeOK, Statuses
    <2>2. QED
      BY <1>1, <2>1 DEF TypeOK
  <1>4. CallsHaveRequests' /\ NoVerdictYet' /\ DueIsThere'
    BY <1>1, <1>2 DEF CallsHaveRequests, NoVerdictYet, DueIsThere
  <1>5. WireIsOld'
    BY <1>1, FS_Subset DEF WireIsOld
  <1>6. SentBounds'
    <2>1. ASSUME NEW c \in Callers PROVE executed'[c] + Cardinality(OnTheWire(c)') <= Sent(c)'
      BY <1>1, TakenMessage DEF Sent
    <2>2. QED
      BY <2>1 DEF SentBounds
  <1>7. RepliesAreTrue'
    <2>1. ASSUME NEW c \in Callers PROVE ReplyIsTrue(c)'
      <3>1. CASE reply'[c] = reply[c]
        <4>1. executed[c] \in Nat
          BY DEF TypeOK
        <4>2. QED
          BY <1>1, <3>1, <4>1, ReplyStays DEF RepliesAreTrue
      <3>2. CASE reply'[c].status \in {"retryable", "refused"}
        BY <3>2 DEF ReplyIsTrue
      <3>3. QED
        BY <1>2, <3>1, <3>2
    <2>2. QED
      BY <2>1 DEF RepliesAreTrue
  <1>8. SuccessIsExecuted'
    <2>1. ASSUME NEW c \in Callers, pc'[c] = "ok" PROVE Succeeded(c)'
      <3>1. Succeeded(c) /\ executed[c] \in Nat
        BY <1>1, <2>1 DEF SuccessIsExecuted, TypeOK
      <3>2. QED
        BY <1>1, <3>1, SuccessStays
    <2>2. QED
      BY <2>1 DEF SuccessIsExecuted
  <1>9. QED
    BY <1>3, <1>4, <1>5, <1>6, <1>7, <1>8

-----------------------------------------------------------------------------

\* Every step keeps the invariant.
LEMMA NextKeepsIInv == IInv /\ [Next]_vars => IInv'
  <1> SUFFICES ASSUME IInv, [Next]_vars PROVE IInv'
    OBVIOUS
  <1>1. CASE UNCHANGED vars
    <2>1. \A c \in Callers : OnTheWire(c)' = OnTheWire(c)
      BY <1>1 DEF OnTheWire, IsOf, vars, client, context
    <2>2. /\ wire' = wire /\ entries' = entries /\ lastId' = lastId
          /\ pc' = pc /\ attempt' = attempt /\ reply' = reply /\ out' = out /\ value' = value
          /\ req' = req /\ call' = call /\ cancelled' = cancelled /\ calls' = calls
          /\ executed' = executed /\ created' = created /\ due' = due
      BY <1>1 DEF vars, service, client, context, history
    <2>3. TypeOK' /\ CallsHaveRequests' /\ WireIsOld' /\ NoVerdictYet' /\ DueIsThere'
      BY <2>2 DEF IInv, TypeOK, CallsHaveRequests, WireIsOld, NoVerdictYet, DueIsThere
    <2>4. SentBounds'
      BY <2>1, <2>2 DEF IInv, SentBounds, Sent
    <2>5. RepliesAreTrue'
      <3>1. ASSUME NEW c \in Callers PROVE ReplyIsTrue(c)'
        <4>1. executed[c] \in Nat
          BY DEF IInv, TypeOK
        <4>2. QED
          BY <2>2, <4>1, ReplyStays DEF IInv, RepliesAreTrue
      <3>2. QED
        BY <3>1 DEF RepliesAreTrue
    <2>6. SuccessIsExecuted'
      <3>1. ASSUME NEW c \in Callers, pc'[c] = "ok" PROVE Succeeded(c)'
        <4>1. Succeeded(c) /\ executed[c] \in Nat
          BY <2>2, <3>1 DEF IInv, SuccessIsExecuted, TypeOK
        <4>2. QED
          BY <2>2, <4>1, SuccessStays
      <3>2. QED
        BY <3>1 DEF SuccessIsExecuted
    <2>7. QED
      BY <2>3, <2>4, <2>5, <2>6 DEF IInv
  <1>2. ASSUME NEW c \in Callers, Step(c) PROVE IInv'
    BY <1>2, BackoffKeepsIInv, SendKeepsIInv, FailKeepsIInv, ReceiveKeepsIInv, NextBatchKeepsIInv
    DEF Step
  <1>3. QED
    BY <1>1, <1>2, BeginKeepsIInv, CancelKeepsIInv, ExecuteKeepsIInv, RejectKeepsIInv DEF Next

\* The invariant holds in every reachable state.
THEOREM Invariance == Spec => []IInv
  <1>1. QED
    BY InitIInv, NextKeepsIInv, PTL DEF Spec

\* The variables keep their types: attempts stay below MaxRetries (the loops of do and
\* of postJSON), whatever the service and the contexts do.
THEOREM TypeCorrect == Spec => []TypeOK
  <1>1. IInv => TypeOK
    BY DEF IInv
  <1>2. QED
    BY <1>1, Invariance, PTL

\* A call of the client, a vectorizer or a reranker that returned without error was
\* executed, and returned what the service gave it (Store, DeleteQuery, EmbedMany, Rank).
THEOREM Successes == Spec => []SuccessIsExecuted
  <1>1. IInv => SuccessIsExecuted
    BY DEF IInv
  <1>2. QED
    BY <1>1, Invariance, PTL

\* The loop never has a request executed more than MaxRetries times.
THEOREM BoundedRetries == Spec => []AtMostMaxRetries
  <1>1. IInv => AtMostMaxRetries
    <2> SUFFICES ASSUME IInv, NEW c \in Callers
                 PROVE  executed[c] + Cardinality(OnTheWire(c)) <= MaxRetries
      BY DEF AtMostMaxRetries
    <2>1. /\ attempt[c] \in 0..MaxRetries - 1 /\ executed[c] \in Nat
          /\ executed[c] + Cardinality(OnTheWire(c)) <= Sent(c)
      BY DEF IInv, TypeOK, SentBounds
    <2>2. Cardinality(OnTheWire(c)) \in Nat
      BY WireCounts DEF IInv
    <2>3. QED
      BY <2>1, <2>2, Constants DEF Sent
  <1>2. QED
    BY <1>1, Invariance, PTL

\* What is sent belongs to a call without a verdict, under a context that is not done
\* (the select and the switch of the loop).
THEOREM NothingAfterVerdict == Spec => NoRequestAfterVerdict
  <1> DEFINE Sends == \A m \in wire' \ wire :
                         ~cancelled[m.from] /\ reply[m.from].status \in {"none", "retryable"}
  <1>1. IInv /\ [Next]_vars => [Sends]_vars
    <2> SUFFICES ASSUME IInv, [Next]_vars, NEW m \in wire' \ wire
                 PROVE  ~cancelled[m.from] /\ reply[m.from].status \in {"none", "retryable"}
      OBVIOUS
    <2>1. PICK c \in Callers : Send(c)
      BY DEF Next, Step, Begin, Cancel, Backoff, Fail, Receive, NextBatch, Execute, Reject, vars
    <2>2. ~cancelled[c] /\ m = Current(c) /\ pc[c] = "send"
      BY <2>1 DEF Send
    <2>3. QED
      BY <2>2 DEF Current, IInv, NoVerdictYet
  <1>2. QED
    BY <1>1, Invariance, PTL DEF Spec, NoRequestAfterVerdict
=============================================================================
