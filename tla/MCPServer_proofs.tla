-------------------------- MODULE MCPServer_proofs --------------------------
(***************************************************************************)
(* Theorems about KeySource, for any verifiers, kids, published key sets,    *)
(* refresh interval and timeout, and about MCPServer, for any launches,      *)
(* tokens, tool calls, documents and key rotations.  The server is shown to  *)
(* implement KeySource, so that what is proved of the key cache holds of the *)
(* server's requests.                                                        *)
(***************************************************************************)
EXTENDS MCPServer, FiniteSetTheorems, SequenceTheorems, TLAPS

-----------------------------------------------------------------------------
(* The key source by itself. *)

\* A fetch in progress holds the mutex: at most one runs.
Holder == \A v \in Verifiers : pc[v] \in {"fetching", "served"} => mu = v

\* k.fetched is never earlier than the last attempt.
AttemptRecorded == age <= attemptAge

\* Between fetches, and without a failure since the last, the cached keys are at
\* most one fetch older than k.fetched.  While a fetch runs k.fetched is already its
\* start, and the mutex keeps the old keys from being used.
KeysAreFresh == keys # {} /\ ~failed /\ mu = Free => keysAge <= age + Timeout

IInv == TypeOK /\ Holder /\ AttemptRecorded /\ KeysAreFresh

\* The invariant holds before the first token.
LEMMA InitIInv == Init => IInv
  <1> SUFFICES ASSUME Init PROVE IInv
    OBVIOUS
  <1> USE KeySourceAssumption DEF Init
  <1>1. TypeOK
    <2>1. age \in 0..Interval /\ attemptAge \in 0..Interval /\ elapsed \in 0..Timeout
      OBVIOUS
    <2>2. keysAge \in 0..Oldest
      BY DEF Oldest
    <2>3. /\ pc \in [Verifiers -> {"idle", "waiting", "fetching", "served",
                                   "found", "unknown", "error"}]
          /\ kid \in [Verifiers -> Kids]
      OBVIOUS
    <2>4. QED
      BY <2>1, <2>2, <2>3 DEF TypeOK
  <1>2. Holder /\ AttemptRecorded /\ KeysAreFresh
    BY DEF Holder, AttemptRecorded, KeysAreFresh
  <1>3. QED
    BY <1>1, <1>2 DEF IInv

\* A token that is resolved is found or unknown, and the mutex is free.
LEMMA ResolveMoves ==
    ASSUME IInv, NEW v \in Verifiers, NEW S, Resolve(v, S)
    PROVE  /\ mu' = Free /\ pc'[v] \in {"found", "unknown"}
           /\ \A w \in Verifiers \ {v} : pc'[w] = pc[w]
           /\ pc' \in [Verifiers -> {"idle", "waiting", "fetching", "served",
                                     "found", "unknown", "error"}]
  BY DEF Resolve, IInv, TypeOK

\* A unit of time keeps the invariant.
LEMMA TickIInv == IInv /\ Tick => IInv'
  <1> SUFFICES ASSUME IInv, Tick PROVE IInv'
    OBVIOUS
  <1> USE KeySourceAssumption DEF IInv
  <1>1. TypeOK'
    BY DEF Tick, Older, Oldest, TypeOK
  <1>2. AttemptRecorded'
    BY DEF Tick, Older, TypeOK, AttemptRecorded
  <1>3. KeysAreFresh'
    BY DEF Tick, Older, Oldest, TypeOK, KeysAreFresh
  <1>4. QED
    BY <1>1, <1>2, <1>3 DEF Tick, Holder

\* A step of a verifier keeps the invariant.
LEMMA StepIInv ==
    ASSUME IInv, NEW v \in Verifiers, Step(v)
    PROVE  IInv'
  <1> USE KeySourceAssumption, FreeAssumption
  <1>1. CASE Acquire(v) /\ RefreshDue
    BY <1>1 DEF Acquire, IInv, TypeOK, Holder, AttemptRecorded, KeysAreFresh
  <1>2. CASE Acquire(v) /\ ~RefreshDue
    <2>1. Resolve(v, keys) /\ mu = Free
      BY <1>2 DEF Acquire
    <2>2. UNCHANGED <<published, keys, age, attemptAge, elapsed, kid, reply, keysAge, failed>>
      BY <1>2 DEF Acquire
    <2>3. TypeOK'
      BY <2>1, <2>2, ResolveMoves DEF IInv, TypeOK
    <2>4. Holder'
      BY <2>1, ResolveMoves DEF IInv, Holder
    <2>5. QED
      BY <2>1, <2>2, <2>3, <2>4 DEF IInv, AttemptRecorded, KeysAreFresh
  <1>3. CASE Serve(v)
    <2>1. published \in SUBSET JWK /\ mu = v
      BY <1>3 DEF Serve, IInv, TypeOK, Holder
    <2>2. QED
      BY <1>3, <2>1 DEF Serve, IInv, TypeOK, Holder, AttemptRecorded, KeysAreFresh
  <1>4. CASE FetchOK(v)
    <2>1. /\ Resolve(v, Usable(reply)) /\ keys' = Usable(reply)
          /\ age' = 0 /\ keysAge' = elapsed
          /\ failed' = FALSE
          /\ UNCHANGED <<published, kid, elapsed, reply, attemptAge>>
      BY <1>4 DEF FetchOK
    <2>2. \A w \in Verifiers \ {v} : pc[w] \notin {"fetching", "served"}
      BY <1>4 DEF FetchOK, IInv, Holder
    <2>3. TypeOK'
      <3>1. keysAge' \in 0..Oldest /\ age' \in 0..Interval
        BY <2>1 DEF IInv, TypeOK, Oldest
      <3>2. keys' \in SUBSET Kids /\ failed' \in BOOLEAN /\ mu' \in Verifiers \union {Free}
        <4>1. reply \in SUBSET JWK
          BY DEF IInv, TypeOK
        <4>2. Usable(reply) \in SUBSET Kids
          BY <4>1 DEF Usable, JWK
        <4>3. QED
          BY <2>1, <4>2, ResolveMoves
      <3>3. pc' \in [Verifiers -> {"idle", "waiting", "fetching", "served",
                                  "found", "unknown", "error"}]
        BY <2>1, ResolveMoves
      <3>4. QED
        BY <2>1, <3>1, <3>2, <3>3 DEF IInv, TypeOK
    <2>4. Holder'
      BY <2>2, <2>1, ResolveMoves DEF Holder
    <2>5. QED
      BY <2>1, <2>3, <2>4 DEF IInv, TypeOK, AttemptRecorded, KeysAreFresh
  <1>5. CASE FetchFails(v)
    <2>1. \A w \in Verifiers \ {v} : pc[w] \notin {"fetching", "served"}
      BY <1>5 DEF FetchFails, IInv, Holder
    <2>2. /\ pc' \in [Verifiers -> {"idle", "waiting", "fetching", "served",
                                     "found", "unknown", "error"}]
          /\ mu' = Free /\ pc'[v] \notin {"fetching", "served"}
          /\ \A w \in Verifiers \ {v} : pc'[w] = pc[w]
      <3>1. CASE keys = {}
        BY <1>5, <3>1 DEF FetchFails, IInv, TypeOK
      <3>2. CASE keys # {}
        BY <1>5, <3>2, ResolveMoves DEF FetchFails
      <3>3. QED
        BY <3>1, <3>2
    <2>3. failed' = TRUE /\ UNCHANGED <<published, keys, age, kid, elapsed, reply,
                                        attemptAge, keysAge>>
      BY <1>5 DEF FetchFails
    <2>4. QED
      BY <2>1, <2>2, <2>3 DEF IInv, TypeOK, Holder, AttemptRecorded, KeysAreFresh
  <1>6. QED
    BY <1>1, <1>2, <1>3, <1>4, <1>5 DEF Step

\* The inductive invariant: types, one holder of the mutex, an attempt recorded by every
\* fetch, and keys at most one fetch older than the last success.
THEOREM Invariance == Spec => []IInv
  <1>1. IInv /\ [Next]_vars => IInv'
    <2> SUFFICES ASSUME IInv, [Next]_vars PROVE IInv'
      OBVIOUS
    <2>1. CASE Rotate
      BY <2>1 DEF Rotate, IInv, TypeOK, Holder, AttemptRecorded, KeysAreFresh
    <2>2. ASSUME NEW v \in Verifiers, Call(v) PROVE IInv'
      BY <2>2, FreeAssumption
      DEF Call, IInv, TypeOK, Holder, AttemptRecorded, KeysAreFresh
    <2>3. CASE UNCHANGED vars
      BY <2>3 DEF vars, IInv, TypeOK, Holder, AttemptRecorded, KeysAreFresh
    <2>4. QED
      BY <2>1, <2>2, <2>3, TickIInv, StepIInv DEF Next
  <1>2. QED
    BY InitIInv, <1>1, PTL DEF Spec

\* The cache, the mutex and the requests keep their types.
THEOREM TypeCorrect == Spec => []TypeOK
  BY Invariance, PTL DEF IInv

\* While keys are cached the endpoint is asked at most once per interval.
THEOREM BackOff == Spec => RefreshesBackOff
  <1>1. IInv /\ [Next]_vars => [FetchBegins /\ keys # {} => attemptAge = Interval]_vars
    <2> SUFFICES ASSUME IInv, Next, FetchBegins, keys # {} PROVE attemptAge = Interval
      OBVIOUS
    <2>1. PICK v \in Verifiers : pc[v] = "waiting" /\ pc'[v] = "fetching"
      BY DEF FetchBegins
    <2>2. Acquire(v) /\ RefreshDue
      BY <2>1 DEF Next, Rotate, Tick, Call, Step, Acquire, Resolve, Serve, FetchOK,
                  FetchFails, IInv, TypeOK
    <2>3. QED
      BY <2>2, KeySourceAssumption DEF RefreshDue, IInv, TypeOK, AttemptRecorded
  <1>2. QED
    BY <1>1, Invariance, PTL DEF Spec, RefreshesBackOff

\* No refresh takes the cached keys away.
THEOREM KeysKept == Spec => FailedRefreshKeepsKeys
  <1>1. [Next]_vars => [CachedKeysKept]_vars
    BY DEF Next, Rotate, Tick, Call, Step, Acquire, Serve, FetchOK, FetchFails,
           CachedKeysKept, vars
  <1>2. QED
    BY <1>1, PTL DEF Spec, FailedRefreshKeepsKeys

\* A withdrawn key is forgotten within an interval and a fetch.
THEOREM WithdrawalBounded == Spec => WithdrawnKeysExpire
  <1>1. IInv /\ [Next]_vars => [TokenVerifies => failed' \/ keysAge' < Oldest]_vars
    <2> SUFFICES ASSUME IInv, Next, TokenVerifies PROVE failed' \/ keysAge' < Oldest
      OBVIOUS
    <2>1. PICK v \in Verifiers : pc[v] \in {"waiting", "served"} /\ pc'[v] = "found"
      BY DEF TokenVerifies
    <2>2. (Acquire(v) /\ ~RefreshDue) \/ FetchOK(v) \/ FetchFails(v)
      BY <2>1 DEF Next, Rotate, Tick, Call, Step, Acquire, Resolve, Serve, FetchOK,
                  FetchFails, IInv, TypeOK
    <2>3. CASE Acquire(v) /\ ~RefreshDue
      BY <2>3, KeySourceAssumption
      DEF Acquire, RefreshDue, IInv, TypeOK, KeysAreFresh, Oldest
    <2>4. CASE FetchOK(v)
      BY <2>4, KeySourceAssumption DEF FetchOK, IInv, TypeOK, Oldest
    <2>5. CASE FetchFails(v)
      BY <2>5 DEF FetchFails
    <2>6. QED
      BY <2>2, <2>3, <2>4, <2>5
  <1>2. QED
    BY <1>1, Invariance, PTL DEF Spec, WithdrawnKeysExpire

-----------------------------------------------------------------------------
(* The key source under the server. *)

\* A step of the server is a step of the key source or leaves it alone.
LEMMA KeySourceSteps == [ServerNext]_allVars => [Next]_vars
  <1>1. KeyStep => Next
    BY DEF KeyStep, Next
  <1>2. ASSUME NEW v \in Verifiers, Arrive(v) PROVE [Next]_vars
    BY <1>2 DEF Arrive, Next
  <1>3. ASSUME NEW v \in Verifiers, Handle(v) PROVE UNCHANGED vars
    BY <1>3 DEF Handle, Unverified, Verify, Search, Upsert, Embed, WriteRecord, WriteBreaks
  <1>4. QED
    BY <1>1, <1>2, <1>3 DEF ServerNext, allVars

\* The requests of the server use the key source as its specification says (auth.go,
\* key): one caller at a time fetches, whatever the tools do in between.
THEOREM ImplementsKeySource == ServerSpec => Spec
  <1>1. ServerInit => Init
    BY DEF ServerInit
  <1>2. QED
    BY <1>1, KeySourceSteps, PTL DEF ServerSpec, Spec

\* The server's requests ask the endpoint for keys at most once per interval while
\* keys are cached.
THEOREM ServerBacksOff == ServerSpec => RefreshesBackOff
  BY ImplementsKeySource, BackOff, PTL

\* A key that was withdrawn verifies no request of the server for longer than an
\* interval and a fetch.
THEOREM ServerForgetsKeys == ServerSpec => WithdrawnKeysExpire
  BY ImplementsKeySource, WithdrawalBounded, PTL

-----------------------------------------------------------------------------
(* Servers and pages. *)

\* What New makes of a configuration: limits that are positive, and an authentication
\* block validateAuth accepted.
LEMMA ServerFacts ==
    ASSUME launch \in DOMAIN Servers
    PROVE  /\ server.limit \in Nat \ {0} /\ server.maxLimit \in Nat \ {0}
           /\ AuthAccepted(server.auth)
  <1> DEFINE s == Launches[launch]
  <1>1. launch \in DOMAIN Launches /\ Starts(s) /\ server = NewServer(s)
    BY DEF Servers, server
  <1>2. /\ s.config.defaultLimit \in Int /\ s.config.maxLimit \in Int
        /\ Limits.default \in Nat \ {0} /\ Limits.max \in Nat \ {0}
    BY <1>1, ServerAssumption
  <1>3. /\ server.auth = authEnvOverrides(s.config.auth, s.env)
        /\ server.limit = OrDefault(s.config.defaultLimit, Limits.default)
        /\ server.maxLimit = OrDefault(s.config.maxLimit, Limits.max)
    BY <1>1 DEF NewServer
  <1>4. AuthAccepted(server.auth)
    BY <1>1, <1>3 DEF Starts
  <1>5. QED
    BY <1>2, <1>3, <1>4 DEF OrDefault

\* A server without authentication has no scopes (validateAuth).
LEMMA NoScopesWithoutAuth ==
    ASSUME launch \in DOMAIN Servers, ~Enabled(server.auth)
    PROVE  /\ server.auth.requiredScopes = {}
           /\ server.auth.readScope = None /\ server.auth.writeScope = None
  <1>1. \A f \in JWTFields : server.auth[f] = Unset[f]
    BY ServerFacts DEF AuthAccepted, Enabled
  <1>2. QED
    BY <1>1 DEF JWTFields, Unset

\* A page has no more records than there are matches.
LEMMA ShownBound ==
    ASSUME NEW semantic, NEW m \in Nat, NEW o \in Int, NEW l \in Nat \ {0}
    PROVE  ShownOf(semantic, m, o, l) \in 0..m
  BY DEF ShownOf

\* The page of a search has no more records than documents.
LEMMA PageBound ==
    ASSUME launch \in DOMAIN Servers,
           NEW m \in 0..Cardinality(Indexed), NEW q \in ToolCalls, q.tool = "search"
    PROVE  ShownOf(server.semantic, m, q.offset, clampLimit(server, q.limit))
             \in 0..Cardinality(Ids)
  <1>1. q.limit \in Int /\ q.offset \in Int
    BY ServerAssumption DEF ToolCall
  <1>2. clampLimit(server, q.limit) \in Nat \ {0}
    BY <1>1, ServerFacts DEF clampLimit
  <1>3. /\ Cardinality(Indexed) \in Nat /\ Cardinality(Ids) \in Nat
        /\ Cardinality(Indexed) <= Cardinality(Ids)
    BY ServerAssumption, FS_Subset, FS_CardinalityType DEF Indexed
  <1>4. m \in Nat /\ m <= Cardinality(Ids)
    BY <1>3
  <1>5. ShownOf(server.semantic, m, q.offset, clampLimit(server, q.limit)) \in 0..m
    BY <1>1, <1>2, <1>4, ShownBound
  <1>6. QED
    BY <1>3, <1>4, <1>5

-----------------------------------------------------------------------------
(* Records. *)

\* The records of an upsert are records to write.
LEMMA CallRecords ==
    ASSUME NEW q \in ToolCalls, q.tool = "upsert"
    PROVE  /\ q.records \in Seq(Record)
           /\ \A i \in DOMAIN q.records : q.records[i].vector \in {Own, None}
  <1> DEFINE R == [id : Ids, text : Text, vector : {Own, None}]
  <1>1. q.records \in Seq(R)
    BY ServerAssumption DEF ToolCall
  <1>2. \A r \in R : r \in Record /\ r.vector \in {Own, None}
    BY DEF Record, Vector
  <1> HIDE DEF R
  <1>3. /\ Len(q.records) \in Nat /\ DOMAIN q.records = 1..Len(q.records)
        /\ q.records \in [1..Len(q.records) -> R]
    BY <1>1
  <1>4. q.records \in [1..Len(q.records) -> Record]
    BY <1>2, <1>3
  <1>5. q.records \in Seq(Record)
    BY <1>3, <1>4, SeqDef
  <1>6. QED
    BY <1>2, <1>3, <1>5

\* Embedding keeps a list of records a list of records (embedRecords).
LEMMA EmbeddedType ==
    ASSUME NEW rs \in Seq(Record)
    PROVE  /\ EmbeddedRecords(rs) \in Seq(Record)
           /\ DOMAIN EmbeddedRecords(rs) = DOMAIN rs
  <1>1. \A i \in DOMAIN rs : rs[i] \in Record
    OBVIOUS
  <1>2. ASSUME NEW i \in DOMAIN rs PROVE EmbeddedRecords(rs)[i] \in Record
    <2>1. CASE i \in Targets(rs)
      <3>1. rs[i].text \in Texts
        BY <2>1 DEF Targets
      <3>2. [rs[i] EXCEPT !.vector = rs[i].text] \in Record
        BY <1>1, <3>1 DEF Record, Vector
      <3>3. QED
        BY <2>1, <3>2 DEF EmbeddedRecords
    <2>2. CASE i \notin Targets(rs)
      BY <1>1, <2>2 DEF EmbeddedRecords
    <2>3. QED
      BY <2>1, <2>2
  <1>3. DOMAIN rs = 1..Len(rs) /\ Len(rs) \in Nat
    OBVIOUS
  <1>4. DOMAIN EmbeddedRecords(rs) = 1..Len(rs)
    BY <1>3 DEF EmbeddedRecords
  <1>5. EmbeddedRecords(rs) \in [1..Len(rs) -> Record]
    BY <1>2, <1>3, <1>4 DEF EmbeddedRecords
  <1>6. QED
    BY <1>3, <1>4, <1>5, SeqDef

\* The pipeline has a next command while more than one record is left.
LEMMA LongerTail ==
    ASSUME NEW S, NEW s \in Seq(S), s # <<>>, Len(s) # 1
    PROVE  Tail(s) \in Seq(S) /\ Tail(s) # <<>>
  <1>1. Len(s) \in Nat \ {0}
    OBVIOUS
  <1>2. Tail(s) \in Seq(S) /\ Len(Tail(s)) = Len(s) - 1
    OBVIOUS
  <1>3. Len(Tail(s)) # 0
    BY <1>1, <1>2
  <1>4. Len(<<>>) = 0
    OBVIOUS
  <1>5. Tail(s) # <<>>
    BY <1>3, <1>4, Zenon
  <1>6. QED
    BY <1>2, <1>5

\* What HSET merges is a document.
LEMMA MergeType ==
    ASSUME NEW d \in [text : Text, vector : Vector], NEW r \in Record
    PROVE  Merge(d, r) \in [text : Text, vector : Vector]
  BY DEF Merge, Record

-----------------------------------------------------------------------------
(* The types of the server. *)

\* The part of ServerTypeOK that the server's own variables have, with as much as the
\* upsert tool needs to know of the records of an upsert.
RequestsOK ==
    /\ launch \in DOMAIN Servers
    /\ docs \in [Ids -> [text : Text, vector : Vector]]
    /\ stage \in [Verifiers -> {"idle", "token", "tool", "embedding", "writing"}]
    /\ token \in [Verifiers -> Tokens \union {NoToken}]
    /\ work \in [Verifiers -> Seq(Record)]
    /\ \A v \in Verifiers : stage[v] \in {"idle", "token", "tool"} <=> work[v] = <<>>
    /\ shown \in 0..Cardinality(Ids) \union {None}

\* An answer keeps the types.
LEMMA RespondOK ==
    ASSUME RequestsOK, NEW v \in Verifiers, NEW n \in 0..Cardinality(Ids) \union {None},
           Respond(v, n), launch' = launch,
           docs' \in [Ids -> [text : Text, vector : Vector]]
    PROVE  RequestsOK'
  <1>1. <<>> \in Seq(Record)
    OBVIOUS
  <1>2. work' \in [Verifiers -> Seq(Record)]
    BY <1>1 DEF Respond, RequestsOK
  <1>3. stage' \in [Verifiers -> {"idle", "token", "tool", "embedding", "writing"}]
    BY DEF Respond, RequestsOK
  <1>4. token' \in [Verifiers -> Tokens \union {NoToken}]
    BY DEF Respond, RequestsOK
  <1>5. \A w \in Verifiers : stage'[w] \in {"idle", "token", "tool"} <=> work'[w] = <<>>
    BY DEF Respond, RequestsOK
  <1>6. shown' \in 0..Cardinality(Ids) \union {None}
    BY DEF Respond
  <1>7. DOMAIN Servers' = DOMAIN Servers
    BY DEF Servers
  <1>8. QED
    BY <1>2, <1>3, <1>4, <1>5, <1>6, <1>7 DEF RequestsOK

\* A request that goes on keeps the types.
LEMMA ContinueOK ==
    ASSUME RequestsOK, NEW v \in Verifiers,
           NEW s \in {"token", "tool", "embedding", "writing"}, Continue(v, s),
           launch' = launch,
           docs' \in [Ids -> [text : Text, vector : Vector]],
           token' \in [Verifiers -> Tokens \union {NoToken}],
           work' \in [Verifiers -> Seq(Record)],
           \A w \in Verifiers \ {v} : work'[w] = work[w],
           s \in {"token", "tool"} <=> work'[v] = <<>>
    PROVE  RequestsOK'
  <1>1. /\ stage' \in [Verifiers -> {"idle", "token", "tool", "embedding", "writing"}]
        /\ stage'[v] = s /\ \A w \in Verifiers \ {v} : stage'[w] = stage[w]
    BY DEF Continue, RequestsOK
  <1>2. \A w \in Verifiers : stage'[w] \in {"idle", "token", "tool"} <=> work'[w] = <<>>
    BY <1>1 DEF RequestsOK
  <1>3. shown' = None
    BY DEF Continue
  <1>4. QED
    BY <1>1, <1>2, <1>3 DEF RequestsOK

\* A step keeps the types.
LEMMA RequestStep ==
    ASSUME RequestsOK, [ServerNext]_allVars
    PROVE  RequestsOK'
  <1>1. CASE KeyStep
    BY <1>1 DEF KeyStep, RequestsOK
  <1>2. CASE UNCHANGED allVars
    BY <1>2 DEF allVars, serverVars, RequestsOK
  <1>3. ASSUME NEW v \in Verifiers, Arrive(v) PROVE RequestsOK'
    <2>1. Continue(v, "token") /\ UNCHANGED <<launch, docs, token, work>>
      BY <1>3 DEF Arrive
    <2>2. work'[v] = <<>>
      BY <1>3, <2>1 DEF Arrive, RequestsOK
    <2>3. QED
      BY <2>1, <2>2, ContinueOK DEF RequestsOK
  <1>4. ASSUME NEW v \in Verifiers, Handle(v) PROVE RequestsOK'
    <2>1. CASE Unverified(v)
      BY <2>1, RespondOK DEF Unverified, RequestsOK
    <2>2. CASE Verify(v)
      <3>1. CASE Respond(v, None)
        BY <2>2, <3>1, RespondOK DEF Verify, RequestsOK
      <3>2. CASE ~Respond(v, None)
        <4>1. /\ Continue(v, "tool") /\ UNCHANGED <<launch, docs, work>>
              /\ token' \in [Verifiers -> Tokens \union {NoToken}]
          BY <2>2, <3>2 DEF Verify, RequestsOK
        <4>2. work'[v] = <<>>
          BY <2>2, <4>1 DEF Verify, RequestsOK
        <4>3. QED
          BY <4>1, <4>2, ContinueOK DEF RequestsOK
      <3>3. QED
        BY <3>1, <3>2
    <2>3. ASSUME NEW q \in ToolCalls, Search(v, q) PROVE RequestsOK'
      <3>1. launch' = launch /\ docs' = docs /\ q.tool = "search"
        BY <2>3 DEF Search
      <3>2. CASE Respond(v, None)
        BY <3>1, <3>2, RespondOK DEF RequestsOK
      <3>3. CASE ~Respond(v, None)
        <4>1. PICK m \in 0..Cardinality(Indexed) :
                Respond(v, ShownOf(server.semantic, m, q.offset, clampLimit(server, q.limit)))
          BY <2>3, <3>3 DEF Search
        <4>2. ShownOf(server.semantic, m, q.offset, clampLimit(server, q.limit))
                \in 0..Cardinality(Ids)
          BY <3>1, PageBound DEF RequestsOK
        <4>3. QED
          BY <3>1, <4>1, <4>2, RespondOK DEF RequestsOK
      <3>4. QED
        BY <3>2, <3>3
    <2>4. ASSUME NEW q \in ToolCalls, Upsert(v, q) PROVE RequestsOK'
      <3>1. launch' = launch /\ docs' = docs /\ q.tool = "upsert"
        BY <2>4 DEF Upsert
      <3>2. CASE UpsertAccepted(v, q)
        <4>1. /\ Continue(v, IF Targets(q.records) = {} THEN "writing" ELSE "embedding")
              /\ work' = [work EXCEPT ![v] = q.records] /\ token' = token
          BY <2>4, <3>2 DEF Upsert
        <4>2. q.records \in Seq(Record) /\ q.records # <<>>
          BY <3>1, <3>2, CallRecords DEF UpsertAccepted
        <4>3. QED
          BY <3>1, <4>1, <4>2, ContinueOK DEF RequestsOK
      <3>3. CASE ~UpsertAccepted(v, q)
        BY <2>4, <3>1, <3>3, RespondOK DEF Upsert, RequestsOK
      <3>4. QED
        BY <3>2, <3>3
    <2>5. CASE Embed(v)
      <3>1. launch' = launch /\ docs' = docs /\ stage[v] = "embedding"
        BY <2>5 DEF Embed
      <3>2. CASE Respond(v, None)
        BY <3>1, <3>2, RespondOK DEF RequestsOK
      <3>3. CASE ~Respond(v, None)
        <4>1. /\ Continue(v, "writing") /\ token' = token
              /\ work' = [work EXCEPT ![v] = EmbeddedRecords(work[v])]
          BY <2>5, <3>3 DEF Embed
        <4>2. work[v] \in Seq(Record) /\ work[v] # <<>>
          BY <3>1 DEF RequestsOK
        <4>3. EmbeddedRecords(work[v]) \in Seq(Record) /\ EmbeddedRecords(work[v]) # <<>>
          BY <4>2, EmbeddedType
        <4>4. QED
          BY <3>1, <4>1, <4>3, ContinueOK DEF RequestsOK
      <3>4. QED
        BY <3>2, <3>3
    <2>6. CASE WriteRecord(v)
      <3>1. launch' = launch /\ stage[v] = "writing"
        BY <2>6 DEF WriteRecord
      <3>2. work[v] \in Seq(Record) /\ work[v] # <<>>
        BY <3>1 DEF RequestsOK
      <3>3. docs' \in [Ids -> [text : Text, vector : Vector]]
        <4>1. Head(work[v]) \in Record
          BY <3>2
        <4>2. docs' = [docs EXCEPT ![Head(work[v]).id] =
                         Merge(docs[Head(work[v]).id], Head(work[v]))]
          BY <2>6 DEF WriteRecord
        <4>3. Head(work[v]).id \in Ids
          BY <4>1 DEF Record
        <4>4. Merge(docs[Head(work[v]).id], Head(work[v])) \in [text : Text, vector : Vector]
          BY <4>1, <4>3, MergeType DEF RequestsOK
        <4>5. QED
          BY <4>2, <4>3, <4>4 DEF RequestsOK
      <3>4. CASE Len(work[v]) = 1
        BY <2>6, <3>1, <3>3, <3>4, RespondOK DEF WriteRecord, RequestsOK
      <3>5. CASE Len(work[v]) # 1
        <4>1. /\ Continue(v, "writing") /\ token' = token
              /\ work' = [work EXCEPT ![v] = Tail(work[v])]
          BY <2>6, <3>5 DEF WriteRecord
        <4>2. Tail(work[v]) \in Seq(Record) /\ Tail(work[v]) # <<>>
          BY <3>2, <3>5, LongerTail
        <4>3. QED
          BY <3>1, <3>3, <4>1, <4>2, ContinueOK DEF RequestsOK
      <3>6. QED
        BY <3>4, <3>5
    <2>7. CASE WriteBreaks(v)
      BY <2>7, RespondOK DEF WriteBreaks, RequestsOK
    <2>8. QED
      BY <1>4, <2>1, <2>2, <2>3, <2>4, <2>5, <2>6, <2>7 DEF Handle
  <1>5. QED
    BY <1>1, <1>2, <1>3, <1>4 DEF ServerNext

\* Before the first request nothing is being handled.
LEMMA RequestsInit == ServerInit => RequestsOK
  <1> SUFFICES ASSUME ServerInit PROVE RequestsOK
    OBVIOUS
  <1>1. <<>> \in Seq(Record)
    OBVIOUS
  <1>2. docs \in [Ids -> [text : Text, vector : Vector]]
    BY DEF ServerInit, Text, Vector
  <1>3. QED
    BY <1>1, <1>2 DEF ServerInit, RequestsOK

\* The server, its requests and the key cache keep their types; in particular no page
\* has more records than there are documents.
THEOREM ServerTypeCorrect == ServerSpec => []ServerTypeOK
  <1>1. RequestsOK /\ [ServerNext]_allVars => RequestsOK'
    BY RequestStep
  <1>2. TypeOK /\ RequestsOK => ServerTypeOK
    BY DEF RequestsOK, ServerTypeOK
  <1>3. QED
    BY <1>1, <1>2, RequestsInit, ImplementsKeySource, TypeCorrect, PTL DEF ServerSpec
-----------------------------------------------------------------------------
(* Embeddings. *)

\* A record that is written as it is has the embedding of its text, or a vector of the
\* client's.
Written(r) == IF r.text \in Texts THEN r.vector \in {r.text, Own} ELSE r.vector \in {Own, None}

\* The records of an upsert, before and after they were embedded.
WorkIsEmbedded ==
    server.embeds =>
        \A v \in Verifiers : \A i \in DOMAIN work[v] :
            \/ Written(work[v][i])
            \/ /\ stage[v] = "embedding" /\ i \in Targets(work[v])
               /\ work[v][i].vector \in {Own, None}

\* The requests that a step does not answer or advance keep their records.
LEMMA OthersKeepWork ==
    ASSUME RequestsOK, WorkIsEmbedded, launch' = launch, NEW v \in Verifiers,
           \A w \in Verifiers \ {v} : work'[w] = work[w] /\ stage'[w] = stage[w],
           server.embeds => \A i \in DOMAIN work'[v] :
               \/ Written(work'[v][i])
               \/ /\ stage'[v] = "embedding" /\ i \in Targets(work'[v])
                  /\ work'[v][i].vector \in {Own, None}
    PROVE  WorkIsEmbedded'
  <1>1. server' = server
    BY DEF server, Servers
  <1>2. SUFFICES ASSUME server.embeds, NEW w \in Verifiers, NEW i \in DOMAIN work'[w]
                 PROVE  \/ Written(work'[w][i])
                        \/ /\ stage'[w] = "embedding" /\ i \in Targets(work'[w])
                           /\ work'[w][i].vector \in {Own, None}
    BY <1>1 DEF WorkIsEmbedded, Targets, Written
  <1>3. CASE w = v
    BY <1>2, <1>3
  <1>4. CASE w # v
    BY <1>2, <1>4 DEF WorkIsEmbedded
  <1>5. QED
    BY <1>3, <1>4

\* An answered request has no records.
LEMMA RespondWork ==
    ASSUME RequestsOK, WorkIsEmbedded, launch' = launch,
           NEW v \in Verifiers, NEW n, Respond(v, n)
    PROVE  WorkIsEmbedded'
  <1>1. work'[v] = <<>> /\ \A w \in Verifiers \ {v} : work'[w] = work[w] /\ stage'[w] = stage[w]
    BY DEF Respond, RequestsOK
  <1>2. QED
    BY <1>1, OthersKeepWork

\* A step keeps the records embedded.
LEMMA WorkStep ==
    ASSUME RequestsOK, WorkIsEmbedded, [ServerNext]_allVars
    PROVE  WorkIsEmbedded'
  <1> USE DEF RequestsOK
  <1>1. CASE KeyStep \/ UNCHANGED allVars
    BY <1>1 DEF KeyStep, allVars, serverVars, WorkIsEmbedded, server, Servers, Targets, Written
  <1>2. ASSUME NEW v \in Verifiers, Arrive(v) PROVE WorkIsEmbedded'
    <2>1. /\ launch' = launch /\ work' = work /\ work[v] = <<>>
          /\ \A w \in Verifiers \ {v} : stage'[w] = stage[w]
      BY <1>2 DEF Arrive, Continue
    <2>2. QED
      BY <2>1, OthersKeepWork
  <1>3. ASSUME NEW v \in Verifiers, Handle(v) PROVE WorkIsEmbedded'
    <2>1. CASE \E n : Respond(v, n)
      <3>1. launch' = launch
        BY <1>3 DEF Handle, Unverified, Verify, Search, Upsert, Embed, WriteRecord, WriteBreaks
      <3>2. QED
        BY <2>1, <3>1, RespondWork
    <2>2. CASE Verify(v) /\ ~\E n : Respond(v, n)
      <3>1. /\ launch' = launch /\ work' = work /\ work[v] = <<>>
            /\ \A w \in Verifiers \ {v} : stage'[w] = stage[w]
        BY <2>2 DEF Verify, Continue
      <3>2. QED
        BY <3>1, OthersKeepWork
    <2>3. ASSUME NEW q \in ToolCalls, Upsert(v, q), ~\E n : Respond(v, n)
          PROVE  WorkIsEmbedded'
      <3>1. /\ Continue(v, IF Targets(q.records) = {} THEN "writing" ELSE "embedding")
            /\ work' = [work EXCEPT ![v] = q.records]
            /\ launch' = launch /\ q.tool = "upsert"
        BY <2>3 DEF Upsert
      <3>2. /\ work'[v] = q.records
            /\ stage'[v] = IF Targets(q.records) = {} THEN "writing" ELSE "embedding"
            /\ \A w \in Verifiers \ {v} : work'[w] = work[w] /\ stage'[w] = stage[w]
        BY <3>1 DEF Continue
      <3>3. ASSUME server.embeds, NEW i \in DOMAIN q.records
            PROVE  \/ Written(q.records[i])
                   \/ /\ stage'[v] = "embedding" /\ i \in Targets(q.records)
                      /\ q.records[i].vector \in {Own, None}
        <4>1. q.records[i].vector \in {Own, None}
          BY <3>1, <3>3, CallRecords
        <4>2. CASE i \in Targets(q.records)
          BY <3>2, <4>1, <4>2
        <4>3. CASE i \notin Targets(q.records)
          BY <3>3, <4>1, <4>3 DEF Targets, Written
        <4>4. QED
          BY <4>2, <4>3
      <3>4. QED
        BY <3>1, <3>2, <3>3, OthersKeepWork
    <2>4. CASE Embed(v) /\ ~\E n : Respond(v, n)
      <3>1. /\ Continue(v, "writing") /\ launch' = launch
            /\ work' = [work EXCEPT ![v] = EmbeddedRecords(work[v])]
        BY <2>4 DEF Embed
      <3>2. /\ work'[v] = EmbeddedRecords(work[v])
            /\ \A w \in Verifiers \ {v} : work'[w] = work[w] /\ stage'[w] = stage[w]
        BY <3>1 DEF Continue
      <3>3. work[v] \in Seq(Record) /\ DOMAIN work'[v] = DOMAIN work[v]
        BY <3>2, EmbeddedType
      <3>4. ASSUME server.embeds, NEW i \in DOMAIN work[v] PROVE Written(work'[v][i])
        <4>1. work[v][i] \in Record
          BY <3>3, <3>4
        <4>2. CASE i \in Targets(work[v])
          <5>1. work'[v][i] = [work[v][i] EXCEPT !.vector = work[v][i].text]
            BY <3>2, <3>4, <4>2 DEF EmbeddedRecords
          <5>2. work'[v][i].text = work[v][i].text /\ work'[v][i].vector = work[v][i].text
            BY <4>1, <5>1 DEF Record
          <5>3. work[v][i].text \in Texts
            BY <4>2 DEF Targets
          <5>4. QED
            BY <5>2, <5>3 DEF Written
        <4>3. CASE i \notin Targets(work[v])
          BY <3>2, <3>4, <4>3 DEF EmbeddedRecords, WorkIsEmbedded
        <4>4. QED
          BY <4>2, <4>3
      <3>5. QED
        BY <3>1, <3>2, <3>3, <3>4, OthersKeepWork
    <2>5. CASE WriteRecord(v) /\ ~\E n : Respond(v, n)
      <3>1. /\ Continue(v, "writing") /\ launch' = launch /\ stage[v] = "writing"
            /\ work' = [work EXCEPT ![v] = Tail(work[v])]
        BY <2>5 DEF WriteRecord
      <3>2. /\ work'[v] = Tail(work[v])
            /\ \A w \in Verifiers \ {v} : work'[w] = work[w] /\ stage'[w] = stage[w]
        BY <3>1 DEF Continue
      <3>3. work[v] \in Seq(Record) /\ work[v] # <<>>
        BY <3>1
      <3>4. ASSUME server.embeds, NEW i \in DOMAIN Tail(work[v])
            PROVE  Written(Tail(work[v])[i])
        <4>1. Tail(work[v])[i] = work[v][i + 1] /\ i + 1 \in DOMAIN work[v]
          BY <3>3, <3>4
        <4>2. Written(work[v][i + 1])
          BY <3>1, <3>4, <4>1 DEF WorkIsEmbedded
        <4>3. QED
          BY <4>1, <4>2
      <3>5. QED
        BY <3>1, <3>2, <3>4, OthersKeepWork
    <2>6. QED
      BY <1>3, <2>1, <2>2, <2>3, <2>4, <2>5 DEF Handle, Unverified, Search, WriteBreaks
  <1>4. QED
    BY <1>1, <1>2, <1>3 DEF ServerNext

\* What a pipeline command merges into a document keeps the embedding of its text.
LEMMA DocsStep ==
    ASSUME RequestsOK, WorkIsEmbedded, EmbeddingFollowsText, [ServerNext]_allVars
    PROVE  EmbeddingFollowsText'
  <1> USE DEF RequestsOK
  <1>1. launch' = launch
    BY DEF ServerNext, allVars, serverVars, KeyStep, Arrive, Handle, Unverified, Verify,
           Search, Upsert, Embed, WriteRecord, WriteBreaks
  <1>2. CASE docs' = docs
    BY <1>1, <1>2 DEF EmbeddingFollowsText, server, Servers
  <1>3. CASE docs' # docs
    <2>1. PICK v \in Verifiers : WriteRecord(v)
      BY <1>3 DEF ServerNext, allVars, serverVars, KeyStep, Arrive, Handle, Unverified, Verify,
           Search, Upsert, Embed, WriteBreaks
    <2> DEFINE r == Head(work[v])
    <2>2. work[v] \in Seq(Record) /\ work[v] # <<>> /\ stage[v] = "writing"
      BY <2>1 DEF WriteRecord
    <2>3. r = work[v][1] /\ 1 \in DOMAIN work[v] /\ r \in Record
      BY <2>2
    <2>4. server.embeds => Written(r)
      BY <2>2, <2>3 DEF WorkIsEmbedded
    <2>5. docs' = [docs EXCEPT ![r.id] = Merge(docs[r.id], r)] /\ r.id \in Ids
      BY <2>1, <2>3 DEF WriteRecord, Record
    <2> HIDE DEF r
    <2>6. SUFFICES ASSUME server.embeds, NEW i \in Ids, docs'[i].text \in Texts
                   PROVE  docs'[i].vector \in {docs'[i].text, Own}
      BY <1>1 DEF EmbeddingFollowsText, server, Servers
    <2>7. CASE i # r.id
      BY <2>5, <2>6, <2>7 DEF EmbeddingFollowsText
    <2>8. CASE i = r.id
      <3>1. docs'[i] = Merge(docs[i], r)
        BY <2>5, <2>8
      <3>2. docs[i].text \in Texts => docs[i].vector \in {docs[i].text, Own}
        BY <2>6 DEF EmbeddingFollowsText
      <3>3. QED
        BY <2>4, <2>6, <3>1, <3>2, ServerAssumption DEF Merge, Written
    <2>9. QED
      BY <2>7, <2>8
  <1>4. QED
    BY <1>2, <1>3

\* Every document that has a text that can be embedded has the embedding of that text,
\* or a vector the client sent with it.
THEOREM EmbeddingsFollow == ServerSpec => []EmbeddingFollowsText
  <1>1. ServerInit => WorkIsEmbedded /\ EmbeddingFollowsText
    <2> SUFFICES ASSUME ServerInit PROVE WorkIsEmbedded /\ EmbeddingFollowsText
      OBVIOUS
    <2>1. \A v \in Verifiers : DOMAIN work[v] = {}
      BY DEF ServerInit
    <2>2. \A i \in Ids : docs[i].text \notin Texts
      BY ServerAssumption DEF ServerInit
    <2>3. QED
      BY <2>1, <2>2 DEF WorkIsEmbedded, EmbeddingFollowsText
  <1>2. /\ RequestsOK /\ WorkIsEmbedded /\ [ServerNext]_allVars
            => RequestsOK' /\ WorkIsEmbedded'
        /\ RequestsOK /\ WorkIsEmbedded /\ EmbeddingFollowsText /\ [ServerNext]_allVars
            => EmbeddingFollowsText'
    BY RequestStep, WorkStep, DocsStep
  <1>3. QED
    BY <1>1, <1>2, RequestsInit, PTL DEF ServerSpec
-----------------------------------------------------------------------------
(* Authorization. *)

\* A request that reached the tools has a verified token with the required scopes, and
\* one that writes has the write scope, on a server that is not read-only.
TokensGrant ==
    \A v \in Verifiers :
        /\ stage[v] \in {"tool", "embedding", "writing"} /\ Authenticated
             => token[v].valid /\ server.auth.requiredScopes \subseteq token[v].scp
        /\ stage[v] \in {"embedding", "writing"}
             => ~server.readOnly /\ HasScope(v, server.auth.writeScope)

\* The scope a tool asked for, and a verified token, are what Granted says.
LEMMA ScopeIsGranted ==
    ASSUME RequestsOK, TokensGrant, NEW v \in Verifiers, NEW scope,
           stage[v] \in {"tool", "writing"}, HasScope(v, scope),
           scope \in {server.auth.readScope, server.auth.writeScope}
    PROVE  Granted(v, scope)
  <1>1. CASE Authenticated
    <2>1. token[v].valid /\ server.auth.requiredScopes \subseteq token[v].scp
      BY <1>1 DEF TokensGrant
    <2>2. token[v] # NoToken
      BY <2>1 DEF NoToken
    <2>3. QED
      BY <1>1, <2>1, <2>2 DEF HasScope, Granted, authorizationValues, Authenticated
  <1>2. CASE ~server.http
    BY <1>2 DEF Granted
  <1>3. CASE ~Enabled(server.auth)
    BY <1>3, NoScopesWithoutAuth DEF Granted, RequestsOK
  <1>4. QED
    BY <1>1, <1>2, <1>3 DEF Authenticated

\* A step of the handler of v keeps the tokens granted if what it does to v does.
LEMMA OthersKeepToken ==
    ASSUME TokensGrant, launch' = launch, NEW v \in Verifiers,
           \A w \in Verifiers \ {v} : stage'[w] = stage[w] /\ token'[w] = token[w],
           stage'[v] \in {"tool", "embedding", "writing"} /\ Authenticated
             => token'[v].valid /\ server.auth.requiredScopes \subseteq token'[v].scp,
           stage'[v] \in {"embedding", "writing"}
             => ~server.readOnly /\ HasScope(v, server.auth.writeScope)'
    PROVE  TokensGrant'
  <1>1. server' = server
    BY DEF server, Servers
  <1>2. Authenticated' = Authenticated
    BY <1>1 DEF Authenticated
  <1>3. SUFFICES ASSUME NEW w \in Verifiers
        PROVE /\ stage'[w] \in {"tool", "embedding", "writing"} /\ Authenticated
                   => token'[w].valid /\ server.auth.requiredScopes \subseteq token'[w].scp
              /\ stage'[w] \in {"embedding", "writing"}
                   => ~server.readOnly /\ HasScope(w, server.auth.writeScope)'
    BY <1>1, <1>2 DEF TokensGrant
  <1>4. CASE w = v
    BY <1>4
  <1>5. CASE w # v
    BY <1>1, <1>2, <1>5 DEF TokensGrant, HasScope, authorizationValues
  <1>6. QED
    BY <1>4, <1>5

\* A step keeps the tokens granted.
LEMMA TokenStep ==
    ASSUME RequestsOK, TokensGrant, [ServerNext]_allVars
    PROVE  TokensGrant'
  <1> USE DEF RequestsOK
  <1>1. CASE KeyStep \/ UNCHANGED allVars
    BY <1>1 DEF KeyStep, allVars, serverVars, TokensGrant, Authenticated, HasScope,
                authorizationValues, server, Servers
  <1>2. ASSUME NEW v \in Verifiers, Arrive(v) PROVE TokensGrant'
    <2>1. /\ launch' = launch /\ token' = token /\ stage'[v] = "token"
          /\ \A w \in Verifiers \ {v} : stage'[w] = stage[w]
      BY <1>2 DEF Arrive, Continue
    <2>2. QED
      BY <2>1, OthersKeepToken
  <1>3. ASSUME NEW v \in Verifiers, Handle(v) PROVE TokensGrant'
    <2>1. launch' = launch
      BY <1>3 DEF Handle, Unverified, Verify, Search, Upsert, Embed, WriteRecord, WriteBreaks
    <2>2. CASE \E n : Respond(v, n)
      <3>1. /\ stage'[v] = "idle"
            /\ \A w \in Verifiers \ {v} : stage'[w] = stage[w] /\ token'[w] = token[w]
        BY <2>2 DEF Respond
      <3>2. QED
        BY <2>1, <3>1, OthersKeepToken
    <2>3. CASE Verify(v) /\ ~\E n : Respond(v, n)
      <3>1. /\ Continue(v, "tool")
            /\ \/ ~Authenticated /\ token' = token
               \/ \E t \in Tokens : /\ t.valid /\ server.auth.requiredScopes \subseteq t.scp
                                     /\ token' = [token EXCEPT ![v] = t]
        BY <2>3 DEF Verify
      <3>2. /\ stage'[v] = "tool"
            /\ \A w \in Verifiers \ {v} : stage'[w] = stage[w] /\ token'[w] = token[w]
            /\ Authenticated => /\ token'[v].valid
                                /\ server.auth.requiredScopes \subseteq token'[v].scp
        BY <3>1 DEF Continue
      <3>3. QED
        BY <2>1, <3>2, OthersKeepToken
    <2>4. ASSUME NEW q \in ToolCalls, Upsert(v, q), ~\E n : Respond(v, n)
          PROVE  TokensGrant'
      <3>1. /\ UpsertAccepted(v, q) /\ token' = token /\ stage[v] = "tool"
            /\ Continue(v, IF Targets(q.records) = {} THEN "writing" ELSE "embedding")
        BY <2>4 DEF Upsert
      <3>2. \A w \in Verifiers \ {v} : stage'[w] = stage[w]
        BY <3>1 DEF Continue
      <3>3. ~server.readOnly /\ HasScope(v, server.auth.writeScope)
        BY <3>1 DEF UpsertAccepted
      <3>4. HasScope(v, server.auth.writeScope)'
        BY <2>1, <3>1, <3>3 DEF HasScope, Authenticated, authorizationValues, server, Servers
      <3>5. Authenticated => /\ token'[v].valid
                             /\ server.auth.requiredScopes \subseteq token'[v].scp
        BY <3>1 DEF TokensGrant
      <3>6. QED
        BY <2>1, <3>1, <3>2, <3>3, <3>4, <3>5, OthersKeepToken
    <2>5. CASE (Embed(v) \/ WriteRecord(v)) /\ ~\E n : Respond(v, n)
      <3>1. /\ Continue(v, "writing") /\ token' = token /\ stage[v] \in {"embedding", "writing"}
        BY <2>5 DEF Embed, WriteRecord
      <3>2. \A w \in Verifiers \ {v} : stage'[w] = stage[w]
        BY <3>1 DEF Continue
      <3>3. /\ ~server.readOnly /\ HasScope(v, server.auth.writeScope)
            /\ Authenticated => /\ token'[v].valid
                                /\ server.auth.requiredScopes \subseteq token'[v].scp
        BY <3>1 DEF TokensGrant
      <3>4. HasScope(v, server.auth.writeScope)'
        BY <2>1, <3>1, <3>3 DEF HasScope, Authenticated, authorizationValues, server, Servers
      <3>5. QED
        BY <2>1, <3>1, <3>2, <3>3, <3>4, OthersKeepToken
    <2>6. QED
      BY <1>3, <2>2, <2>3, <2>4, <2>5 DEF Handle, Unverified, Search, WriteBreaks
  <1>4. QED
    BY <1>1, <1>2, <1>3 DEF ServerNext

\* Over HTTP a document changes only for a token with the write scope, and a page is
\* shown only for one with the read scope, for any configuration and environment.
THEOREM ToolsGranted == ServerSpec => ToolsAreGranted
  <1>1. ServerInit => TokensGrant
    BY DEF ServerInit, TokensGrant
  <1>2. RequestsOK /\ TokensGrant /\ [ServerNext]_allVars => RequestsOK' /\ TokensGrant'
    BY RequestStep, TokenStep
  <1>3. RequestsOK /\ TokensGrant /\ [ServerNext]_allVars
          => [WritesGranted /\ ReadsGranted]_allVars
    <2> SUFFICES ASSUME RequestsOK, TokensGrant, ServerNext
                 PROVE  WritesGranted /\ ReadsGranted
      OBVIOUS
    <2>1. WritesGranted
      <3>1. SUFFICES ASSUME docs' # docs
                     PROVE  /\ ~server.readOnly
                            /\ \E v \in Verifiers : /\ stage[v] = "writing"
                                                    /\ Granted(v, server.auth.writeScope)
        BY DEF WritesGranted
      <3>2. PICK v \in Verifiers : WriteRecord(v)
        BY <3>1 DEF ServerNext, KeyStep, Arrive, Handle, Unverified, Verify, Search, Upsert,
                    Embed, WriteBreaks
      <3>3. stage[v] = "writing"
        BY <3>2 DEF WriteRecord
      <3>4. ~server.readOnly /\ HasScope(v, server.auth.writeScope)
        BY <3>3 DEF TokensGrant
      <3>5. QED
        BY <3>3, <3>4, ScopeIsGranted
    <2>2. ReadsGranted
      <3>1. SUFFICES ASSUME shown' # None
                     PROVE  \E v \in Verifiers : /\ stage[v] = "tool" /\ stage'[v] = "idle"
                                                 /\ Granted(v, server.auth.readScope)
        BY DEF ReadsGranted
      <3>2. PICK v \in Verifiers, q \in ToolCalls : Search(v, q)
        BY <3>1 DEF ServerNext, KeyStep, Arrive, Handle, Unverified, Verify, Upsert, Embed,
                    WriteRecord, WriteBreaks, Continue, Respond
      <3>3. /\ stage[v] = "tool" /\ stage'[v] = "idle"
            /\ HasScope(v, server.auth.readScope)
        BY <3>1, <3>2 DEF Search, Respond, RequestsOK
      <3>4. QED
        BY <3>3, ScopeIsGranted
    <2>3. QED
      BY <2>1, <2>2
  <1>4. QED
    BY <1>1, <1>2, <1>3, RequestsInit, PTL DEF ServerSpec, ToolsAreGranted
=============================================================================
