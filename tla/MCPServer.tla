----------------------------- MODULE MCPServer -----------------------------
(***************************************************************************)
(* The MCP server (mcpserver/server.go, tools.go): requests over one search *)
(* index, each verified with a key of module KeySource, then dispatched to a *)
(* tool.  search-records answers with a page, upsert-records embeds the texts *)
(* of its records and loads them with HSET.  Requests run concurrently, one   *)
(* goroutine each, and share the key cache and the index.                   *)
(***************************************************************************)
EXTENDS KeySource, MCPConfig

CONSTANTS Launches,   \* the ways the server may be started, numbered
          Tokens,     \* what a verified key leaves to check of a token
          ToolCalls,  \* the calls of the tools clients make
          Ids,        \* document ids
          Texts,      \* texts that can be embedded
          Blank,      \* a text that cannot: empty, or not a string
          Own         \* a vector the client sends itself

\* valid: signature, issuer, audience, algorithm, expiry and required claims hold.
Token == [valid : BOOLEAN, scp : SUBSET Scopes, roles : SUBSET Scopes]

Text   == Texts \union {Blank, None}
Vector == Texts \union {Own, None}
Record == [id : Ids, text : Text, vector : Vector]

ToolCall == [tool : {"search"}, limit : Int, offset : Int, empty : BOOLEAN]
                \union [tool : {"upsert"}, records : Seq([id : Ids, text : Text, vector : {Own, None}])]

NoToken == [valid |-> FALSE, scp |-> {}, roles |-> {}]

ASSUME ServerAssumption ==
    /\ Tokens \subseteq Token
    /\ ToolCalls \subseteq ToolCall
    /\ Texts \intersect {None, Own, Blank} = {} /\ Own # None
    /\ None \notin Scopes
    /\ IsFiniteSet(Ids)
    /\ \A l \in DOMAIN Launches :
           LET c == Launches[l].config
           IN  c.defaultLimit \in Int /\ c.maxLimit \in Int /\ c.maxUpsert \in Int
    /\ Limits \in [default : Nat \ {0}, max : Nat \ {0}, upsert : Nat \ {0}]

\* What New makes of the launches that start.
Servers == [l \in {k \in DOMAIN Launches : Starts(Launches[k])} |-> NewServer(Launches[l])]

VARIABLES
    launch,  \* the launch of this server
    docs,    \* docs[i]: the text and the vector of document i, None if it has none;
             \* a text is its own embedding
    stage,   \* stage[v]: "idle", "token", "tool", "embedding", "writing"
    token,   \* token[v]: the verified token of the request, or NoToken
    work,    \* work[v]: records the upsert has yet to embed and write
    shown    \* the number of records on the page the last step sent, None if it sent none

serverVars == <<launch, docs, stage, token, work, shown>>
allVars    == <<vars, serverVars>>

server == Servers[launch]

Indexed == {i \in Ids : docs[i].text # None \/ docs[i].vector # None}

ServerTypeOK ==
    /\ TypeOK
    /\ launch \in DOMAIN Servers
    /\ docs \in [Ids -> [text : Text, vector : Vector]]
    /\ stage \in [Verifiers -> {"idle", "token", "tool", "embedding", "writing"}]
    /\ token \in [Verifiers -> Tokens \union {NoToken}]
    /\ work \in [Verifiers -> Seq(Record)]
    /\ \A v \in Verifiers : stage[v] \in {"idle", "token", "tool"} <=> work[v] = <<>>
    /\ shown \in 0..Cardinality(Ids) \union {None}

ServerInit ==
    /\ Init
    /\ launch \in DOMAIN Servers
    /\ docs = [i \in Ids |-> [text |-> None, vector |-> None]]
    /\ stage = [v \in Verifiers |-> "idle"]
    /\ token = [v \in Verifiers |-> NoToken]
    /\ work = [v \in Verifiers |-> <<>>]
    /\ shown = None

-----------------------------------------------------------------------------
(* The middleware: RunHTTP and RunSSE check tokens if authentication is       *)
(* enabled, stdio never does.  A static public key needs no key source.       *)

Authenticated == server.http /\ Enabled(server.auth)
UsesJWKS      == Authenticated /\ server.auth.publicKey = None

\* The request goes on at s, or has been answered.
Continue(v, s) == stage' = [stage EXCEPT ![v] = s] /\ shown' = None
Respond(v, n)  == /\ stage' = [stage EXCEPT ![v] = "idle"]
                  /\ token' = [token EXCEPT ![v] = NoToken]
                  /\ work' = [work EXCEPT ![v] = <<>>]
                  /\ shown' = n

Arrive(v) ==
    /\ stage[v] = "idle"
    /\ Continue(v, "token")
    /\ IF UsesJWKS THEN Call(v) ELSE UNCHANGED vars
    /\ UNCHANGED <<launch, docs, token, work>>

KeyFound(v) == UsesJWKS => pc[v] = "found"

Unverified(v) ==
    /\ stage[v] = "token" /\ UsesJWKS /\ pc[v] \in {"unknown", "error"}
    /\ Respond(v, None)
    /\ UNCHANGED <<vars, launch, docs>>

\* buildTokenVerifier, and the required scopes of RequireBearerToken.
Verify(v) ==
    /\ stage[v] = "token" /\ KeyFound(v)
    /\ UNCHANGED <<vars, launch, docs>>
    /\ IF ~Authenticated THEN Continue(v, "tool") /\ UNCHANGED <<token, work>>
       ELSE \E t \in Tokens :
              IF t.valid /\ server.auth.requiredScopes \subseteq t.scp
              THEN /\ Continue(v, "tool")
                   /\ token' = [token EXCEPT ![v] = t]
                   /\ UNCHANGED work
              ELSE Respond(v, None)

-----------------------------------------------------------------------------
(* The tools. *)

\* The values of the authorization claim: scp unless another is configured.
authorizationValues(t) ==
    IF server.auth.authorizationClaim = "roles" THEN t.roles ELSE t.scp

\* requireScope, which lets pass a request without a token: over stdio none has one.
HasScope(v, scope) ==
    Enabled(server.auth) /\ scope # None /\ token[v] # NoToken
        => scope \in authorizationValues(token[v])

\* A page of offset o and limit l of m matches.  The K of a vector search is the
\* limit (VectorQuery.Paging), so what lies behind the first l matches is on no page.
ShownOf(semantic, m, o, l) ==
    LET found == IF semantic /\ l < m THEN l ELSE m
        from  == IF o < 0 THEN 0 ELSE o
    IN  IF found <= from THEN 0 ELSE IF found - from < l THEN found - from ELSE l

\* doSearch: the query is embedded and the index searched, or either fails; the
\* filter leaves any number of matches.
Search(v, q) ==
    /\ stage[v] = "tool" /\ q.tool = "search"
    /\ \/ Respond(v, None)
       \/ /\ HasScope(v, server.auth.readScope) /\ ~q.empty
          /\ \E m \in 0..Cardinality(Indexed) :
                Respond(v, ShownOf(server.semantic, m, q.offset,
                                   clampLimit(server, q.limit)))
    /\ UNCHANGED <<vars, launch, docs>>

\* The records that are embedded.
Targets(rs) ==
    {i \in DOMAIN rs : /\ server.embeds
                       /\ ~(server.skip /\ rs[i].vector = Own)
                       /\ rs[i].text \in Texts}

UpsertAccepted(v, q) ==
    /\ ~server.readOnly
    /\ HasScope(v, server.auth.writeScope)
    /\ Len(q.records) \in 1..server.maxUpsert

Upsert(v, q) ==
    /\ stage[v] = "tool" /\ q.tool = "upsert"
    /\ UNCHANGED <<vars, launch, docs>>
    /\ IF UpsertAccepted(v, q)
       THEN /\ Continue(v, IF Targets(q.records) = {} THEN "writing" ELSE "embedding")
            /\ work' = [work EXCEPT ![v] = q.records]
            /\ UNCHANGED token
       ELSE Respond(v, None)

\* Mutant: the n-th embedding goes to the n-th record.
EmbeddedInOrder(rs) ==
    LET T     == Targets(rs)
        th(n) == CHOOSE t \in T : Cardinality({u \in T : u <= t}) = n
    IN  [i \in DOMAIN rs |-> IF i <= Cardinality(T)
                             THEN [rs[i] EXCEPT !.vector = rs[th(i)].text] ELSE rs[i]]

\* embedRecords: the n-th embedding goes to the n-th target.
EmbeddedRecords(rs) ==
    [i \in DOMAIN rs |-> IF i \in Targets(rs)
                         THEN [rs[i] EXCEPT !.vector = rs[i].text] ELSE rs[i]]

\* The vectorizer embeds all the texts, or fails and nothing is written.
Embed(v) ==
    /\ stage[v] = "embedding"
    /\ \/ /\ Continue(v, "writing")
          /\ work' = [work EXCEPT ![v] = EmbeddedRecords(@)]
          /\ UNCHANGED token
       \/ Respond(v, None)
    /\ UNCHANGED <<vars, launch, docs>>

\* HSET keeps the fields that the record does not have, JSON.SET does not.
Merge(doc, r) ==
    LET kept(old, new) == IF new = None /\ ~server.json THEN old ELSE new
    IN  [text |-> kept(doc.text, r.text), vector |-> kept(doc.vector, r.vector)]

\* The next command of Load's pipeline, or the pipeline breaks off.
WriteRecord(v) ==
    /\ stage[v] = "writing"
    /\ LET r == Head(work[v])
       IN  docs' = [docs EXCEPT ![r.id] = Merge(@, r)]
    /\ IF Len(work[v]) = 1 THEN Respond(v, None)
       ELSE /\ Continue(v, "writing")
            /\ work' = [work EXCEPT ![v] = Tail(@)]
            /\ UNCHANGED token
    /\ UNCHANGED <<vars, launch>>

WriteBreaks(v) ==
    /\ stage[v] = "writing"
    /\ Respond(v, None)
    /\ UNCHANGED <<vars, launch, docs>>

-----------------------------------------------------------------------------

KeyStep ==
    /\ Rotate \/ Tick \/ \E v \in Verifiers : Step(v)
    /\ shown' = None
    /\ UNCHANGED <<launch, docs, stage, token, work>>

Handle(v) ==
    \/ Unverified(v) \/ Verify(v)
    \/ \E q \in ToolCalls : Search(v, q) \/ Upsert(v, q)
    \/ Embed(v) \/ WriteRecord(v) \/ WriteBreaks(v)

ServerNext == KeyStep \/ \E v \in Verifiers : Arrive(v) \/ Handle(v)

ServerSpec == ServerInit /\ [][ServerNext]_allVars

\* A goroutine runs on, and the vectorizer and Redis answer or fail.
FairServerSpec == ServerSpec /\ Fairness /\ \A v \in Verifiers : WF_allVars(Handle(v))

-----------------------------------------------------------------------------

\* A document whose text can be embedded has the embedding of that text, or a vector a
\* client sent: whatever upserts merge into it, in whatever order their embeddings come
\* back and their pipelines break.  A text that cannot be embedded is no such text: it
\* leaves the embedding of the text before it in place.
EmbeddingFollowsText ==
    server.embeds =>
        \A i \in Ids : docs[i].text \in Texts => docs[i].vector \in {docs[i].text, Own}

\* The token of v was verified, has all required scopes, and the scope of the tool.
Granted(v, scope) ==
    LET a == server.auth
    IN  server.http =>
          /\ a.requiredScopes \subseteq token[v].scp
          /\ scope # None => /\ token[v].valid
                             /\ scope \in IF a.authorizationClaim = "roles" THEN token[v].roles
                                          ELSE token[v].scp

WritesGranted ==
    docs' # docs => /\ ~server.readOnly
                    /\ \E v \in Verifiers : /\ stage[v] = "writing"
                                            /\ Granted(v, server.auth.writeScope)
ReadsGranted ==
    shown' # None => \E v \in Verifiers : /\ stage[v] = "tool" /\ stage'[v] = "idle"
                                              /\ Granted(v, server.auth.readScope)

\* Over HTTP, a document changes only for a token with the required scopes and the
\* write scope, a page is shown only for one with the read scope, and a read-only server
\* changes nothing: a launch whose settings name scopes never serves without tokens
\* ("Fail loudly rather than silently running unauthenticated", config.go), unless the
\* environment disables authentication by name.
ToolsAreGranted == [][WritesGranted /\ ReadsGranted]_allVars

\* Every request is answered: none waits forever for the key source, behind the fetches
\* of others, for the vectorizer or for Redis, failing or not.
EveryRequestAnswered == \A v \in Verifiers : stage[v] # "idle" ~> stage[v] = "idle"
=============================================================================
