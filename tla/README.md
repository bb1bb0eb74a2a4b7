# A TLA+ model of redis-vl-golang

redis-vl-golang is a Go client library for Redis as a vector database: a search index over
documents, and on top of it caches, a router, a message history, clients of hosted models and an
MCP server. Little of it is concurrent inside, but everything it keeps is shared: goroutines and
processes use one Redis, one remote service, one cache directory. Its operations are several
commands long, its pipelines are not transactions, and any command may be lost. The modules here
have one step for each command, request or system call, and ask what survives their interleaving.
What is pure (filters, queries, schemas, configuration) is in modules of definitions, which the
concurrent modules use and which are checked against independent statements of their meaning.

1. [Inventory](#inventory)
2. [Modules and how they correspond to the code](#modules)
3. [What is checked](#runs)
4. [Bounds](#bounds) and [fairness](#fairness)
5. [What is proved](#proofs)
6. [What is only model-checked, and what is not modelled](#limits)
7. [Plan](#plan)

## Inventory

### The parts and their state

| Part | Source | State | Operations |
|---|---|---|---|
| SearchIndex | `index.go`, `batch.go`, `validate.go` | in Redis: the index and the documents under its prefix | `Create`, `Delete`, `Exists`, `Load`, `DropKeys`, `DropDocuments`, `ExpireKeys`, `Clear`; reads: `Paginate`, `BatchSearch`, `FetchMany`, `Search`, `Query`, `Count`, `Aggregate`, `Hybrid`, `Fetch` |
| keySource | `mcpserver/auth.go` | keys, time of the last attempt, a mutex | `key`, `refreshLocked` |
| Embeddings cache | `extensions/cache/embeddings.go` | hashes in Redis, one per text and model | `Get`, `MGet`, `Set`, `SetWithTTL`, `MSet`, `Exists`, `Drop`, `Clear`, `SetTTL` |
| Cached vectorizer | `extensions/cache/cached_vectorizer.go` | none of its own: an embeddings cache and a vectorizer | `Embed`, `EmbedMany` |
| Semantic cache | `extensions/cache/semantic.go` | hashes in an index, with expirations | `New`, `Store`, `Check`, `Update`, `Expire`, `Drop`, `Clear`, `Delete`, setters |
| LangCache client | `extensions/cache/langcache.go` | entries of a remote service | `Store`, `Check`, `DeleteByID`, `DeleteQuery`, `Flush`, each in a retry loop |
| Hosted vectorizers, rerankers | `extensions/vectorize/*.go`, `extensions/rerank/*.go` | none | batches of requests in the same retry loop |
| Semantic router | `extensions/router/router.go` | in Redis: references; in the process: routes, thresholds, configuration | `New`, `AddRoute`, `RemoveRoute`, `UpdateRouteThresholds`, `UpdateConfig`, `Clear`, `Delete`, `Route`, `RouteMany` |
| Message history | `extensions/history/*.go` | hashes of all sessions in one index | `AddMessages`, `Store`, `Messages`, `GetRecent`, `GetRelevant`, `Drop`, `Clear`, `Delete`, `SetDistanceThreshold` |
| Hugging Face Hub client | `extensions/vectorize/hf/hub.go` | files of a directory that processes share | `fetchModel`, `fetchFile` |
| MCP server | `mcpserver/*.go` | what `New` decided, the index and keySource | `New`; the tools `search` and `upsert`, behind a token verifier |
| Filters and queries | `filter/`, `query/` | a query's options, which its setters and `Paginate` change | builders, and the strings they render |
| Schema | `schema/`, `validate.go` | none | building, YAML, FT.CREATE arguments, validation, inference, advice on compression |
| Vectors, utilities | `vectors/`, `utils.go`, `query/encode.go` | none | conversions |
| Local models | `extensions/vectorize/hf/*.go` | a session of a native library | inference |
| rvl | `cmd/rvl/` | none | a command line over the above |

### How they interact

The semantic cache, the router and the history each own a SearchIndex and use its `Create`, `Load`
and `Clear`, but make their own commands where they update, delete and expire. The cached
vectorizer is itself a `vectorize.Vectorizer`, so that whatever takes one (a semantic cache, a
router) can be given a cached one. All hosted models and the LangCache client repeat one HTTP
retry loop. The MCP server verifies a token with keySource before every request, then embeds with
a hosted vectorizer and searches or loads its one index, with a query built from the tool's
arguments. What an index accepts its schema decides: `Create` sends its FT.CREATE arguments,
`Load` validates records against it, and the server compares it with FT.INFO when it starts. There
are no callbacks between the parts but `Paginate`'s, and no shared memory but keySource's. A
`SemanticCache` or a `MessageHistory` has setters without a lock, so goroutines that use them have
an object each, and share the keys in Redis.

### What is hard, and what correctness means

`PROJECT.json` lists forty hazards at their lines. They fall into these groups.

* **Commands of one call interleave with other calls.** An overwriting `Create` is FT._LIST,
  FT.DROPINDEX and FT.CREATE; `Clear` is pages of FT.SEARCH and DEL; a `Load` with a TTL is HSET
  and EXPIRE, record after record. Correct is: no race of overwrites loses the index, only who
  asks destroys, `Clear` leaves nothing that it found, counts do not count twice, TTLs are set.
* **Something fails half way.** A pipeline breaks after a prefix, an embedding fails, a later
  batch is invalid. Correct is: what was promised to be written is, whole batches at a time; a
  route is not listed before its references are there; an answer is not in the history without its
  prompt; a failing cache is not noticed by the callers of a cached vectorizer.
* **Requests are lost, late or repeated.** Correct is: at most `MaxRetries` executions, no request
  after a verdict, success only when executed.
* **Cached state is stale.** Signing keys, the list of routes, expirations of entries, an offset
  into pages that others move, the embedding of a text that an upsert replaces. Correct is: bounded
  staleness, reads that miss nothing that stayed, and embeddings that follow their texts.
* **Configuration decides who may do what.** YAML, environment, options and FT.INFO are merged
  before a server starts. Correct is: a launch whose settings name scopes never serves without
  tokens, unless the environment disables authentication by name.
* **Strings are concatenated to queries.** Redis binds juxtaposition tighter than `|`. Correct is:
  what is rendered and parsed again means what the builder's expression means.
* **Crashes.** The Hub client renames complete files into place: nothing partial is ever taken for
  a file, and what fetchModel returns is whole.
* **Boundaries.** Empty pages of SCAN, pages that are just full, batches of one, k results,
  exclusive bounds, dates as days, thresholds at 0 and at their maximum.

## Modules

| Module | Models | Composed of |
|---|---|---|
| `SearchIndex` | the operations of `index.go` that change state | |
| `Schema` | `schema/*.go`, `validate.go`, `FromExisting` | definitions; extended by `SearchIndex` |
| `Queries` | `filter/*.go`, `query/*.go` | definitions |
| `IndexReads` | the reads of `index.go` and `batch.go` | extends `SearchIndex`, whose actions are the writers, and `Queries` |
| `KeySource` | `mcpserver/auth.go`, keySource | |
| `MCPConfig` | `mcpserver/config.go`, `schema.go`, `New` of `server.go` | definitions |
| `MCPServer` | `server.go`, `tools.go`, the token verifier of `auth.go` | extends `KeySource` and `MCPConfig`; implements `KeySource` |
| `Vectorizer` | the promise of `vectorize.Vectorizer` (abstract) | |
| `EmbeddingsCache` | `embeddings.go`, `cached_vectorizer.go`, a hosted vectorizer | refines `Vectorizer` (INSTANCE ... WITH) |
| `LangCache` | `langcache.go`, the retry loop of `http.go` and `rerank.go` | |
| `SemanticCache` | `semantic.go` of the caches | |
| `Router` | `router.go` | |
| `History` | `history.go`, `semantic.go` of the histories | |
| `HFHub` | `hub.go` | |
| `SearchIndex_proofs` | | theorems about `SearchIndex`, `Queries` and `IndexReads` |
| `EmbeddingsCache_proofs`, `LangCache_proofs`, `SemanticCache_proofs`, `Router_proofs`, `History_proofs`, `HFHub_proofs` | | theorems about the module of that name |
| `MCPServer_proofs` | | theorems about `KeySource` and `MCPServer` |
| `MC...` | | small instances for TLC |

All modules with variables have the same form. `pc[c]` is the command, request or system call that
caller `c` is about to make; `"idle"` before its first call, `"ok"` and `"err"` when a call returned
without and with an error. `Begin` starts a call of `Requests`, a constant that says which calls the
callers may make with which arguments. A command that reaches Redis may lose its reply (`LoseReply`,
`Lose`): it took effect and the call returns an error. A request may be lost and have no effect.
That a process dies in the middle of a call is the same as losing the request, for what others can
see. Variables that the comments call *history* are read by properties only; no guard looks at them.

Definitions whose comment begins with "Mutant" are not used by the specifications. Each is a
plausible bug; put in the place of the definition it precedes, it violates the property that
`PROJECT.json` lists it for.

### SearchIndex

| Action | Code |
|---|---|
| `Begin` | the checks before the first round trip of each operation |
| `Exists` | `Exists` in `Create`: FT._LIST |
| `Overwrite`, `CreateIndex` | FT.DROPINDEX, with DD if `Drop`, and FT.CREATE, which fails if another was faster |
| `Delete` | FT.DROPINDEX of `Delete` |
| `Batch`, `HSet`, `Expire` | `Load`: validation of the next `BatchSize` records, then a pipeline of HSET, and EXPIRE with a TTL; `Expire` is also `ExpireKeys` |
| `DropKeys` | `DropKeys` and `DropDocuments`: one DEL, whose count is returned |
| `ClearSearch`, `ClearDel` | `Clear`: FT.SEARCH at offset 0, DEL of the page, until a page is short |
| `Evict` | Redis removes an expired document |
| `LoseRequest` | the request is lost, the context ends or the process dies |

`index` is `"live"` or tells why there is none, which `OverwriteNeverLosesIndex` reads. A document
is `"plain"` or has a `"ttl"`. What FT.SEARCH finds is what is there: Redis's asynchronous
indexing of existing documents is not modelled.

A `Create` names a schema of `Schemas`: one whose definition the server takes, one it refuses
(FT.CREATE fails, after an overwrite has already dropped the index), and one that renders no
definition at all.

### Schema

A field is a record of its type and its attributes. `NewIndexSchema`, `AddField` and `RemoveField`
build a schema, or nothing where the code returns an error; `validateRecord` and `FirstInvalid` are
the validation of records by field and storage, `SchemaArgs` and `RedisArgs` the arguments of
FT.CREATE in their order, `toRaw` and `fromRaw` the two directions of YAML, `FromExisting` what is
kept of an FT.INFO reply, `GenerateFields` the inference from a record, `RecommendCompression` and
`EstimateMemorySavings` the compression advisor. Floating-point attributes are hundredths, and
`RoundToEven` is the rounding of the advisor.

### Queries

The query language of Redis is a union of intersections of clauses, and a string is modelled as
that: a sequence of alternatives, each a sequence of words and clauses. Concatenation of two such
strings binds the last alternative of the left one to the first of the right one unless one of
them is in parentheses, exactly as juxtaposition does in Redis; `And`, `Or` and the queries that
put a filter before `=>` differ in who adds parentheses. Characters and their escaping are
abstracted to the values they stand for. Once in parentheses a string is what it matches, so a
group is a clause that holds of a set of documents. Expressions never change: each is a record of
the string it renders to and of the documents it `means`, which are intersected by `And` and joined
by `Or` without a look at the strings. The two agree but in one case: a union with one side that
renders to `*` renders to the other side only, so that it finds part of what it means. `narrowed`
marks an expression that has such a union in it. `FiltersMeanWhatTheySay` and `UnionForgetsAll` in
`MCIndexReads` check both cases and `FiltersCombine` proves them. `Reply` is a page by rank: how
many of the documents that the search finds are before one.

### IndexReads

`order` is the order in which the index returns documents, as a set of pairs; a write puts its
document behind the others, and a new index has them in any order. `Contents` gives each key the
tags, numbers, words and vector of its document. A reader makes `Page`, `Query` or `Fetch` one after
the other, and writers run in between. What a query returns is computed from the string it renders;
the properties compare it with `Asked`, which goes by what its filter `means`. A narrowed filter is
among the inputs; of its queries the properties say that nothing else is found, not that all of it
is (`MayLack`), which would be false. What callers write as raw strings has one alternative
(`IsOne`): for others the properties are false, as `RawUnionEscapes` shows. `Paginate` with a page
size of zero, an empty `BatchSearch` or `FetchMany`, a callback that fails and a malformed query in
a pipeline are among the inputs.

### KeySource

`Acquire` locks the mutex and decides to refresh; `Serve` is the endpoint's answer, `FetchOK` and
`FetchFails` what the code makes of it; `Resolve` is the lookup. `Rotate` changes what the
endpoint publishes and `Tick` passes time. Instants are kept as ages, capped where the code cannot
tell them apart any more, so that the model has no bound on its behaviours.

### MCPConfig and MCPServer

`MCPConfig` is what is computed before the first request: `authEnvOverrides` and `AuthAccepted`
(the authentication block under `REDISVL_MCP_AUTH_*`; `NoEnv` is an environment that sets none of
them, and a list set to a comma alone is set to nothing, which takes away that of the YAML file),
the runtime options, their defaults and the data type of the vectors, the comparison of the mapped
fields with FT.INFO and the overrides, and `clampLimit`. That the vectorizer can be made is part of
a launch (`vectorizerMade`). `MCPServer` takes a constant set of launches; those that `New` accepts
may serve. The check of a scope in a tool lets a request without a token pass, as it does over
stdio, where there are none. A request arrives (`Arrive`) and is
verified without a key (`Unverified`), or by `KeySource`'s actions and then `Verify`; then it is a
`Search`, or an `Upsert` that goes on to `Embed` its texts and to `WriteRecord` one record of the
pipeline after the other, until the pipeline ends or breaks. HSET merges a record into the
document; JSON.SET replaces it (`Merge`). A document keeps its text and what its embedding was made
of, so that `EmbeddingFollowsText` can say that the two agree. All steps on keys are those of
`KeySource`, which is a refinement and proved to be one.

### EmbeddingsCache and Vectorizer

`Read` and `Refresh` are HGETALL and EXPIRE of the lookups, `Inner` one request of the vectorizer
behind the cache, `HSet` and `Expire` the write-back, `Scan` and `Del` the pages of `Clear`.
A call `set_ttl` sets the TTL of the cache object of its caller. The
refinement mapping takes `asked` to the texts of a call and `result` to its outcome: whatever
happens on the cache, `EmbedMany` is one step that answers with the vector of each text at the
place of the text.

### LangCache

`Send` puts a request on the `wire`; `Next`'s second disjunct lets the service execute or refuse
it, possibly after the client has given up and sent another. `Receive` is the switch on the status
code, `Retry` and `Backoff` the loop, `Cancel` ends a context, `Fail` is a transport error. A reply
of status 2xx may have no body, which the cache client takes for a result with nothing in it, or
lack the id of the entry or the number of the deleted.
An `EmbedMany` of a hosted vectorizer is a request for each batch (`NextBatch`); a reply with too
few vectors ends it. `Rank` is one request whose reply may name documents that were not sent.
The conversion of a distance threshold into a similarity, and its absence from the request when it
is zero, is checked in `MCLangCache` (`ThresholdsAgree`).

### SemanticCache

An answer is identified with the tenant whose call wrote it, so that isolation can be stated.
`HSet` and `Expire` are the two commands of a `Store` or an `Update`, `Search` and `Refresh` those
of a `Check`; `Exists`, `Overwrite` and `CreateIndex` those of `New`, `DeleteIndex` of `Delete`.
Each caller has a cache object of its own with a TTL and a threshold. `Tick` passes time in Redis.
A `Store` may come without a filter. An `Update` writes any fields of the schema, of which the
response, the vector and the tenant are told apart and the rest are `"other"`, and refuses unknown
ones; on a key that has gone it writes a hash with these fields only, as HSET does.

`makeEntryID` hashes the prompt and the values of the filters without a mark between them, so
`EntryId` is any function of the two: in the instance one prompt without a filter has the id of
another one with the filter of a tenant. `TenantIsolation` leaves out the entries whose id two
prompts share (`Shared`) and those that an `Update` gave to another tenant (`moved`); of every other
it says that only its tenant finds it. What an entry was given a vector by, a `Store` or an
`Update`, is in `stored`.

### Router

`refs` are the hashes in Redis; `routes`, `config` and `made` are the process's, whose restart is
a `New`. A `New` may be given two routes of one name, which the code does not check; `RemoveRoute`
then takes the first of them off the list, and `RemoveIsComplete` leaves such names out (`Doubles`).
`Scan` and `Del` are the loop of `RemoveRoute`; `Globbed` gives the names whose keys the
pattern matches (`a:*` also matches those of the route `a:b`). `Aggregate` is FT.AGGREGATE:
groups, the order, the cut to k, then the filter, in that order.

### History

`Stamp` reads the clock for each message, `HSet` sends the pipeline in order, `Recent` (also the
fallback of `GetRelevant`), `Messages`, `GetRelevant` and `ReadLatest` (of a Drop without an id) are
the reads, with every order of equal times. `New`, `DropIndex` and `Create` are the three commands
of a `New`, which creates the index again and a client's object with it; that and the call
`set_threshold` change the radius of the client's `GetRelevant`. The clock may stand still: a
float64 of seconds does not tell close times apart.

A message read back carries its id. A client may add it again with that id, also in another session,
or drop it by the id (`Known`: who has not read an id does not guess it); HSET overwrites the hash.
`NoAnswerWithoutPrompt` is about exchanges whose two ids nobody gave to another message (`given`).
Redis may refuse one HSET of a pipeline: those behind it are executed, and the call returns an error
(`"hset_err"`). A message that was refused counts as removed. `Empty` is `Clear` in one step, whose
pages `SearchIndex` has.

### HFHub

`Stat`, `Get`, `CreateTemp`, `Copy`, `Close`, `Rename`, `RemoveTemp` are the calls of `fetchFile`,
`Advance` the loop of `fetchModel`. `Kill` ends a process; `PowerLoss` ends all of them and may
take away or empty any file that was renamed, since nothing is synced. A file system that after a
power loss has a part of a file's data is outside the model; there `NoPartialFile` would need an
fsync in the code.

<a name="runs"></a>
## What is checked

States are distinct states found by TLC.

| Run | Instance | States | Shows |
|---|---|---|---|
| `index_lifecycle` | 2 clients, 2 keys, 3 calls, 1 loss | 366 000 | `OverwriteNeverLosesIndex`: while an index is missing in the middle of an overwrite somebody is about to create it. `DestroysOnlyWhenAsked`: an unexpiring document and the index go only by calls that ask for it. `ClearReturns`: `Clear` stops once nobody adds documents |
| `index_documents` | 2 clients, 2 keys, 2 calls, 1 read, 1 loss | 2 532 000 | `ClearIsComplete`, `EveryRemovalCountedOnce`, `LoadWritesWholeBatches`, `LoadSetsTTL` of the writers; `PaginateVisitsAll`, `AnswersAreInOrder` of the reader |
| `key_source` | 12 launches of which 5 start, 2 requests at a time, 2 documents, 2 texts | 281 000 | `RefreshesBackOff`: with keys cached, one fetch per interval. `WithdrawnKeysExpire`: withdrawn keys are used for an interval and a fetch at most. `EmbeddingFollowsText`: concurrent upserts that merge and break off leave no document with the embedding of another text. `ToolsAreGranted`: who changes or sees documents had the scopes. `EveryRequestAnswered` |
| `key_source_backoff` | 2 requests, 2 keys, without tools | | violated, see below |
| `embeddings_cache` | 2 callers, 2 texts, 3 calls, 1 loss | 892 000 | `ImplementsVectorizer` (refinement), `OnlyInnerFails`, `CachedTextsAreNotEmbedded`, `EntriesExpire`, `ClearRemovesAll` |
| `langcache` | 2 callers, 2 attributes, batches of 2, 2 attempts, 2 calls | 2 689 000 | `SuccessIsExecuted`, `AtMostMaxRetries`, `NoRequestAfterVerdict` |
| `semantic_cache` | 2 callers, 2 prompts, 2 tenants, 4 calls, 1 loss | 1 642 000 | `TenantIsolation`, `NothingRemovedIsServed`, `EntriesExpire` |
| `semantic_cache_ttl` | the same, 2 calls | | violated, see below |
| `router` | 2 processes, routes `a` and `a:b`, 4 calls, 1 loss | 420 000 | `ListsWhatIsIndexed`, `RemoveIsComplete`, `NearestFirst` |
| `router_no_match` | 2 calls | | violated, see below |
| `history` | 2 clients, 2 sessions, 4 calls, 4 messages, 2 times, 1 loss | 3 348 000 | `NoAnswerWithoutPrompt`, `RecentIsLatest` |
| `hf_hub` | 2 processes, 2 + 2 files, 4 calls, 3 faults | 187 000 | `NoPartialFile`, `ReturnedIsWhole` |

Every passing run also checks the type invariant of its module, which says more than types where
it can: the hits of a `Check` are at most `NumResults`, a route has references and a valid
threshold, the fetch of the holder never takes longer than the HTTP client's timeout.

Pure definitions are checked by ASSUMEs of the MC modules, which TLC evaluates before a run. They
compare a definition with an independent statement over bounded inputs.

| Module | Assumption | Says |
|---|---|---|
| `MCIndexReads` | `FiltersMeanWhatTheySay` | every expression of the builders, rendered and read as Redis reads it, matches only documents it is meant to, and all of them unless it has a union with `*` on one side |
| | `UnionForgetsAll` | a union with `*` on one side is meant to match everything, and matches the other side only |
| | `QueriesKeepTheirFilter` | no kind of query matches what its filter excludes |
| | `BetweenIsInclusive`, `DatesAreDays` | bounds of numbers and dates |
| | `CosineThreshold`, `L2Threshold` | a range query returns what its threshold says, normalised or not |
| | `RawUnionEscapes` | a raw filter with a `\|` outside parentheses escapes the query around it: all kinds but `MultiVectorQuery` |
| | `EscapedWordsAreNotStopped` | stop words are looked up after escaping |
| | `NothingBehindNearest` | an offset into the K nearest shows nothing behind them |
| | `RecordsAreValidated` | which values a field takes, for hashes and JSON |
| `MCSearchIndex` | `YAMLRoundTrip`, `WhatIsBuiltIsDefined`, `ModifiersInOrder` | schemas and their definitions |
| | `ExistingIsNotOverwritten`, `InferredFieldsAccept`, `VectorsHaveTheirSize` | `FromExisting`, inference, validation |
| | `RecommendationsAreValid`, `MemorySavesMost`, `HalvesToEven` | the advisor and its rounding |
| `MCMCPServer` | `PagesReach` | which matches of a search some offset shows |
| `MCLangCache` | `ThresholdsAgree` | a distance threshold and the similarity sent for it |

### Where code and documentation disagree

* `key_source_backoff`: the comment of `refreshLocked` says that failures back off for a full
  interval instead of retrying on every request. `key` refreshes whenever no key is cached, so
  while the endpoint fails from the start every request asks it (`FailuresBackOff`). With keys
  cached the comment is right (`RefreshesBackOff`, proved).
* `semantic_cache_ttl`: `StoreOptions.TTL` "overrides the cache default for this entry". The first
  `Check` that hits the entry sets its expiration to the default (`OverrideHolds`).
* `router_no_match`: "A zero-value RouteMatch means no route matched within its threshold". The
  cut to the nearest route is made before the thresholds of the routes, so a near route outside
  its own threshold hides one that is within (`NoMatchMeansNone`). What `Route` does return is
  right (`NearestFirst`).

Six sentences more do not hold of the code. They have no run of their own: three are shown by
an assumption on pure definitions, the others are as plain in the code as in the model.

* `filter.go:75`, `Or` is "logical OR (union)": with a side that matches everything the union is
  the other side (`UnionForgetsAll`). `All`, a filter without values, and a nil one are such sides.
* `schema/advisor.go:13`, "Memory maximizes memory savings": from 1024 dimensions on the advisor's
  priority "memory" saves less than its priority "speed" (`MemorySavesMost`).
* `index.go:55`, "Field definitions are reconstructed on a best-effort basis": `FromExisting`
  reconstructs none, and loses the key separator and the stop words, so nothing can be created from
  its result (`ExistingIsNotOverwritten`).
* `langcache.go:159`, `Store` "returns the entry ID": it returns `""` and no error on a 2xx
  without a body or without an id. `SuccessIsExecuted` says what a success does promise: that the
  service has executed the request, and that an id that is returned is of an entry it created.
* `vectorizers.adoc:164`, "subsequent runs load from the cache with no network access": `fetchModel`
  asks again, each time, for every optional file that the repository does not have, and fails
  without the network.
* `router.go:246`, "RemoveRoute deletes a route's references from Redis and the router": of two
  routes of one name, which `New` takes, the second stays in the router.

### What else the models made visible

None of these contradicts a sentence of the repository clearly enough to be called more than a
surprise, or the model abstracts what it would take to show it.

Queries and reads:

* `VectorQuery.Paging` sets K to the page size, so a page with an offset is empty, as is the second
  page of the MCP tool `search`; `Paginate` over a `VectorQuery` reaches its first K documents only.
* `Paginate` writes the offset into the options of the caller's query and restores them on return:
  two goroutines that share a query disturb each other. `ReturnFields` and `NoReturnScore` may write
  into the caller's slice.
* A sorted `Paginate` may show a document twice when others are added before it.
* A raw filter with `|` at its top is put in parentheses by `MultiVectorQuery` alone.
* Text weights and stop words with punctuation are looked up after escaping, and not found.
* `NormalizeVectorDistance` on a range query converts the threshold by the cosine formula, while
  L2 results are normalised by 1/(1+d).

Schema:

* `ToYAML` panics for fields built without attributes; the name of a compression is not folded to
  upper case as other names are; integers of YAML are truncated floats; the order of
  `GenerateFields` is that of a Go map.

Caches, history and hosted models:

* `LangCache.Check` with the largest distance threshold sends no threshold, since the similarity 0
  is omitted, and the service's default applies.
* A semantic `Store` without metadata over an entry that has some keeps the old metadata: HSET
  merges.
* The id of a semantic entry joins the prompt, the names and the values of its filters without a
  mark between them: the prompt `hi` with `user=alice` and the prompt `hi useralice` without a
  filter are one entry, and the second `Store` leaves alice's field beside its own answer.
* A message that is added again under its id in another session leaves its first one, whose reader
  then sees an answer without its prompt.
* `CheckOptions`, `GetRelevantOptions` and the history's `SetDistanceThreshold` are not validated;
  Redis refuses a negative radius.
* Hosted vectorizers take the vectors in the order of the reply.

MCP server:

* `clampLimit` does not hold the default limit to the maximum. Settings of a JWT that count as such
  without a type leave out the algorithm, the base URL, the claim of authorization and the required
  claims.
* An upsert over a hash whose text cannot be embedded merges, and leaves the embedding of the text
  before it; `EmbeddingFollowsText` says so.

## Bounds

* `MaxCalls` bounds the calls begun in a behaviour, over all callers. Two calls of two callers
  give every interleaving of any two operations; the third and fourth put a `Store` before them,
  or a restart after them. KeySource has no such bound.
* `MaxFaults` bounds the commands lost. It is 1 against Redis: that is any command of any call, and
  most calls return after it; a read may be lost besides, at any of its commands. HFHub has 3, for a
  crash, a failure of the one that cleans up and a power loss.
* Two keys, texts, prompts or references, so that there is one that an operation names and one it
  does not; two tenants, sessions, attributes for isolation.
* `PageSize = 1` against two documents makes every `Clear` go through full pages and an empty one,
  while others remove what is on them. `BatchSize = 2` against three records gives a full batch
  and one more, an invalid record in the first batch and in the second.
* `NumResults = 1` against two prompts near each other makes `Check` leave one out.
* `Interval = 2`, `Timeout = 1`: a fetch fits between refreshes with time to spare (3 in
  `key_source_backoff`).
* `Launches` of `MCMCPServer`: twelve, for each way a launch may be refused (its data type and its
  vectorizer among them) and each way it may serve (with and without tokens, over stdio, read-only,
  with required scopes, hash and JSON). There is no bound on the number of requests.
* `Contents` gives the two documents values on both sides of every bound and in both units of
  distance; `MaxDims = 8` bounds the vectors that validation sees. Filters are nested two deep in
  `FiltersMeanWhatTheySay`: `And` and `Or` under each other, beside six kinds of conditions.
* `MaxThreshold` gives thresholds in parts (quarters, tenths), with both ends among them.
* `MaxTime = 2`: equal and different times. `FullHistory = 4` with 4 messages: the limit is
  reached but not crossed; the properties say so.
* Symmetry is used only in runs without liveness, over callers or processes that are exchangeable
  in all constants.
* Deadlock is not checked where `MaxCalls` ends every behaviour. `key_source` is checked for it:
  however requests, fetches and pipelines fail, something can go on.

## Fairness

* `KeySource`: `WF(Serve \/ FetchOK \/ FetchFails)`, since the HTTP client has a timeout: a fetch
  ends one way or another. `SF(Acquire)`, since a `sync.Mutex` whose waiter has starved for a
  millisecond is handed to it. Neither rotation, nor time, nor new requests are fair.
* `MCPServer`: that of `KeySource` and `WF(Handle(v))`: a goroutine that has its key goes on, and
  the vectorizer and Redis answer or fail.
* `SearchIndex`: `WF(RoundTrip(c))`, since a command is answered or returns an error. Calls need
  not begin and nothing has to expire. `ClearReturns` holds under it because the calls that add
  documents are finitely many; with clients that add forever `Clear` need not return, and the code
  does not promise it.

All other properties are safety and assume nothing.

## Proofs

The theorems hold for every value of the constants that satisfies the module's assumption, in
particular without the bounds: any number of calls, faults, clients, keys.

| Theorem | Says | By |
|---|---|---|
| `SearchIndex_proofs!TypeCorrect` | `[]TypeOK` | `Shape` |
| `SearchIndex_proofs!ClearCompletes` | `[]ClearIsComplete` | `Shape /\ ClearInv` |
| `SearchIndex_proofs!IndexSurvivesOverwrites` | `[]OverwriteNeverLosesIndex` | itself, under `Shape` |
| `SearchIndex_proofs!OnlyAskedLoss` | `DestroysOnlyWhenAsked` | `Shape` |
| `SearchIndex_proofs!RemovalsAreCounted` | `[]EveryRemovalCountedOnce` | itself, under `Shape`, and `SumMoves` |
| `SearchIndex_proofs!LoadedExpire` | `[]LoadSetsTTL` | `Shape /\ TTLInv` |
| `SearchIndex_proofs!LoadsWholeBatches` | `[]LoadWritesWholeBatches` | `Shape /\ WrittenInv` |
| `SearchIndex_proofs!ConditionsAreRendered`, `FiltersCombine`, `FiltersRestrict` | conditions, And and Or render to what they mean, but for an Or with `*` on one side, which finds no more than it means; a query matches what its filter means of what it matches itself | what strings of one alternative match, joined |
| `SearchIndex_proofs!ReadersOnlyRead` | `IndexReads` implements `SearchIndex` | each step is one of a writer or leaves its variables alone |
| `SearchIndex_proofs!ReadsTypeCorrect`, `PagesVisitAll`, `AnswersStayInOrder` | `[]ReadsTypeOK`, `[]PaginateVisitsAll`, `[]AnswersAreInOrder` | `ReadsInv`, under `Shape` |
| `MCPServer_proofs!TypeCorrect`, `BackOff`, `KeysKept`, `WithdrawalBounded` | `[]TypeOK`, `RefreshesBackOff`, `FailedRefreshKeepsKeys`, `WithdrawnKeysExpire` of `KeySource` | `IInv` |
| `MCPServer_proofs!ImplementsKeySource` | the server's keys behave as `KeySource` specifies | each step is one of `KeySource` or a stutter |
| `MCPServer_proofs!ServerBacksOff`, `ServerForgetsKeys` | `RefreshesBackOff`, `WithdrawnKeysExpire` of the server | `ImplementsKeySource` |
| `MCPServer_proofs!ServerTypeCorrect`, `EmbeddingsFollow`, `ToolsGranted` | `[]ServerTypeOK`, `[]EmbeddingFollowsText`, `ToolsAreGranted` | an invariant of requests, below |
| `EmbeddingsCache_proofs!TypeCorrect`, `OnlyInnerErrors` | `[]TypeOK`, `OnlyInnerFails` | `Shape` |
| `EmbeddingsCache_proofs!EverythingExpires`, `ClearsEverything`, `CachedTextsAreSpared` | `[]EntriesExpire`, `[]ClearRemovesAll`, `[]CachedTextsAreNotEmbedded` | `Shape`, `DueInv` |
| `EmbeddingsCache_proofs!ImplementsAVectorizer` | `ImplementsVectorizer`, if `KeysApart` | `OutInv` |
| `LangCache_proofs!TypeCorrect`, `Successes`, `BoundedRetries`, `NothingAfterVerdict` | `[]TypeOK`, `[]SuccessIsExecuted`, `[]AtMostMaxRetries`, `NoRequestAfterVerdict` | an invariant of the wire, below |
| `SemanticCache_proofs!TypeCorrect`, `TenantsIsolated`, `RemovedStaysRemoved`, `EverythingExpires` | `[]TypeOK`, `[]TenantIsolation`, `[]NothingRemovedIsServed`, `[]EntriesExpire` | `IInv` |
| `Router_proofs!RouterTypes` | `[]TypeOK` | `Shape` |
| `Router_proofs!RemovalIsComplete` | `[]RemoveIsComplete` | `Shape /\ Removing` |
| `Router_proofs!RoutesAreIndexed` | `ListsWhatIsIndexed` | `Shape /\ Indexing` |
| `Router_proofs!AnswersAreNearest` | `NearestFirst` | `Shape` and what `Answers` are |
| `History_proofs!TypeCorrect`, `ReadsAreRecent` | `[]TypeOK`, `RecentIsLatest` | `Shape` |
| `History_proofs!PromptsStay` | `[]NoAnswerWithoutPrompt` | `Shape /\ PairInv` |
| `HFHub_proofs!TypeCorrect`, `PartsStayTemporary`, `ModelIsWhole` | `[]TypeOK`, `[]NoPartialFile`, `[]ReturnedIsWhole` | `IInv` |

Why the invariants are strengthened:

* **SearchIndex.** `Shape` adds to the types which client can be at which round trip: a client at
  `"clear"` is in a `Clear`, and so on, without which a step could be anybody's. `ClearInv` says
  that what a `Clear` still owes never grows, and that a page shorter than `PageSize` holds all of
  it; the DEL of a short page therefore ends with nothing owed. The keys must be finite for
  "shorter" to mean anything (`IsFiniteSet(Keys)`). `TTLInv`: the one who wrote a document that
  has no expiration and should have one is at its EXPIRE, or the call has failed. `WrittenInv`: at
  each place of the pipelines what is written is the records up to there, and a batch begins
  behind a multiple of `BatchSize`; a batch with an invalid record is refused before it is sent,
  so what is written then ends where `LoadWritesWholeBatches` says.
  `EveryRemovalCountedOnce` is inductive; its steps need `SumMoves`: when one client's count
  changes, the sum changes by as much, for which the clients must be finite.
* **IndexReads.** `ReadersOnlyRead` carries `Shape` over. `PagesSoFar`: until a document is removed
  or written again, what a Paginate asked for is on one of its pages or has a rank at or behind the
  next offset, and without a distance what is on its pages is in front of it. A document that is
  added goes behind the others, so ranks never shrink, and not at all without a distance
  (`RanksGrow`). That a page which is not full is the last needs that ranks are the numbers from 0
  on, each taken once (`Ranking`), for which what a search finds must be in order (`FoundIsOrdered`)
  and finite. `PlacesSoFar`: the answers so far are as many as the place, and right at each. That a
  query finds what it is meant for, `FoundIsAsked`, is `FiltersRestrict`. A search for the K
  nearest is left out of `PaginateVisitsAll`: it has no pages behind these.
* **KeySource.** `Holder`: who fetches has the mutex, so that one fetch runs at a time.
  `AttemptRecorded`: `k.fetched` is never earlier than the last attempt, from which back-off
  follows. `KeysAreFresh`: after a success the cached keys are at most one fetch older than
  `k.fetched`; together with the refresh at `Interval` this bounds the life of a withdrawn key.
* **MCPServer.** That every step on keys is one of `KeySource` (`KeySourceSteps`) carries its
  theorems over. `RequestsOK` says what a request carries at each of its stages. `WorkIsEmbedded`:
  a record about to be written has the embedding of its own text or a vector of the client's, or
  is still a target of `Embed`; `EmbeddingFollowsText` then survives every `WriteRecord`, whoever
  wrote the document in between. `TokensGrant`: a request past the verifier has a valid token with
  the required scopes, and one past the check of the upsert tool the write scope. The set of
  documents is finite, for the size of a page.
* **EmbeddingsCache.** `Shape` says which call is at which command and where in its texts.
  `DueInv`: what is owed to a call is present; what a `Clear` is owed is in `unseen`, or in the
  batch about to be deleted; a text whose lookup missed was not owed. `OutInv`: every entry has the
  vector of its text, and `out` has at each place that vector or a miss. The lemma `Ranks` numbers
  the missing texts one to one, so that the n-th vector of the inner vectorizer goes to the place
  of the n-th missing text. The refinement needs `KeysApart`: identifiers join text and model by a
  colon, so the text `a:b` of model `m` and the text `a` of model `b:m` share one; with such names
  the refinement is false, and the theorem says under which condition it is not.
* **LangCache.** `WireIsOld` and `CallsHaveRequests`: what is on the wire belongs to a call that
  began, at or before its present batch. `SentBounds`: what was executed and what may still be is at
  most what was sent, which `attempt` bounds. `NoVerdictYet`: another attempt follows only on no
  reply or one to be retried. `ReplyIsTrue`: a reply with a result, be it an empty one, comes
  after the execution of its request, and the ids and numbers it has are right.
* **SemanticCache.** `HashIsOfKey`: a hash with a vector was given it since the hash was last
  absent, and a hash whose key is of one prompt and filter, and was not moved to another tenant, has
  the tenant of that filter, if any, and an answer of it, whoever updated it since. Both kinds of
  hits follow because only hashes with vectors are found. `EntriesExpire` is inductive with `Shape`:
  who leaves an entry without expiration is at its EXPIRE or has lost it, and every other step
  leaves the accounted entries alone. The prompts and tenants must be finite for the number of
  hits to be one.
* **Router.** `Shape` says which call is at which command. `Removing`: what a `RemoveRoute` still
  owes is in Redis, and before SCAN's cursor or in the batch about to be deleted; what others write
  in between is not owed. `Indexing`: while a New or an AddRoute is at work, each of its keys is in
  Redis, was taken out again since it began (`undone`), or is still ahead in its pipeline. The
  answer of a match is a ranking of the groups that exist (`Groups` is finite, because names and
  references are), cut and then filtered; the lemma `Flattened` says what filtering a sequence
  leaves. That a removed route is not listed rests on names that the list has once: `RemovedRoute`
  says that the first of a name is taken off, and `AddedRoutes` that no `AddRoute` doubles one.
* **History.** `Shape` says which calls are at which command and that a stamped role is valid. The
  lemmas `EarliestOf` and `LatestOf` say what prefixes and suffixes of an order of a finite set
  have; with them the reads are right at the state they see. `PairInv`, for a prompt `p` and its
  answer `a`: where `a` is written, `p` is or was deleted (an HSET of the same key only replaces
  it); where `a` is still queued, `p` is ahead of it in the same pipeline; and both are of one
  session, so that a read that sees `a` is of the session of `p`. It rests on stamped keys being new
  (`KeysAreOld`) and, as long as nobody gives one to another message, staying in the session they
  were stamped in (`SessionsAgree`). An exchange with a key in `given` is left out, of the invariant
  as of the property.
* **HFHub.** `PathsAreClean`: nothing partial, and nothing that the repository has not, is at a
  path. `TempsAreWhole`: what is about to be renamed is complete. `HasFilesBefore` and `HasWhole`:
  a process at the n-th file has all wanted files before it, and they are whole until a power
  loss, which ends the process.

## Limits

**Only model-checked.** Liveness (`ClearReturns`, `EveryRequestAnswered`) and whatever needs
ENABLED is out of the prover's reach. The assumptions above about pure definitions stay with TLC,
but for those of filters, which `FiltersCombine` and `FiltersRestrict` prove of one And or Or and
of one query; that they hold of any number of expressions at once (`And` and `Or` fold a sequence)
is induction over data. Every other invariant and action property of the runs that pass is proved.

**Induction.** The library's induction rules take a property as a parameter, which the prover cannot
instantiate. Where a proof needs them (`SumOf` of the counts of clients, `MapThenSumSet` of
distances, `FlattenSeq`), they are stated of a set of numbers (`NatInduct`, from the least
counterexample), the recursive function is shown to exist size by size, and the induction is over
the size.

**Abstracted.** Documents, vectors, prompts and answers are names; distances are a constant function
(`Distance`, `Near`) or a number per document (`Contents`). ULIDs and random digits are taken to be
fresh, and hashes to be injective; what is hashed need not be: the identifiers of the embeddings
cache join text and model by a colon and those of the semantic cache join prompt and filters by
nothing, and both may collide in the models (`Key`, `EntryId`). A tag is one value: that Redis folds
the case of sessions and tenants and splits them at commas is left out. Metadata, timestamps of
entries, scores, returned fields, logging and the wording of errors are left out. Thresholds are
integers in parts.

**Partly modelled.** Of the index reads, what a query finds and in which order, not the parsing of
its reply; the order of a search that is not sorted is that of the index, not that of scores. Of the
query builders, filters, clauses, neighbours, pages and errors, not scoring, sorting by a field and
tuning parameters. Of the embeddings cache, hits and misses of entries that can be read: an entry
that does not parse fails a whole `MGet`, and one with an empty embedding is a hit for `Embed` and a
miss for `EmbedMany`; neither is modelled, entries being vectors that are not empty. Of the history,
`Clear` in one step. Of the Hub client, bodies that are cut off with an error at the reader, and
files that a power loss leaves whole, empty or not at all. Of documents with a text that cannot be
embedded, nothing is said by `EmbeddingFollowsText`. A `SemanticRouter` keeps the slice of routes
its caller gave it, which the model copies. Commands are sent once: go-redis may repeat one whose
reply was lost, and a DEL that it repeats counts nothing the second time. Of existing indexes,
`FromExisting`; `ListAll` and `Info` return a reply. Of authentication, keys, scopes and values;
whether a signature and its claims are right is golang-jwt's, so a token is valid or not. Of hosted
vectorizers, batches and retries, not the body of their requests.

**Not modelled.** Vector encodings are conversions of floating-point numbers, which TLC does not
have. ULIDs, hashes and the conversions of replies are pure functions on strings and bytes. Local
models are numerical code around a native library. `rvl` parses flags and prints what the library
returns; benchmarks and examples only use it.

Three hazards have no property; the note in `PROJECT.json` says why: the good behaviour is known to
be absent and no text of the repository promises it (pages behind the nearest neighbours, routes
whose names continue with a colon, messages of one instant). Two of these are in the models, as
`PagesReach` and `Globbed`, and the third as equal times.

## Plan

Done, in this order, most important first: `SearchIndex` with its theorems; `KeySource` with its
theorems; the caches; the router; the history; the Hub client; reads beside writes; theorems of
`SemanticCache` and `HFHub`; the MCP server over `KeySource` with its theorems; schemas and
queries, and reads and writes over them; the missing operations of the caches and the history;
theorems of `LangCache` and `EmbeddingsCache`, with the refinement of `Vectorizer`; theorems of
`History`, and of the loads of `SearchIndex`; theorems of `Router`, of the counts of `SearchIndex`,
and of `Queries` and `IndexReads`, which were restated without recursion for them.

Left:

1. Scoring and sorting by a field in `Queries`, if a property is found that depends on them.
2. An abstract specification of a cache with expirations that both `EmbeddingsCache` and
   `SemanticCache` implement, if one can be stated without repeating either.
