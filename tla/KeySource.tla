----------------------------- MODULE KeySource -----------------------------
(***************************************************************************)
(* keySource of mcpserver/auth.go: the signing keys of the MCP server, a   *)
(* cache of a JWKS endpoint shared by all requests.  key() holds a mutex    *)
(* while it decides whether to refresh, fetches, and looks the kid up, so a *)
(* request waits for the fetch of another.  Time is kept as ages since the  *)
(* instants the code compares, capped where no comparison can tell them     *)
(* apart: the behaviours are unbounded.                                     *)
(***************************************************************************)
EXTENDS Integers, FiniteSets

CONSTANTS Verifiers,  \* goroutines verifying a token
          Kids,       \* key ids of tokens and of JWKS entries
          NoKid,      \* the empty kid: a token or an entry without one
          JWKSets,    \* what the endpoint may publish: sets of JWK
          Interval,   \* jwksRefreshInterval, in ticks
          Timeout     \* the HTTP client's timeout, in ticks

\* An entry is usable if publicKey can make a key of it.
JWK == [kid : Kids, usable : BOOLEAN]

ASSUME KeySourceAssumption ==
    /\ NoKid \in Kids
    /\ JWKSets \subseteq SUBSET JWK
    /\ Interval \in Nat \ {0}
    /\ Timeout \in Nat \ {0}

Free == "free"
ASSUME FreeAssumption == Free \notin Verifiers

VARIABLES
    published,  \* the endpoint's current entries
    keys,       \* k.keys: the cached keys
    age,        \* time since k.fetched, up to Interval
    mu,         \* k.mu: its holder, or Free
    pc,         \* "idle", "waiting" (for mu), "fetching", "served"; "found", "unknown", "error"
    kid,        \* kid[v]: the kid v looks up
    elapsed,    \* time the fetch of the holder has taken
    reply,      \* what the endpoint answered to that fetch
    attemptAge, \* history: time since the last fetch began, up to Interval
    keysAge,    \* history: time since the fetch that brought the cached keys began
    failed      \* history: a fetch failed since the last one that did not

vars == <<published, keys, age, mu, pc, kid, elapsed, reply, attemptAge, keysAge, failed>>

Oldest == Interval + Timeout

TypeOK ==
    /\ published \in JWKSets
    /\ keys \in SUBSET Kids
    /\ age \in 0..Interval /\ attemptAge \in 0..Interval /\ keysAge \in 0..Oldest
    /\ mu \in Verifiers \union {Free}
    /\ pc \in [Verifiers -> {"idle", "waiting", "fetching", "served",
                             "found", "unknown", "error"}]
    /\ kid \in [Verifiers -> Kids]
    /\ elapsed \in 0..Timeout
    /\ reply \in SUBSET JWK
    /\ failed \in BOOLEAN

Init ==
    /\ published \in JWKSets
    /\ keys = {}
    /\ age = Interval /\ attemptAge = Interval /\ keysAge = Oldest
    /\ mu = Free
    /\ pc = [v \in Verifiers |-> "idle"]
    /\ kid = [v \in Verifiers |-> NoKid]
    /\ elapsed = 0 /\ reply = {}
    /\ failed = FALSE

Fetching == \E v \in Verifiers : pc[v] \in {"fetching", "served"}

-----------------------------------------------------------------------------
(* The world: the endpoint rotates its keys, time passes.  A fetch ends by  *)
(* Timeout at the latest.                                                   *)

Rotate ==
    /\ published' \in JWKSets
    /\ UNCHANGED <<keys, age, mu, pc, kid, elapsed, reply, attemptAge, keysAge, failed>>

Older(a, cap) == IF a < cap THEN a + 1 ELSE cap

\* Mutant: an HTTP client without a timeout.
TickNoTimeout ==
    /\ elapsed' = IF Fetching THEN elapsed + 1 ELSE 0
    /\ age' = Older(age, Interval)
    /\ attemptAge' = Older(attemptAge, Interval)
    /\ keysAge' = Older(keysAge, Oldest)
    /\ UNCHANGED <<published, keys, mu, pc, kid, reply, failed>>

Tick ==
    /\ Fetching => elapsed < Timeout
    /\ elapsed' = IF Fetching THEN elapsed + 1 ELSE 0
    /\ age' = Older(age, Interval)
    /\ attemptAge' = Older(attemptAge, Interval)
    /\ keysAge' = Older(keysAge, Oldest)
    /\ UNCHANGED <<published, keys, mu, pc, kid, reply, failed>>

-----------------------------------------------------------------------------
(* key(). *)

Call(v) ==
    /\ pc[v] \in {"idle", "found", "unknown", "error"}
    /\ pc' = [pc EXCEPT ![v] = "waiting"]
    /\ \E k \in Kids : kid' = [kid EXCEPT ![v] = k]
    /\ UNCHANGED <<published, keys, age, mu, elapsed, reply, attemptAge, keysAge, failed>>

\* The lookup of a kid in the cached keys S, with the mutex released.
Resolve(v, S) ==
    /\ pc' = [pc EXCEPT ![v] =
                IF kid[v] \in S \/ (kid[v] = NoKid /\ Cardinality(S) = 1)
                THEN "found" ELSE "unknown"]
    /\ mu' = Free

RefreshDue == age >= Interval \/ keys = {}

\* Mutants: an unknown kid triggers a refresh; a cached kid is served without
\* looking at the age of the cache.
AcquireRefreshesUnknownKid(v) ==
    /\ pc[v] = "waiting" /\ mu = Free
    /\ IF RefreshDue \/ kid[v] \notin keys
       THEN /\ mu' = v
            /\ pc' = [pc EXCEPT ![v] = "fetching"]
            /\ age' = 0 /\ attemptAge' = 0 /\ elapsed' = 0
       ELSE /\ Resolve(v, keys)
            /\ UNCHANGED <<age, attemptAge, elapsed>>
    /\ UNCHANGED <<published, keys, kid, reply, keysAge, failed>>

AcquireLooksUpFirst(v) ==
    /\ pc[v] = "waiting" /\ mu = Free
    /\ IF RefreshDue /\ kid[v] \notin keys
       THEN /\ mu' = v
            /\ pc' = [pc EXCEPT ![v] = "fetching"]
            /\ age' = 0 /\ attemptAge' = 0 /\ elapsed' = 0
       ELSE /\ Resolve(v, keys)
            /\ UNCHANGED <<age, attemptAge, elapsed>>
    /\ UNCHANGED <<published, keys, kid, reply, keysAge, failed>>

\* refreshLocked records the attempt, then sends the request.
Acquire(v) ==
    /\ pc[v] = "waiting" /\ mu = Free
    /\ IF RefreshDue
       THEN /\ mu' = v
            /\ pc' = [pc EXCEPT ![v] = "fetching"]
            /\ age' = 0 /\ attemptAge' = 0 /\ elapsed' = 0
       ELSE /\ Resolve(v, keys)
            /\ UNCHANGED <<age, attemptAge, elapsed>>
    /\ UNCHANGED <<published, keys, kid, reply, keysAge, failed>>

\* The endpoint answers with what it publishes at that instant.
Serve(v) ==
    /\ pc[v] = "fetching"
    /\ pc' = [pc EXCEPT ![v] = "served"]
    /\ reply' = published
    /\ UNCHANGED <<published, keys, age, mu, kid, elapsed, attemptAge, keysAge, failed>>

\* Entries that are not usable are skipped.
Usable(S) == {j.kid : j \in {i \in S : i.usable}}

FetchOK(v) ==
    /\ pc[v] = "served" /\ Usable(reply) # {}
    /\ keys' = Usable(reply)
    /\ age' = 0
    /\ keysAge' = elapsed
    /\ failed' = FALSE
    /\ Resolve(v, Usable(reply))
    /\ UNCHANGED <<published, kid, elapsed, reply, attemptAge>>

\* Mutant: the error return of a first fetch leaves the mutex locked.
FetchFailsKeepsMutex(v) ==
    /\ pc[v] \in {"fetching", "served"}
    /\ failed' = TRUE
    /\ IF keys = {}
       THEN pc' = [pc EXCEPT ![v] = "error"] /\ UNCHANGED mu
       ELSE Resolve(v, keys)
    /\ UNCHANGED <<published, keys, age, kid, elapsed, reply, attemptAge, keysAge>>

\* No connection, a timeout, a cancelled request, another status, a body that
\* does not decode, or an answer without usable keys.
FetchFails(v) ==
    /\ pc[v] \in {"fetching", "served"}
    /\ failed' = TRUE
    /\ IF keys = {}
       THEN pc' = [pc EXCEPT ![v] = "error"] /\ mu' = Free
       ELSE Resolve(v, keys)
    /\ UNCHANGED <<published, keys, age, kid, elapsed, reply, attemptAge, keysAge>>

Step(v) == Acquire(v) \/ Serve(v) \/ FetchOK(v) \/ FetchFails(v)

Next == Rotate \/ Tick \/ \E v \in Verifiers : Call(v) \/ Step(v)

Spec == Init /\ [][Next]_vars

\* A fetch is answered or times out, and sync.Mutex hands itself to a waiter
\* that has been starving for a millisecond.
Fairness == \A v \in Verifiers : /\ SF_vars(Acquire(v))
                                 /\ WF_vars(Serve(v) \/ FetchOK(v) \/ FetchFails(v))

FairSpec == Spec /\ Fairness

-----------------------------------------------------------------------------

FetchBegins == \E v \in Verifiers : pc[v] = "waiting" /\ pc'[v] = "fetching"

\* While keys are cached the endpoint is asked at most once per interval, by
\* whichever request comes first, whatever kids the tokens carry and however the
\* fetches end ("Refresh on a fixed interval only", auth.go).
RefreshesBackOff == [][FetchBegins /\ keys # {} => attemptAge = Interval]_vars

\* The comment of refreshLocked: "Record the attempt time regardless of outcome so
\* failures back off for a full interval instead of retrying on every request."
FailuresBackOff == [][FetchBegins => attemptAge = Interval]_vars

CachedKeysKept == keys # {} => keys' # {} /\ (keys' # keys => keys' = Usable(reply))

\* A refresh that fails, or that finds no usable key, never takes away the keys
\* that tokens already verify with.
FailedRefreshKeepsKeys == [][CachedKeysKept]_vars

TokenVerifies ==
    \E v \in Verifiers : pc[v] \in {"waiting", "served"} /\ pc'[v] = "found"

\* A key the endpoint withdrew verifies no token later than a refresh interval and
\* one fetch afterwards, unless a fetch failed in between.
WithdrawnKeysExpire == [][TokenVerifies => failed' \/ keysAge' < Oldest]_vars
=============================================================================
