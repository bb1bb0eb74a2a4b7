-------------------------------- MODULE Router --------------------------------
(***************************************************************************)
(* SemanticRouter (extensions/router/router.go).  Routers of one name share   *)
(* their references in Redis, but each process has a list of routes of its    *)
(* own, and no other learns of what it adds or removes.  A step is one        *)
(* command; what touches only the process goes with the command before it.    *)
(* The references of a route are a set, distances are naturals, and a vector  *)
(* given in place of a statement is a statement whose embedding succeeds.     *)
(***************************************************************************)
EXTENDS Integers, FiniteSets, FiniteSetsExt, SequencesExt

CONSTANTS Routers, Names, References, Statements,
          Distance(_, _),    \* Distance(s, ref): from a statement to a reference
          Globbed(_),        \* Globbed(n): names whose keys match the pattern router:n:*
          DefaultThreshold,
          MaxThreshold,      \* the largest distance there is, 2 in the code
          Requests,          \* the calls they make, a subset of Request
          MaxCalls,          \* bound: calls begun in a behaviour
          MaxFaults          \* bound: commands lost

Route  == [name : Names, references : SUBSET References, threshold : Int]
Config == [maxK : Int, aggregation : {"avg", "min", "sum"}]

Request ==
    [op : {"new"}, routes : Seq(Route), config : Config, overwrite : BOOLEAN]
        \union [op : {"add"}, route : Route]
        \union [op : {"remove"}, name : Names]
        \union [op : {"threshold"}, name : Names, threshold : Int]
        \union [op : {"config"}, config : Config]
        \union [op : {"clear", "delete"}]
        \union [op : {"route", "many"}, statement : Statements]

ASSUME RouterAssumption ==
    /\ Requests \subseteq Request
    /\ DefaultThreshold \in 1..MaxThreshold /\ MaxThreshold \in Nat \ {0}
    /\ \A s \in Statements, f \in References : Distance(s, f) \in 0..MaxThreshold
    /\ \A n \in Names : n \in Globbed(n) /\ Globbed(n) \subseteq Names
    /\ IsFiniteSet(Names) /\ IsFiniteSet(References)
    /\ MaxCalls \in Nat /\ MaxFaults \in Nat

Keys      == Names \X References
NoRequest == [op |-> "none"]

VARIABLES
    index,    \* whether the index exists
    refs,     \* the keys in Redis
    made,     \* made[r]: whether New returned a router
    routes,   \* routes[r]: its list of routes
    config,   \* config[r]: its RoutingConfig
    pc, req,
    todo,     \* keys r has yet to HSET, in order
    unseen,   \* keys the SCAN of r has not passed
    batch,    \* keys r is about to DEL
    matches,  \* what r's last Route or RouteMany returned
    calls, faults,
    due,      \* history: keys that r's RemoveRoute owes
    undone    \* history: keys removed since r's call began, unless r wrote them since

redis   == <<index, refs, due, undone>>
router  == <<made, routes, config>>
cursors == <<todo, unseen, batch, matches>>
vars    == <<redis, router, cursors, pc, req, calls, faults>>

Labels == {"idle", "ok", "err", "create", "embed", "hset", "scan", "del", "clear",
           "delete", "embed_statement", "aggregate"}

Match == [name : Names, sum : Nat, of : Nat \ {0}]

TypeOK ==
    /\ index \in BOOLEAN
    /\ refs \subseteq Keys
    /\ made \in [Routers -> BOOLEAN]
    /\ routes \in [Routers -> Seq(Route)]
    /\ \A r \in Routers :
          /\ \A i \in DOMAIN routes[r] : routes[r][i].references # {}
          /\ pc[r] # "idle" => req[r] \in Requests
    /\ config \in [Routers -> Config]
    /\ pc \in [Routers -> Labels]
    /\ req \in [Routers -> Requests \union {NoRequest}]
    /\ todo \in [Routers -> Seq(Keys)]
    /\ matches \in [Routers -> Seq(Match)]
    /\ unseen \in [Routers -> SUBSET Keys]
    /\ batch \in [Routers -> SUBSET Keys]
    /\ calls \in Nat /\ faults \in Nat
    /\ due \in [Routers -> SUBSET Keys]
    /\ undone \in [Routers -> SUBSET Keys]

Init ==
    /\ index = FALSE /\ refs = {}
    /\ made = [r \in Routers |-> FALSE]
    /\ routes = [r \in Routers |-> <<>>]
    /\ config = [r \in Routers |-> [maxK |-> 1, aggregation |-> "avg"]]
    /\ pc = [r \in Routers |-> "idle"]
    /\ req = [r \in Routers |-> NoRequest]
    /\ todo = [r \in Routers |-> <<>>]
    /\ unseen = [r \in Routers |-> {}]
    /\ batch = [r \in Routers |-> {}]
    /\ matches = [r \in Routers |-> <<>>]
    /\ calls = 0 /\ faults = 0
    /\ due = [r \in Routers |-> {}]
    /\ undone = [r \in Routers |-> {}]

Goto(r, label) == pc' = [pc EXCEPT ![r] = label] /\ UNCHANGED faults

\* The command, or its reply, is lost.
Lose(r, label) ==
    /\ faults < MaxFaults
    /\ faults' = faults + 1
    /\ pc' = [pc EXCEPT ![r] = label]

RemoveKeys(S) ==
    /\ refs' = refs \ S
    /\ due' = [r \in Routers |-> due[r] \ S]
    /\ undone' = [r \in Routers |-> undone[r] \union (S \intersect refs)]

-----------------------------------------------------------------------------
(* The list of routes of a process.                                           *)

Listed(list) == {list[i].name : i \in DOMAIN list}

\* validate sets the default threshold before it checks the threshold.
Defaulted(route) ==
    [route EXCEPT !.threshold = IF @ = 0 THEN DefaultThreshold ELSE @]

\* Mutant: validate checks the threshold only.
ValidThreshold(route) == Defaulted(route).threshold \in 1..MaxThreshold

Valid(route) == route.references # {} /\ Defaulted(route).threshold \in 1..MaxThreshold

\* The routes a New or an AddRoute indexes, and the keys of their references.
Given(q)    == IF q.op = "new" THEN q.routes ELSE <<q.route>>
KeysOf(route) == {<<route.name, f>> : f \in route.references}
HSets(q) == FlattenSeq([i \in DOMAIN Given(q) |-> SetToSeq(KeysOf(Given(q)[i]))])

\* AddRoute appends to the references of the first route of that name it knows, whose
\* threshold stays.
Extended(known, route) == [known EXCEPT !.references = @ \union route.references]
Added(list, route) ==
    LET k == SelectInSeq(list, LAMBDA known : known.name = route.name)
    IN  IF k = 0 THEN Append(list, route)
        ELSE [list EXCEPT ![k] = Extended(@, route)]

List(r) ==
    /\ routes' = [routes EXCEPT ![r] =
          IF req[r].op = "new"
          THEN [i \in DOMAIN req[r].routes |-> Defaulted(req[r].routes[i])]
          ELSE Added(@, Defaulted(req[r].route))]
    /\ made' = [made EXCEPT ![r] = TRUE]
    /\ config' = IF req[r].op = "new" THEN [config EXCEPT ![r] = req[r].config] ELSE config

Unlist(r) ==
    routes' = [routes EXCEPT ![r] =
        RemoveFirstMatch(@, LAMBDA route : route.name = req[r].name)]

\* UpdateRouteThresholds takes any threshold, UpdateConfig any configuration.
SetThreshold(r, q) ==
    /\ routes' = [routes EXCEPT ![r] =
          [i \in DOMAIN @ |-> IF @[i].name = q.name THEN [@[i] EXCEPT !.threshold = q.threshold]
                              ELSE @[i]]]
    /\ UNCHANGED <<made, config>>

SetConfig(r, q) == config' = [config EXCEPT ![r] = q.config] /\ UNCHANGED <<made, routes>>

-----------------------------------------------------------------------------

\* A New starts a process over: its earlier routes are forgotten, not their keys.
Begin(r, q) ==
    LET refused == \/ q.op \in {"new", "add"} /\ \E i \in DOMAIN Given(q) : ~Valid(Given(q)[i])
                   \/ q.op \in {"route", "many"} /\ routes[r] = <<>>
        globbed == Globbed(q.name) \X References
    IN  /\ pc[r] \in {"idle", "ok", "err"} /\ calls < MaxCalls
        /\ q.op = "new" \/ made[r]
        /\ calls' = calls + 1
        /\ req' = [req EXCEPT ![r] = q]
        /\ Goto(r, IF refused THEN "err" ELSE
                   CASE q.op = "new"               -> "create"
                     [] q.op = "add"               -> "embed"
                     [] q.op = "remove"            -> "scan"
                     [] q.op \in {"route", "many"} -> "embed_statement"
                     [] q.op \in {"clear", "delete"} -> q.op
                     [] OTHER                      -> "ok")
        /\ CASE q.op = "new"       -> /\ made' = [made EXCEPT ![r] = FALSE]
                                      /\ routes' = [routes EXCEPT ![r] = <<>>]
                                      /\ UNCHANGED config
             [] q.op = "threshold" -> SetThreshold(r, q)
             [] q.op = "config"    -> SetConfig(r, q)
             [] OTHER              -> UNCHANGED router
        /\ todo' = [todo EXCEPT ![r] = IF q.op \in {"new", "add"} THEN HSets(q) ELSE <<>>]
        /\ unseen' = [unseen EXCEPT ![r] = IF q.op = "remove" THEN globbed ELSE {}]
        /\ due' = [due EXCEPT ![r] = IF q.op = "remove" THEN globbed \intersect refs ELSE {}]
        /\ undone' = [undone EXCEPT ![r] = {}]
        /\ matches' = [matches EXCEPT ![r] = <<>>]
        /\ UNCHANGED <<index, refs, batch>>

-----------------------------------------------------------------------------
(* NewSemanticRouter and AddRoute.                                            *)

\* SearchIndex.Create, with Overwrite and Drop (SearchIndex has its commands).
Create(r) ==
    /\ pc[r] = "create"
    /\ \/ /\ index' = TRUE
          /\ IF index /\ req[r].overwrite THEN RemoveKeys(refs) ELSE UNCHANGED <<refs, due, undone>>
          /\ Goto(r, "embed") \/ Lose(r, "err")
       \/ Lose(r, "err") /\ UNCHANGED redis
    /\ UNCHANGED <<router, cursors, req, calls>>

\* Mutant: AddRoute lists the route before it indexes its references.
EmbedListsFirst(r) ==
    /\ pc[r] = "embed"
    /\ Goto(r, "err") \/ Goto(r, "hset")
    /\ IF req[r].op = "add" THEN List(r) ELSE UNCHANGED router
    /\ UNCHANGED <<redis, cursors, req, calls>>

\* EmbedMany of each route's references: only when all succeed is anything written.
Embed(r) ==
    /\ pc[r] = "embed"
    /\ Goto(r, "err") \/ Goto(r, "hset")
    /\ UNCHANGED <<redis, router, cursors, req, calls>>

\* One HSET of the pipeline; after the last the process lists its routes.
HSet(r) ==
    /\ pc[r] = "hset"
    /\ IF todo[r] = <<>> THEN List(r) /\ Goto(r, "ok") /\ UNCHANGED <<redis, todo>> ELSE
       \/ /\ refs' = refs \union {Head(todo[r])}
          /\ due' = [q \in Routers |-> due[q] \ {Head(todo[r])}]
          /\ undone' = [undone EXCEPT ![r] = @ \ {Head(todo[r])}]
          /\ todo' = [todo EXCEPT ![r] = Tail(@)]
          /\ \/ Goto(r, "hset") /\ UNCHANGED router
             \/ Lose(r, "err") /\ UNCHANGED router
          /\ UNCHANGED index
       \/ Lose(r, "err") /\ UNCHANGED <<redis, router, todo>>
    /\ UNCHANGED <<unseen, batch, matches, req, calls>>

-----------------------------------------------------------------------------
(* RemoveRoute: SCAN and DEL in turn, then out of the list.                   *)

Finish(r) == Goto(r, "ok") /\ Unlist(r)

\* Mutant: a page without a key ends the SCAN.
ScanStopsAtEmptyPage(r) ==
    /\ pc[r] = "scan"
    /\ \E S \in SUBSET unseen[r] \ {{}} :
          /\ unseen' = [unseen EXCEPT ![r] = @ \ S]
          /\ batch' = [batch EXCEPT ![r] = S \intersect refs]
          /\ IF S \intersect refs # {} THEN Goto(r, "del") /\ UNCHANGED routes ELSE Finish(r)
    /\ UNCHANGED <<redis, made, config, todo, matches, req, calls>>

\* A page of SCAN has the keys of a part of the key space, and may have none before
\* the cursor is back at 0.
Scan(r) ==
    /\ pc[r] = "scan"
    /\ \/ \E S \in SUBSET unseen[r] \ {{}} :
             /\ unseen' = [unseen EXCEPT ![r] = @ \ S]
             /\ batch' = [batch EXCEPT ![r] = S \intersect refs]
             /\ IF S \intersect refs # {} THEN Goto(r, "del") /\ UNCHANGED routes
                ELSE IF S # unseen[r] THEN Goto(r, "scan") /\ UNCHANGED routes
                ELSE Finish(r)
       \/ Lose(r, "err") /\ UNCHANGED <<unseen, batch, routes>>
    /\ UNCHANGED <<redis, made, config, todo, matches, req, calls>>

Del(r) ==
    /\ pc[r] = "del"
    /\ \/ /\ RemoveKeys(batch[r])
          /\ \/ unseen[r] = {} /\ Finish(r)
             \/ unseen[r] # {} /\ Goto(r, "scan") /\ UNCHANGED routes
             \/ Lose(r, "err") /\ UNCHANGED routes
       \/ Lose(r, "err") /\ UNCHANGED <<refs, due, undone, routes>>
    /\ batch' = [batch EXCEPT ![r] = {}]
    /\ UNCHANGED <<index, made, config, todo, unseen, matches, req, calls>>

\* SearchIndex.Clear and Delete, which fail without an index (SearchIndex has their
\* commands).  The process keeps its routes.
Empty(r) ==
    /\ pc[r] \in {"clear", "delete"}
    /\ \/ /\ index
          /\ RemoveKeys(refs)
          /\ index' = (pc[r] = "clear")
          /\ Goto(r, "ok") \/ Lose(r, "err")
       \/ ~index /\ Goto(r, "err") /\ UNCHANGED redis
       \/ Lose(r, "err") /\ UNCHANGED redis
    /\ UNCHANGED <<router, cursors, req, calls>>

-----------------------------------------------------------------------------
(* Route and RouteMany: one FT.AGGREGATE.                                     *)

EmbedStatement(r) ==
    /\ pc[r] = "embed_statement"
    /\ Goto(r, "aggregate") \/ Goto(r, "err")
    /\ UNCHANGED <<redis, router, cursors, req, calls>>

Thresholds(list) == {list[i].threshold : i \in DOMAIN list}
Radius(list)     == Max(Thresholds(list) \union {0})

\* Sum and number of the distances to the references of n within the radius.
InRange(r, n) == {f \in References :
                    <<n, f>> \in refs /\ Distance(req[r].statement, f) <= Radius(routes[r])}
Reduce(r, n) ==
    LET D(f) == Distance(req[r].statement, f)
        S    == InRange(r, n)
        sum  == MapThenSumSet(D, S)
    IN  CASE config[r].aggregation = "avg" -> [name |-> n, sum |-> sum, of |-> Cardinality(S)]
          [] config[r].aggregation = "sum" -> [name |-> n, sum |-> sum, of |-> 1]
          [] OTHER -> [name |-> n, sum |-> Min({D(f) : f \in S}), of |-> 1]

\* GROUPBY: a group for each name with a reference in range, of any process's route.
Groups(r) == {Reduce(r, n) : n \in {m \in Names : InRange(r, m) # {}}}

Nearer(a, b)  == a.sum * b.of < b.sum * a.of
IsRanked(s)   == \A i, j \in DOMAIN s : i < j => ~Nearer(s[j], s[i])
MaxK(r)       == IF req[r].op = "route" \/ config[r].maxK <= 0 THEN 1 ELSE config[r].maxK

\* Mutant: the range search alone bounds the distance.
WithinRadius(r, g) == g.sum <= Radius(routes[r]) * g.of

\* The FILTER, of the routes this process lists.
Within(r, g) ==
    \E route \in ToSet(routes[r]) : route.name = g.name /\ g.sum < route.threshold * g.of

\* FILTER keeps the order.
Filtered(r, s) == FlattenSeq([i \in DOMAIN s |-> IF Within(r, s[i]) THEN <<s[i]>> ELSE <<>>])

\* SORTBY distance ASC MAX k, in any order of equal distances, then the FILTER.
Answers(r) ==
    {Filtered(r, SubSeq(s, 1, Min({MaxK(r), Len(s)}))) :
        s \in {t \in SetToSeqs(Groups(r)) : IsRanked(t)}}

Aggregate(r) ==
    /\ pc[r] = "aggregate"
    /\ \/ /\ index
          /\ \E answer \in Answers(r) : matches' = [matches EXCEPT ![r] = answer]
          /\ Goto(r, "ok")
       \/ ~index /\ Goto(r, "err") /\ UNCHANGED matches
       \/ Lose(r, "err") /\ UNCHANGED matches
    /\ UNCHANGED <<redis, router, todo, unseen, batch, req, calls>>

-----------------------------------------------------------------------------

Step(r) ==
    \/ Create(r) \/ Embed(r) \/ HSet(r) \/ Scan(r) \/ Del(r) \/ Empty(r)
    \/ EmbedStatement(r) \/ Aggregate(r)

Next == \E r \in Routers : Step(r) \/ \E q \in Requests : Begin(r, q)

Spec == Init /\ [][Next]_vars

-----------------------------------------------------------------------------

\* The names of a list with more than one route, which New takes as it is.
Doubles(list) ==
    {list[i].name : i \in {k \in DOMAIN list :
                             \E j \in DOMAIN list : j # k /\ list[j].name = list[k].name}}

\* A route enters a process's list only when the references it was given are in
\* Redis, or were and have been removed by another since: after a pipeline or an
\* embedding that failed half way the process does not list it.  An AddRoute lists no
\* route a second time.
ListsWhatIsIndexed ==
    [][\A r \in Routers :
          routes'[r] # routes[r] /\ pc[r] \in {"embed", "hset"} =>
              /\ \A i \in DOMAIN Given(req[r]) :
                    KeysOf(Given(req[r])[i]) \subseteq refs' \union undone'[r]
              /\ req[r].op = "add" => Doubles(routes'[r]) \subseteq Doubles(routes[r])]_vars

\* When RemoveRoute returns without error the references the route had when it began
\* are gone, and those since put back by another are all that is left; the process
\* does not list the route, unless it listed two of that name, as after a New that was
\* given two: RemoveRoute takes the first off the list.
RemoveIsComplete ==
    [][\A r \in Routers :
          pc[r] \in {"scan", "del"} /\ pc'[r] = "ok" =>
              /\ due'[r] = {}
              /\ req[r].name \in Listed(routes'[r]) =>
                    req[r].name \in Doubles(routes[r])]_vars

Replied(r) == pc[r] = "aggregate" /\ pc'[r] = "ok"

\* The routes a process matches are its own, whatever others have in the index, each
\* within its own threshold (not only the largest one, which bounds the search),
\* nearest first; and none such that is nearer than one of them is left out.
NearestFirst ==
    [][\A r \in Routers : Replied(r) =>
          LET answer == matches'[r]
              own    == {g \in Groups(r) :
                           \E i \in DOMAIN routes[r] :
                               /\ routes[r][i].name = g.name
                               /\ g.sum < routes[r][i].threshold * g.of}
          IN  /\ IsRanked(answer)
              /\ \A i \in DOMAIN answer :
                    /\ answer[i] \in own
                    /\ \A g \in own : Nearer(g, answer[i]) => g \in ToSet(answer)]_vars

\* Documentation: "A zero-value RouteMatch (empty Name) means no route matched within
\* its threshold".
NoMatchMeansNone ==
    [][\A r \in Routers :
          Replied(r) /\ req[r].op = "route" /\ matches'[r] = <<>> =>
              ~\E g \in Groups(r) : Within(r, g)]_vars
=============================================================================
