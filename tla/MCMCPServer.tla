---------------------------- MODULE MCMCPServer ----------------------------
(* Two requests at a time, twelve launches of which five start, one named key and    *)
(* entries without a kid or of no use.                                            *)
EXTENDS MCPServer, FiniteSetsExt

CONSTANTS ka, d1, d2, t1, t2

Key(k)    == [kid |-> k, usable |-> TRUE]
Rotations == {{Key(ka)}, {Key(NoKid), [kid |-> ka, usable |-> FALSE]}}

BuiltIn == [default |-> 1, max |-> 2, upsert |-> 2]

\* What FT.INFO says: a text field, and a vector field.
Attribute(p, n, t) == [identifier |-> p, alias |-> n, type |-> t]
Index     == [storage |-> "hash", attributes |-> <<Attribute("content", "content", "text"),
                                                   Attribute("embedding", "e", "vector")>>]
JSONIndex == [storage |-> "json", attributes |-> <<Attribute("$.c", "content", "text"),
                                                   Attribute("$.e", "embedding", "vector")>>]

JWT == [Unset EXCEPT !.type = "jwt", !.jwksURI = "uri", !.issuer = "us", !.audience = "them",
                     !.requiredScopes = {"w"}, !.writeScope = "w", !.authorizationClaim = "roles"]

Config == [auth |-> Unset, redisName |-> "idx", vectorizer |-> "openai",
           textField |-> "content", vectorField |-> "embedding", embedField |-> "content",
           overrides |-> <<[name |-> "embedding", type |-> "vector", path |-> None]>>,
           dtype |-> None, skip |-> None, defaultLimit |-> 0, maxLimit |-> 0, maxUpsert |-> 0,
           readOnly |-> FALSE]

Launch(c, e) == [config |-> c, env |-> e, index |-> Index, vectorizerMade |-> TRUE,
                 readOnly |-> FALSE, http |-> TRUE]
WithAuth(a)  == [Config EXCEPT !.auth = a]
Static       == [JWT EXCEPT !.jwksURI = None, !.publicKey = "pem", !.readScope = "r",
                            !.requiredScopes = {}, !.authorizationClaim = None]

\* A JWKS server; the same without its type, and disabled by the environment; two sources
\* of keys, and no required scopes from the environment; a static key over a JSON index,
\* embedding what has a vector already; a read-only server; a text search over stdio; three
\* whose index is not as configured; and two with a data type and a vectorizer there is not.
SmallLaunches ==
    <<Launch(WithAuth(JWT), NoEnv),
      Launch(WithAuth([JWT EXCEPT !.type = None]), NoEnv),
      Launch(WithAuth(JWT), [NoEnv EXCEPT !.type = "none"]),
      Launch([WithAuth(JWT) EXCEPT !.skip = FALSE],
             [Static EXCEPT !.type = None, !.issuer = None, !.audience = None]),
      [Launch([WithAuth([Static EXCEPT !.requiredScopes = {"w"}]) EXCEPT !.skip = FALSE],
              [NoEnv EXCEPT !.requiredScopes = {}]) EXCEPT !.index = JSONIndex],
      [Launch(WithAuth(Static), NoEnv) EXCEPT !.readOnly = TRUE],
      [Launch([WithAuth(JWT) EXCEPT !.vectorizer = None], NoEnv) EXCEPT !.http = FALSE],
      [Launch(Config, NoEnv) EXCEPT !.index = None],
      Launch([Config EXCEPT !.vectorField = "content"], NoEnv),
      Launch([Config EXCEPT !.overrides[1].type = "text"], NoEnv),
      Launch([Config EXCEPT !.dtype = "float128"], NoEnv),
      [Launch(Config, NoEnv) EXCEPT !.vectorizerMade = FALSE]>>

Valid(s, r) == [valid |-> TRUE, scp |-> s, roles |-> r]
SmallTokens == {NoToken, Valid({"r", "w"}, {}), Valid({"w"}, {"w"}), Valid({"r"}, {"w"})}

Rec(i, t, x) == [id |-> i, text |-> t, vector |-> x]
SmallCalls ==
    {[tool |-> "search", limit |-> 0, offset |-> -1, empty |-> FALSE],
     [tool |-> "search", limit |-> 3, offset |-> 1, empty |-> TRUE],
     [tool |-> "upsert", records |-> <<>>],
     [tool |-> "upsert", records |-> <<Rec(d1, t1, Own)>>],
     [tool |-> "upsert", records |-> <<Rec(d1, None, None)>>],
     [tool |-> "upsert", records |-> <<Rec(d2, Blank, None), Rec(d1, t2, None)>>]}

-----------------------------------------------------------------------------
\* The pages of a text search have every match, those of a semantic search only the
\* first l: its second page is empty.
OnPages(semantic, m, l) == MapThenSumSet(LAMBDA p : ShownOf(semantic, m, p * l, l), 0..m)

ASSUME PagesReach ==
    \A m \in 0..7, l \in 1..4 : /\ OnPages(FALSE, m, l) = m
                                /\ OnPages(TRUE, m, l) = IF l < m THEN l ELSE m
=============================================================================
