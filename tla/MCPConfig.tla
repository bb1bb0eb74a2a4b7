----------------------------- MODULE MCPConfig -----------------------------
(***************************************************************************)
(* How an MCP server starts (mcpserver/config.go, schema.go and New of      *)
(* server.go): the authentication block of the configuration under the      *)
(* environment, the runtime options, and both against what FT.INFO says of   *)
(* the index.  All of it is computed once, before the first request.         *)
(***************************************************************************)
EXTENDS Integers, Sequences, FiniteSets

CONSTANTS Scopes,       \* authorization values of tokens
          None,         \* an option that is not set
          Limits        \* the built-in defaults: [default, max, upsert : Nat \ {0}]

\* The authentication block of YAML: what is not set is None, or the empty set.
Unset == [type |-> None, jwksURI |-> None, publicKey |-> None, issuer |-> None,
          audience |-> None, algorithm |-> None, requiredScopes |-> {},
          readScope |-> None, writeScope |-> None, authorizationClaim |-> None]

\* The block of REDISVL_MCP_AUTH_*: a list that is set may be empty, written ",".
NoEnv == [Unset EXCEPT !.requiredScopes = None]

\* What the environment sets wins, and its type "none" disables authentication.
authEnvOverrides(yaml, env) ==
    IF env.type = "none" THEN Unset
    ELSE [f \in DOMAIN Unset |-> IF env[f] # NoEnv[f] THEN env[f] ELSE yaml[f]]

JWTFields == {"jwksURI", "publicKey", "issuer", "audience", "requiredScopes",
              "readScope", "writeScope"}

\* Mutant: a block that forgets its type is taken for "none".
AuthAcceptedUntyped(a) ==
    a.type = "jwt" => /\ (a.jwksURI = None) # (a.publicKey = None)
                      /\ a.algorithm # "HS256"
                      /\ a.issuer # None /\ a.audience # None

\* validateAuth: settings of a JWT without its type are refused, and so is a JWT
\* without exactly one source of keys, with a symmetric algorithm, or not bound to an
\* issuer and an audience.
AuthAccepted(a) ==
    /\ a.type \in {None, "none", "jwt"}
    /\ a.type # "jwt" => \A f \in JWTFields : a[f] = Unset[f]
    /\ a.type = "jwt" => /\ (a.jwksURI = None) # (a.publicKey = None)
                         /\ a.algorithm # "HS256"
                         /\ a.issuer # None /\ a.audience # None

Enabled(a) == a.type = "jwt"

-----------------------------------------------------------------------------
(* Validate: the index and the runtime options. *)

Classes   == {"openai", "azure_openai", "cohere", "mistral", "voyageai", "ollama"}
DataTypes == {"bfloat16", "float16", "float32", "float64", "int8", "uint8"}

RuntimeAccepted(c) ==
    /\ c.redisName # None
    /\ c.vectorizer = None => c.textField # None
    /\ c.vectorizer # None => c.vectorizer \in Classes /\ c.vectorField # None
    /\ c.dtype \in DataTypes \union {None}
    /\ \A i \in DOMAIN c.overrides : c.overrides[i].name # None /\ c.overrides[i].type # None

OrDefault(n, d) == IF n <= 0 THEN d ELSE n

-----------------------------------------------------------------------------
(* FT.INFO and the overrides. *)

\* A hash index names its fields by identifier, a JSON index by alias.
FieldName(index, a) == IF index.storage = "json" THEN a.alias ELSE a.identifier
FieldPath(index, a) == IF index.storage = "json" THEN a.identifier ELSE None

\* inspectSchema: of two attributes of one name the later one is kept.
Inspected(index) ==
    LET as == index.attributes
    IN  [n \in {FieldName(index, as[i]) : i \in DOMAIN as} |->
           LET a == as[CHOOSE i \in DOMAIN as :
                         /\ FieldName(index, as[i]) = n
                         /\ \A j \in DOMAIN as : FieldName(index, as[j]) = n => j <= i]
           IN  [type |-> a.type, path |-> FieldPath(index, a)]]

\* Overrides patch attributes of fields that were found, and nothing else.
OverridesApply(fields, overrides) ==
    \A i \in DOMAIN overrides :
        LET o == overrides[i]
        IN  /\ o.name \in DOMAIN fields
            /\ o.type = fields[o.name].type
            /\ o.path \in {None, fields[o.name].path}

MappingValid(fields, c) ==
    /\ {c.textField, c.embedField, c.vectorField} \ {None} \subseteq DOMAIN fields
    /\ c.vectorField # None => fields[c.vectorField].type = "vector"

-----------------------------------------------------------------------------
(* New.  A start is a configuration, an environment, the index in Redis (None *)
(* if there is none of the configured name, or Redis is not at the URL),       *)
(* whether the vectorizer of the class can be made, the --read-only option,    *)
(* and whether the server is run over HTTP or over stdio.  The data type that  *)
(* New takes from the index only tells how a query vector is encoded.          *)

Starts(s) ==
    /\ AuthAccepted(authEnvOverrides(s.config.auth, s.env))
    /\ RuntimeAccepted(s.config)
    /\ s.index # None
    /\ OverridesApply(Inspected(s.index), s.config.overrides)
    /\ MappingValid(Inspected(s.index), s.config)
    /\ s.config.vectorizer # None => s.vectorizerMade

NewServer(s) ==
    LET c == s.config
    IN  [auth      |-> authEnvOverrides(c.auth, s.env),
         http      |-> s.http,
         json      |-> s.index.storage = "json",
         readOnly  |-> c.readOnly \/ s.readOnly,
         semantic  |-> c.vectorizer # None /\ c.vectorField # None,
         embeds    |-> c.vectorizer # None /\ c.vectorField # None /\ c.embedField # None,
         skip      |-> c.skip # FALSE,
         limit     |-> OrDefault(c.defaultLimit, Limits.default),
         maxLimit  |-> OrDefault(c.maxLimit, Limits.max),
         maxUpsert |-> OrDefault(c.maxUpsert, Limits.upsert)]

\* clampLimit: the default is not held to the maximum.
clampLimit(server, n) ==
    IF n <= 0 THEN server.limit ELSE IF n > server.maxLimit THEN server.maxLimit ELSE n
=============================================================================
