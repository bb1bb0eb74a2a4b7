--------------------------- MODULE MCSearchIndex ---------------------------
(* A small instance of SearchIndex for TLC, with schemas whose definition is *)
(* right, is refused by Redis, or has no fields because the schema was read   *)
(* from an existing index.                                                    *)
EXTENDS SearchIndex, Schema

CONSTANTS c1, c2, k1, k2

Info == [name |-> "docs", prefixes |-> <<"doc">>, separator |-> "|", storage |-> "hash",
         stopwords |-> {<<>>}]
Vectors(dims) == [dims |-> dims, algorithm |-> "hnsw", datatype |-> "", distance_metric |-> "l2",
                  m |-> 8]
SchemaOf(dims) ==
    CHOOSE s \in NewIndexSchema(Info, <<NewTagField("brand", {"sortable"}, <<>>)>>
                                          \o SetToSeq(NewVectorField("v", {}, Vectors(dims)))) : TRUE
Own      == SchemaOf(4)
Existing == CHOOSE s \in FromExisting("docs", Definition(Own)) : TRUE

Args(s) == IF SchemaArgs(s) = {} THEN "none"
           ELSE IF \A a \in SchemaArgs(s) : RedisAccepts(a) THEN "accepted" ELSE "refused"

Create(o, d, s) == [op |-> "create", overwrite |-> o, drop |-> d, args |-> Args(s)]
DeleteReq(d)    == [op |-> "delete", drop |-> d]
Load(ks, t, i)  == [op |-> "load", keys |-> ks, ttl |-> t, wellFormed |-> TRUE, invalid |-> i]
ClearReq        == [op |-> "clear"]

\* Lifecycle of the index against documents that come and go.
LifecycleRequests ==
    {Create(o, d, Own) : o, d \in BOOLEAN} \union {DeleteReq(d) : d \in BOOLEAN}
        \union {Create(TRUE, TRUE, s) : s \in {SchemaOf(9), Existing}}
        \union {ClearReq, Load(<<k1, k2>>, FALSE, 0)}
        \union {[op |-> "dropkeys", keys |-> {k1}], [op |-> "expire", keys |-> <<k2>>],
                [op |-> "expire", keys |-> <<>>],
                [Load(<<k1>>, FALSE, 0) EXCEPT !.wellFormed = FALSE]}

-----------------------------------------------------------------------------
(* The schema package against what its comments say of it, over these fields. *)

SomeFields ==
    UNION {
        {NewTextField("f", F, v) : F \in {{}, {"sortable", "unf", "index_missing"}, {"unf"},
                                          FlagsOf("text")},
             v \in {<<>>, [weight |-> 0], [weight |-> 2, phonetic_matcher |-> "dm:en"]}},
        {NewTagField("f", F, v) : F \in SUBSET {"index_empty", "case_sensitive", "sortable"},
             v \in {<<>>, [separator |-> "|"]}},
        {NewNumericField("f", F) : F \in SUBSET FlagsOf("numeric")},
        {NewGeoField("f", F) : F \in SUBSET FlagsOf("geo")},
        UNION {NewVectorField("f", F, Updated(Updated(Vectors(n), "datatype", t), "algorithm", a)) :
             F \in {{}, {"index_missing"}}, n \in {-1, 0, 4}, t \in {"", "FLOAT32", "int8", "int4"},
             a \in {"flat", "HNSW", "svs-vamana", "ivf"}},
        UNION {NewVectorField("f", {}, v) : v \in UNION {RecommendCompression(1024, p, "") :
             p \in {"speed", "memory", "balanced"}}}}

SomeSchemas ==
    UNION {NewIndexSchema([Info EXCEPT !.storage = st, !.prefixes = p, !.stopwords = w],
                          <<NewGeoField("g", {}), [f EXCEPT !.path = q]>>) :
              st \in {"", "hash", "json", "Json"}, p \in {<<>>, <<"doc">>, <<"a", "b">>},
              w \in {{}, {<<>>}}, f \in SomeFields, q \in {<<>>, <<"$", "other">>}}

\* What is written to YAML is what is read back, and what was built can be created.
ASSUME YAMLRoundTrip == \A s \in SomeSchemas : UNION {fromRaw(r) : r \in toRaw(s)} = {s}
ASSUME WhatIsBuiltIsDefined ==
    /\ \A s \in SomeSchemas : SchemaArgs(s) # {} /\ AddField(s, s.fields[2]) = {}
    /\ \A s \in SomeSchemas : AddField(RemoveField(s, "f"), s.fields[2]) = {s}

\* "Modifier ordering follows the canonical order required by the Redis Search parser",
\* UNF only behind SORTABLE, and the parameters of a vector preceded by their number.
Canonical == <<"index_empty", "index_missing", "sortable", "unf", "no_index">>
ASSUME ModifiersInOrder ==
    \A f \in SomeFields : \A a \in RedisArgs(f) :
        LET keywords  == [i \in DOMAIN a |-> a[i][1]]
            modifiers == SelectSeq(keywords, LAMBDA k : Contains(Canonical, k))
            place(k)  == CHOOSE i \in DOMAIN Canonical : Canonical[i] = k
        IN  /\ \A i \in 1..(Len(modifiers) - 1) : place(modifiers[i]) < place(modifiers[i + 1])
            /\ Contains(keywords, "unf") => Contains(keywords, "sortable")
            /\ f.flags \ ToSet(keywords) \subseteq {"unf"}
            /\ f.type = "vector" =>
                  a[2][3] = 2 * (Len(a) - 2 - Cardinality(f.flags))

\* An existing index is found under the same prefix, though not with the same keys; nothing
\* can be created from it, nor overwritten.
ASSUME ExistingIsNotOverwritten ==
    \A s \in SomeSchemas : \A e \in FromExisting(s.index.name, Definition(s)) :
        /\ e.index.prefixes = s.index.prefixes /\ e.index.storage = s.index.storage
        /\ SchemaArgs(e) = {} /\ Key(e, "1") # Key(s, "1")

\* The fields inferred from a record accept that record, and a vector must be its size.
Kinds == {[is |-> t, len |-> 1] : t \in {"number", "numeral", "place", "string", "strings", "names",
                                         "numbers", "mixed", "bool", "nil"}}
ASSUME InferredFieldsAccept ==
    \A v, w \in Kinds : \A fs \in GenerateFields([a |-> v, b |-> w], {}) :
        \A s \in NewIndexSchema(Info, fs) : validateRecord(s, [a |-> v, b |-> w])
ASSUME VectorsHaveTheirSize ==
    \A st \in {"hash", "json"}, n \in 0..16, t \in {"bytes", "floats", "numbers", "string"} :
        \A s \in NewIndexSchema([Info EXCEPT !.storage = st],
                                SetToSeq(NewVectorField("v", {}, Vectors(4)))) :
            validateRecord(s, [v |-> [is |-> t, len |-> n]])
                <=> IF st = "hash" THEN t = "bytes" /\ n = 16
                    ELSE t \in {"floats", "numbers"} /\ n = 4

\* What is recommended is valid for the datatypes of SVS-VAMANA; below 1024 dimensions
\* "memory" saves most, but from there on "speed" saves more than it.
ASSUME RecommendationsAreValid ==
    \A d \in -1..1500, p \in {"speed", "memory", "balanced"}, t \in {"", "float32", "float64"} :
        RecommendCompression(d, p, t) # {} <=> d > 0 /\ t # "float64"
Saved(d, p) == LET r == Recommended(d, p)
               IN  EstimateMemorySavings(r.compression, d, Value(r, "reduce", 0))
ASSUME MemorySavesMost ==
    \A d \in 1..4096 : /\ Saved(d, "memory") >= Saved(d, "balanced")
                       /\ Saved(d, "memory") >= Saved(d, "speed") <=> d < 1024
ASSUME HalvesToEven == /\ EstimateMemorySavings("LeanVec4x8", 1536, 768) = 812
                       /\ EstimateMemorySavings("LVQ4", 384, 0) = 875
                       /\ EstimateMemorySavings("bogus", 100, 0) = 0
=============================================================================
