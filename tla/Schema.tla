------------------------------- MODULE Schema -------------------------------
(***************************************************************************)
(* The schema package and validate.go: how an index is described, read from *)
(* and written to YAML, told to Redis, inferred from a record, and how a      *)
(* record is held against it.  What may fail returns a set, with the result or *)
(* empty.  Attributes of a field are the set of its flags and a function on     *)
(* the names of those that have a value; a path is the sequence of its steps.   *)
(***************************************************************************)
EXTENDS Integers, SequencesExt

CONSTANT MaxDims   \* dimensions that Redis accepts

-----------------------------------------------------------------------------
(* Fields (fields.go). *)

Lexical == {"text", "tag", "numeric", "geo"}
Numbers == {"initial_cap", "block_size", "m", "ef_construction", "ef_runtime", "epsilon",
            "graph_max_degree", "construction_window_size", "search_window_size", "reduce",
            "training_threshold"}

FlagsOf(type) ==
    {"index_missing"}
        \union (IF type \in Lexical THEN {"sortable", "no_index"} ELSE {})
        \union (IF type \in {"text", "tag"} THEN {"withsuffixtrie", "index_empty"} ELSE {})
        \union (IF type \in {"text", "numeric"} THEN {"unf"} ELSE {})
        \union (CASE type = "text" -> {"no_stem"} [] type = "tag" -> {"case_sensitive"}
                  [] OTHER -> {})

\* attrs is FALSE if the field has no attributes at all, a nil pointer.
Field(name, type, flags, values) ==
    [name |-> name, type |-> type, path |-> <<>>, attrs |-> TRUE,
     flags |-> flags, values |-> values]

Updated(values, k, v) == [j \in DOMAIN values \union {k} |-> IF j = k THEN v ELSE values[j]]
Value(values, k, v)   == IF k \in DOMAIN values THEN values[k] ELSE v

\* The constructors; a weight of 0 and an empty separator are the defaults.
NewTextField(name, flags, values) ==
    Field(name, "text", flags,
          Updated(values, "weight", IF Value(values, "weight", 0) = 0 THEN 1 ELSE values["weight"]))
NewTagField(name, flags, values) ==
    Field(name, "tag", flags,
          Updated(values, "separator", IF Value(values, "separator", "") = "" THEN ","
                                       ELSE values["separator"]))
NewNumericField(name, flags) == Field(name, "numeric", flags, <<>>)
NewGeoField(name, flags)     == Field(name, "geo", flags, <<>>)

\* The names of the package in both cases; other strings are kept as they are.
Spelling == {<<"flat", "FLAT">>, <<"hnsw", "HNSW">>, <<"svs-vamana", "SVS-VAMANA">>,
             <<"cosine", "COSINE">>, <<"l2", "L2">>, <<"ip", "IP">>, <<"json", "JSON">>,
             <<"hash", "HASH">>, <<"float32", "FLOAT32">>, <<"tag", "TAG">>}
ToUpper(s) == IF \E p \in Spelling : p[1] = s
              THEN (CHOOSE p \in Spelling : p[1] = s)[2] ELSE s
ToLower(s) == IF \E p \in Spelling : p[2] = s
              THEN (CHOOSE p \in Spelling : p[2] = s)[1] ELSE s

Size(datatype) == CASE datatype \in {"bfloat16", "float16"} -> {2}
                    [] datatype = "float32" -> {4} [] datatype = "float64" -> {8}
                    [] datatype \in {"int8", "uint8"} -> {1} [] OTHER -> {}

\* Validate also writes the normalized values back.
Validate(values) ==
    LET v == [values EXCEPT
                 !["datatype"] = IF @ = "" THEN "float32" ELSE ToLower(@),
                 !["distance_metric"] = IF @ = "" THEN "COSINE" ELSE ToUpper(@),
                 !["algorithm"] = ToUpper(@)]
        valid == /\ v.dims > 0
                 /\ Size(v.datatype) # {}
                 /\ v.distance_metric \in {"COSINE", "L2", "IP"}
                 /\ v.algorithm \in {"FLAT", "HNSW", "SVS-VAMANA"}
                 /\ v.algorithm = "SVS-VAMANA" =>
                       /\ v.datatype \in {"float16", "float32"}
                       /\ "reduce" \in DOMAIN v =>
                             /\ v.reduce < v.dims
                             /\ Value(v, "compression", "") \in {"LeanVec4x8", "LeanVec8x8"}
    IN  IF valid THEN {v} ELSE {}

NewVectorField(name, flags, values) ==
    {Field(name, "vector", flags, v) : v \in Validate(values)}

-----------------------------------------------------------------------------
(* FT.CREATE.  A token is a tuple: a keyword, or a keyword and its value. *)

Given(f, flags) == SelectSeq([i \in DOMAIN flags |-> <<flags[i]>>],
                             LAMBDA t : t[1] \in f.flags)
Pairs(values, names) == SelectSeq([i \in DOMAIN names |-> <<names[i], Value(values, names[i], 0)>>],
                                  LAMBDA t : t[1] \in DOMAIN values)

\* INDEXMISSING, SORTABLE with its UNF, NOINDEX, in the order Redis wants them.
Ending(f) ==
    IF "sortable" \in f.flags
    THEN Given(f, <<"index_missing", "sortable", "unf", "no_index">>)
    ELSE Given(f, <<"index_missing", "no_index">>)

LexicalArgs(f) ==
    CASE f.type = "text" ->
           Given(f, <<"no_stem">>)
               \o SelectSeq(Pairs(f.values, <<"weight">>), LAMBDA t : t[2] \notin {0, 1})
               \o Pairs(f.values, <<"phonetic_matcher">>)
               \o Given(f, <<"withsuffixtrie", "index_empty">>) \o Ending(f)
      [] f.type = "tag" ->
           <<<<"separator", IF Value(f.values, "separator", "") = "" THEN ","
                            ELSE f.values["separator"]>>>>
               \o Given(f, <<"case_sensitive", "withsuffixtrie", "index_empty">>) \o Ending(f)
      [] OTHER -> Ending(f)

\* The graph parameters that Redis is always told, with their defaults; epsilon in hundredths.
Graph == [HNSW |-> <<<<"m", 16>>, <<"ef_construction", 200>>, <<"ef_runtime", 10>>,
                     <<"epsilon", 1>>>>,
          SVS  |-> <<<<"graph_max_degree", 40>>, <<"construction_window_size", 250>>,
                     <<"search_window_size", 20>>, <<"epsilon", 1>>>>]
orDefault(values, defaults) ==
    [i \in DOMAIN defaults |-> <<defaults[i][1], Value(values, defaults[i][1], defaults[i][2])>>]

VectorArgs(v) ==
    Pairs(v, <<"datatype", "dims", "distance_metric", "initial_cap">>)
        \o (CASE v.algorithm = "FLAT" -> Pairs(v, <<"block_size">>)
              [] v.algorithm = "HNSW" -> orDefault(v, Graph.HNSW)
              [] OTHER -> orDefault(v, Graph.SVS)
                              \o Pairs(v, <<"compression", "reduce", "training_threshold">>))

\* The identifier is the path, if there is one, and then the name an alias.
RedisArgs(f) ==
    LET named == IF f.path = <<>> THEN <<<<"identifier", <<f.name>>>>>>
                 ELSE <<<<"identifier", f.path>>, <<"as", f.name>>>>
    IN  IF f.type \in Lexical THEN {named \o <<<<f.type>>>> \o LexicalArgs(f)}
        ELSE IF f.type # "vector" \/ ~f.attrs THEN {}
        ELSE {named \o <<<<"vector", v.algorithm, 2 * Len(VectorArgs(v))>>>> \o VectorArgs(v)
                  \o Given(f, <<"index_missing">>) : v \in Validate(f.values)}

-----------------------------------------------------------------------------
(* Schemas (schema.go).  stopwords is a set, empty for a nil pointer. *)

applyDefaults(info) ==
    LET i == [info EXCEPT !.prefixes = IF @ = <<>> THEN <<"rvl">> ELSE @,
                          !.separator = IF @ = "" THEN ":" ELSE @,
                          !.storage = IF @ = "" THEN "hash" ELSE @]
    IN  IF i.name # "" /\ i.storage \in {"hash", "json"} THEN {i} ELSE {}

FieldNames(s) == [i \in DOMAIN s.fields |-> s.fields[i].name]

AddField(s, f) ==
    LET path  == IF s.index.storage = "hash" THEN <<>>
                 ELSE IF f.path = <<>> THEN <<"$", f.name>> ELSE f.path
        valid == IF f.type = "vector" /\ f.attrs THEN Validate(f.values) ELSE {f.values}
    IN  IF f.name = "" \/ Contains(FieldNames(s), f.name) THEN {}
        ELSE {[s EXCEPT !.fields = Append(@, [f EXCEPT !.path = path, !.values = v])] : v \in valid}

RemoveField(s, name) == [s EXCEPT !.fields = SelectSeq(@, LAMBDA f : f.name # name)]

\* The first field that is refused ends it.
NewIndexSchema(info, fields) ==
    FoldLeft(LAMBDA ss, f : UNION {AddField(s, f) : s \in ss},
             {[index |-> i, fields |-> <<>>] : i \in applyDefaults(info)}, fields)

SchemaArgs(s) ==
    IF s.fields = <<>> \/ \E i \in DOMAIN s.fields : RedisArgs(s.fields[i]) = {} THEN {}
    ELSE {[i \in DOMAIN s.fields |-> CHOOSE a \in RedisArgs(s.fields[i]) : TRUE]}

-----------------------------------------------------------------------------
(* YAML.  A raw value has the type that the parser gives it. *)

Typed(type, v)       == [is |-> type, v |-> v]
Is(attrs, k, types)  == k \in DOMAIN attrs /\ attrs[k].is \in types
getBool(attrs, k)    == Is(attrs, k, {"bool"}) /\ attrs[k].v
getString(attrs, k)  == IF Is(attrs, k, {"string"}) THEN attrs[k].v ELSE ""
isNumber(attrs, k)   == Is(attrs, k, {"int", "float"})

fieldFromRaw(rf) ==
    LET type   == ToLower(rf.type)
        flags  == {k \in FlagsOf(type) : getBool(rf.attrs, k)}
        some(S, T) == {k \in S : Is(rf.attrs, k, T) /\ (T = {"string"} => rf.attrs[k].v # "")}
        plain(S, T) == [k \in some(S, T) |-> rf.attrs[k].v]
        numbers == {k \in Numbers : isNumber(rf.attrs, k)}
        strings == some({"compression"}, {"string"})
        vector == [k \in {"dims", "algorithm", "datatype", "distance_metric"}
                           \union numbers \union strings |->
                     IF k \in {"algorithm", "distance_metric"} THEN ToUpper(getString(rf.attrs, k))
                     ELSE IF k = "datatype" THEN getString(rf.attrs, k) ELSE rf.attrs[k].v]
    IN  CASE type = "text" ->
               {Field(rf.name, type, flags,
                      Updated(plain({"phonetic_matcher"}, {"string"}), "weight",
                              IF isNumber(rf.attrs, "weight") THEN rf.attrs["weight"].v ELSE 1))}
          [] type = "tag" ->
               {NewTagField(rf.name, flags, plain({"separator"}, {"string"}))}
          [] type \in {"numeric", "geo"} -> {Field(rf.name, type, flags, <<>>)}
          [] type = "vector" ->
               IF ~isNumber(rf.attrs, "dims") \/ getString(rf.attrs, "algorithm") = "" THEN {}
               ELSE {Field(rf.name, type, flags, v) : v \in Validate(vector)}
          [] OTHER -> {}

\* A prefix is a string, a list or absent.
fromRaw(raw) ==
    LET prefixes == CASE raw.index.prefix.is = "string" -> {<<raw.index.prefix.v>>}
                      [] raw.index.prefix.is = "list" -> {raw.index.prefix.v}
                      [] raw.index.prefix.is = "none" -> {<<>>} [] OTHER -> {}
        infos == {[name |-> raw.index.name, prefixes |-> p, separator |-> raw.index.separator,
                   storage |-> ToLower(raw.index.storage), stopwords |-> raw.index.stopwords] :
                     p \in prefixes}
        add(ss, rf) == UNION {AddField(s, [f EXCEPT !.path = rf.path]) :
                                 s \in ss, f \in fieldFromRaw(rf)}
    IN  FoldLeft(add, UNION {NewIndexSchema(i, <<>>) : i \in infos}, raw.fields)

\* ToYAML of a field without attributes panics.
toRaw(s) ==
    LET KindOf(k) == IF k = "weight" \/ k = "epsilon" THEN "float"
                     ELSE IF k \in Numbers \union {"dims"} THEN "int" ELSE "string"
        rawField(f) ==
            [name |-> f.name, type |-> f.type, path |-> f.path,
             attrs |-> [k \in FlagsOf(f.type) \union DOMAIN f.values |->
                           IF k \in FlagsOf(f.type) THEN Typed("bool", k \in f.flags)
                           ELSE Typed(KindOf(k), f.values[k])]]
    IN  IF \E i \in DOMAIN s.fields : ~s.fields[i].attrs THEN {}
        ELSE {[index |-> [name |-> s.index.name,
                          prefix |-> IF Len(s.index.prefixes) = 1
                                     THEN Typed("string", s.index.prefixes[1])
                                     ELSE Typed("list", s.index.prefixes),
                          separator |-> s.index.separator, storage |-> s.index.storage,
                          stopwords |-> s.index.stopwords],
               fields |-> [i \in DOMAIN s.fields |-> rawField(s.fields[i])]]}

-----------------------------------------------------------------------------
(* An existing index (index.go): its definition in Redis, and the schema that is *)
(* made of it.  Separator, stop words and fields are not read.                  *)

RedisAccepts(args) == \A i \in DOMAIN args : \A j \in DOMAIN args[i] :
                          args[i][j][1] = "dims" => args[i][j][2] <= MaxDims

Definition(s) == [key_type |-> ToUpper(s.index.storage), prefixes |-> s.index.prefixes]

FromExisting(name, def) ==
    NewIndexSchema([name |-> name, prefixes |-> def.prefixes, separator |-> "",
                    storage |-> IF def.key_type = "JSON" THEN "json" ELSE "hash",
                    stopwords |-> {}], <<>>)

Key(s, id) == <<s.index.prefixes[1], s.index.separator, id>>

-----------------------------------------------------------------------------
(* Records (validate.go, infer.go).  A value has a type of Go's and, a slice, a   *)
(* length; "numeral" and "place" are strings that parse as a number and a place, *)
(* "mixed" is a slice of unlike values, "numbers" a []any of numbers.           *)

isNumericValue(v) == v.is \in {"number", "numeral"}
floatSliceLen(v)  == IF v.is \in {"floats", "numbers"} THEN {v.len} ELSE {}

validateVectorValue(f, v, isJSON) ==
    ~f.attrs \/ IF isJSON THEN floatSliceLen(v) = {f.values["dims"]}
                ELSE v.is = "bytes" /\ {v.len} = {f.values["dims"] * n : n \in Size(f.values["datatype"])}

\* Fields that the record lacks, or has as nil, are skipped.
validateRecord(s, record) ==
    \A i \in DOMAIN s.fields :
        LET f == s.fields[i]
        IN  f.name \in DOMAIN record /\ record[f.name].is # "nil" =>
                LET v == record[f.name]
                IN  CASE f.type = "vector" -> validateVectorValue(f, v, s.index.storage = "json")
                      [] f.type = "numeric" -> isNumericValue(v)
                      [] f.type \in {"text", "geo"} -> v.is \in {"string", "numeral", "place"}
                      [] f.type = "tag" -> v.is \in {"string", "numeral", "place", "strings",
                                                     "names", "numbers", "mixed"}

\* The first record that is refused, 0 if none is.
FirstInvalid(s, records) ==
    LET bad == {i \in DOMAIN records : ~validateRecord(s, records[i])}
    IN  IF bad = {} THEN 0 ELSE CHOOSE i \in bad : \A j \in bad : i <= j

InferFieldType(v) ==
    CASE v.is \in {"number", "numeral"} -> "numeric"
      [] v.is = "place" -> "geo"
      [] v.is = "string" -> "text"
      [] v.is \in {"strings", "names"} -> "tag"
      [] OTHER -> ""

\* The fields of a record, in any order: it is a map.
GenerateFields(record, ignore) ==
    {[i \in DOMAIN names |->
         LET type == InferFieldType(record[names[i]])
         IN  CASE type = "text" -> NewTextField(names[i], {}, <<>>)
               [] type = "tag" -> NewTagField(names[i], {}, <<>>)
               [] OTHER -> Field(names[i], type, {}, <<>>)] :
        names \in SetToSeqs({n \in DOMAIN record \ ignore : InferFieldType(record[n]) # ""})}

-----------------------------------------------------------------------------
(* Compression of vectors (advisor.go). *)

\* The attributes that depend on dims and priority.
Recommended(dims, priority) ==
    IF dims >= 1024
    THEN [graph_max_degree |-> 64, construction_window_size |-> 300, compression |-> "LeanVec4x8",
          reduce |-> IF priority = "speed" THEN IF dims \div 4 < 256 THEN 256 ELSE dims \div 4
                     ELSE dims \div 2,
          search_window_size |-> CASE priority = "memory" -> 20 [] priority = "speed" -> 40
                                   [] OTHER -> 30]
    ELSE [graph_max_degree |-> 40, construction_window_size |-> 250, search_window_size |-> 20,
          compression |-> CASE priority = "memory" -> "LVQ4" [] priority = "speed" -> "LVQ4x8"
                            [] OTHER -> "LVQ4x4"]

RecommendCompression(dims, priority, datatype) ==
    LET r    == Recommended(dims, priority)
        base == [dims |-> dims, algorithm |-> "SVS-VAMANA", distance_metric |-> "",
                 datatype |-> IF datatype # "" THEN datatype
                              ELSE IF dims >= 1024 THEN "float16" ELSE "float32"]
    IN  IF dims <= 0 THEN {}
        ELSE Validate([k \in DOMAIN base \union DOMAIN r |-> IF k \in DOMAIN r THEN r[k] ELSE base[k]])

compressionBits(c) == CASE c = "LVQ4" -> 4 [] c \in {"LVQ4x4", "LVQ8"} -> 8
                        [] c \in {"LVQ4x8", "LeanVec4x8"} -> 12 [] c = "LeanVec8x8" -> 16
                        [] OTHER -> 32

\* n / d, and a half to the even one.
RoundToEven(n, d) ==
    LET low == n \div d
        twice == 2 * (n - low * d)
    IN  IF twice > d \/ (twice = d /\ low % 2 = 1) THEN low + 1 ELSE low

\* In tenths of a percent.
EstimateMemorySavings(compression, dims, reduce) ==
    RoundToEven(1000 * (32 * dims - compressionBits(compression)
                                        * (IF reduce > 0 THEN reduce ELSE dims)), 32 * dims)
=============================================================================
