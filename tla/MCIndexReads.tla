---------------------------- MODULE MCIndexReads ----------------------------
(* A small instance of IndexReads: clients that load and remove documents, and a *)
(* reader.                                                                      *)
EXTENDS IndexReads, Schema, TLC

CONSTANTS c1, c2, k1, k2

\* A schema that validates what is loaded: a price must be a number, a vector 16 bytes.
Shop == CHOOSE s \in NewIndexSchema([name |-> "shop", prefixes |-> <<>>, separator |-> "",
                                     storage |-> "", stopwords |-> {}],
                        <<NewNumericField("price", {"sortable"})>>
                            \o SetToSeq(NewVectorField("embedding", {},
                                   [dims |-> 4, algorithm |-> "FLAT", datatype |-> "FLOAT32",
                                    distance_metric |-> "COSINE"]))) : TRUE
Valid  == [price |-> [is |-> "numeral"], embedding |-> [is |-> "bytes", len |-> 16]]
Dear   == [Valid EXCEPT !["price"] = [is |-> "string"]]
Short  == [Valid EXCEPT !["embedding"] = [is |-> "bytes", len |-> 4]]

\* The records of a Load of which the i-th is the first that is invalid, or none.
Records(i) == CASE i = 0 -> <<Valid, Valid, Valid>> [] i = 2 -> <<Valid, Dear, Short>>
                [] i = 3 -> <<Valid, Valid, Short>>
ASSUME RecordsAreValidated == \A i \in {0, 2, 3} : FirstInvalid(Shop, Records(i)) = i

Load(ks, t, i) == [op |-> "load", keys |-> ks, ttl |-> t, wellFormed |-> TRUE, invalid |-> i]

\* Loads of three records in batches of two, the second, the third or none invalid,
\* with and without a TTL, beside Clear, DropKeys, ExpireKeys and Delete.
DocumentRequests ==
    {Load(<<k1, k2, k1>>, TRUE, 0), Load(<<k1, k1>>, FALSE, 0)}
        \union {Load(<<k1, k2, k1>>, FALSE, i) : i \in {2, 3}}
        \union {[op |-> "clear"], [op |-> "delete", drop |-> FALSE],
                [op |-> "dropkeys", keys |-> {k1}],
                [op |-> "expire", keys |-> <<k2, k1>>]}

\* Two documents, and the reads of them: alternatives, negations, ranges of numbers and
\* distances, a filter of no condition, a union with one and one with a wrong unit.
TwoDocuments ==
    [k \in {k1, k2} |->
        IF k = k1 THEN [brand |-> {"nike"}, price |-> {3}, text |-> {"shoe"}, embedding |-> {20}]
                  ELSE [brand |-> {"adidas", "puma"}, price |-> {}, text |-> {"shoe", "red"},
                        embedding |-> {10}]]

Either1 == Or(TagEq("brand", {"puma"}), <<And(NumGt("price", 2), <<TagNe("brand", {"puma"})>>)>>)
Cheap   == And(TagEq("brand", {""}), <<Or(IsMissing("price"), <<NumLt("price", 3)>>)>>)
OrAll   == Or(IsMissing("price"), <<TagEq("brand", {""})>>)
Far     == Radius("place", {"there"}, "parsec", FALSE)

Shoes(f)      == NewTextQuery(<<"text", "brand">>, {"shoe"}, f)
Close(t, f)   == NewVectorRangeQuery("embedding", t, FALSE, f)

SmallReads ==
    {[op |-> "paginate", query |-> NewFilterQuery(Either1), size |-> n, stop |-> 0] : n \in {0, 2}}
        \union
    {[op |-> "paginate", query |-> Close(20, Either1), size |-> 1, stop |-> 0],
     [op |-> "paginate", query |-> NewFilterQuery(Nil), size |-> 1, stop |-> 1],
     [op |-> "search", size |-> 1,
      queries |-> <<NumResults(NewVectorQuery("embedding", OrAll), 1), Shoes(Cheap)>>],
     [op |-> "search", size |-> 0,
      queries |-> <<NumResults(NewVectorQuery("embedding", Either1), 1), NewFilterQuery(Far)>>],
     [op |-> "fetch", ids |-> <<k2, k1>>]}

-----------------------------------------------------------------------------
(* The builders of queries against what their documentation says of them, over *)
(* every combination of these conditions and every one of these documents.     *)

Kinds    == {[brand |-> b, price |-> p, text |-> t, place |-> {"there"}, embedding |-> {20}] :
                b \in {{}, {"nike"}, {"puma", "nike"}}, p \in {{}, {1}, {2}, {3}},
                t \in {{"shoe"}, {"red", "shoe"}}}
Priced   == {[brand |-> {}, price |-> {x}, text |-> {}, place |-> {}, embedding |-> {}] : x \in 0..11}
Shown    == [d \in Kinds \union Priced |-> d]
Q        == INSTANCE Queries WITH Contents <- Shown

Conditions == {Q!TagLike("brand", {{"nike"}, {""}}), Q!TagNe("brand", {"nike", "puma"}),
               Q!NumGe("price", 2), Q!IsMissing("price"), Q!TextNe("text", "red"),
               Q!TextLike("text", {""}), Q!Radius("place", {"there"}, "m", TRUE)}
Twice(S)   == {Q!And(e, <<f>>) : e, f \in S} \union {Q!Or(e, <<f>>) : e, f \in S}

\* A filter means the same rendered, nested twice, and beside the clauses of every query,
\* unless "*" was one side of a union: then it matches less, and in fact does.
ASSUME FiltersMeanWhatTheySay ==
    \A e \in Twice(Twice(Conditions)) :
        /\ Q!Matching(Q!String(e)) \subseteq e.means
        /\ ~e.narrowed => Q!Matching(Q!String(e)) = e.means
ASSUME UnionForgetsAll ==
    LET e == Q!Or(Q!All, <<Q!NumGe("price", 2)>>)
    IN  /\ e.means = Q!Documents /\ Q!String(e) = Q!String(Q!NumGe("price", 2))
        /\ Q!Matching(Q!String(e)) # Q!Documents
ASSUME QueriesKeepTheirFilter ==
    \A e \in Twice(Conditions) :
        \A q \in {Q!NewTextQuery(<<"text", "brand">>, {"shoe"}, e),
                  Q!NewVectorRangeQuery("embedding", 10, FALSE, e),
                  Q!NewVectorRangeQuery("embedding", 20, FALSE, e), Q!NewFilterQuery(e),
                  Q!NewCountQuery(e), Q!NewVectorQuery("embedding", e),
                  Q!NewHybridQuery("embedding", e), Q!NewAggregateQuery("embedding", e),
                  Q!NewMultiVectorQuery(<<[field |-> "embedding", max |-> 10],
                                          [field |-> "embedding", max |-> 0]>>, e)} :
            Q!Matching(Q!QueryString(q))
                = Q!Matching(Q!String(e)) \intersect Q!Matching(q.base)

\* Between includes the ends its Inclusive says; a date is all the moments of its day.
ASSUME BetweenIsInclusive ==
    \A i \in {"both", "neither", "left", "right"}, d \in Priced, x \in 0..11 :
        x \in d.price => (Q!Matches(Q!String(Q!Between("price", 1, 4, i)), d) <=>
                              \/ x \in 2..3
                              \/ x = 1 /\ i \in {"both", "left"}
                              \/ x = 4 /\ i \in {"both", "right"})
ASSUME DatesAreDays ==
    \A t, x \in 0..11, d \in Priced :
        x \in d.price => (Q!Matches(Q!String(Q!OnDate("price", t, 4)), d)
                              <=> x \div 4 = t \div 4)

\* A normalized threshold is the similarity that is its cosine distance, and only that:
\* for an L2 index it is not the one its results are reported with.
ASSUME CosineThreshold == \A s \in 0..100 : NormCosineDistance(DenormCosineDistance(s)) = s
ASSUME L2Threshold     == \E s \in 1..100, d \in 0..400 :
                              NormL2AtLeast(d, s) /\ d > DenormCosineDistance(s)

\* What the caller writes is not put in parentheses: the second alternative of a raw
\* union escapes the condition it is combined with, unless the query is of several vectors.
ASSUME RawUnionEscapes ==
    LET raw == Q!Raw(Q!Either(Q!One(Q!Among("brand", {"nike"})), Q!One(Q!Among("brand", {"puma"}))))
        no  == Q!NewMultiVectorQuery(<<[field |-> "embedding", max |-> 10]>>, raw)
    IN  \E d \in Kinds : /\ d.price = {1} /\ d.brand # {}
                         /\ Q!Matches(Q!String(Q!And(raw, <<Q!NumGe("price", 2)>>)), d)
                         /\ ~Q!Matches(Q!QueryString(no), d)

\* A stop word or a weight that has a character to escape is never found.
ASSUME EscapedWordsAreNotStopped ==
    LET word == [text |-> "r&b", special |-> TRUE]
    IN  Tokens({word}, {<<"r&b">>}, [w \in {<<"r&b">>} |-> 5])
            = {[token |-> Escaped(word), weight |-> 1]}

\* A KNN search has as many neighbours as results: behind its first page there is nothing.
ASSUME NothingBehindNearest ==
    \A n \in 1..3, o \in 1..3 :
        LET q == Paging(NewVectorQuery("embedding", Nil), o, n)
        IN  o >= n => Reply(q, {k1, k2}, {<<k1, k2>>}) = {}

ClientSymmetry == Permutations(Clients)
=============================================================================
