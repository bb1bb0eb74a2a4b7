------------------------------ MODULE Queries ------------------------------
(***************************************************************************)
(* The filter and query packages: filter expressions, the query strings they *)
(* are rendered to, and the commands built from a query.  A string of the    *)
(* query language (dialect 2) is kept as the parser of Redis reads it: a     *)
(* union of alternatives, each an intersection of clauses, so that what       *)
(* concatenating two strings does depends on their parentheses.             *)
(***************************************************************************)
EXTENDS Integers, FiniteSets, SequencesExt

CONSTANTS Units,      \* units of a radius Redis knows
          Contents    \* Contents[d]: the fields of document d, with the sets of their values

-----------------------------------------------------------------------------
(* The query language.  A field that a document has not has no value; that of  *)
(* a vector field is its distance from the vector that is searched for.        *)

Documents == DOMAIN Contents

Everything == [is |-> "everything"]
One(clause)  == <<<<clause>>>>
Star         == One(Everything)
Beside(l, r) == Front(l) \o <<Last(l) \o Head(r)>> \o Tail(r)   \* l r, and l AND r
Either(l, r) == l \o r                                          \* l | r

Holds(c, d) ==
    \/ c.is = "everything"
    \/ c.is = "among" /\ Contents[d][c.field] \intersect c.values # {}
    \/ c.is = "missing" /\ Contents[d][c.field] = {}
    \/ /\ c.is = "range"
       /\ \E x \in Contents[d][c.field] :
             /\ \A b \in c.low : b < x \/ (b = x /\ ~c.openLow)
             /\ \A b \in c.high : x < b \/ (b = x /\ ~c.openHigh)
    \/ c.is = "group" /\ d \in c.of
    \/ c.is = "not" /\ d \notin c.of

Matches(s, d) == \E i \in DOMAIN s : \A j \in DOMAIN s[i] : Holds(s[i][j], d)
Matching(s)   == {d \in Documents : Matches(s, d)}

\* Once in parentheses or negated a string is what it matches.
Paren(s) == One([is |-> "group", of |-> Matching(s)])
Not(s)   == One([is |-> "not", of |-> Matching(s)])

-----------------------------------------------------------------------------
(* Expressions (filter.go), which never change: each with the string it renders *)
(* to, its error, and what it means: "logical AND (intersection)", "logical OR  *)
(* (union)" of the documents of its parts, whatever they are rendered to.  The   *)
(* two differ where a union had one side that is "*", which narrowed remembers.  *)

Raw(s) == [string |-> s, err |-> FALSE, means |-> Matching(s), narrowed |-> FALSE]
All    == Raw(Star)
Nil    == Raw(Star)

String(e) == e.string
Err(e)    == e.err

\* "*" is left out of a combination: of an intersection, which it does not restrict, and
\* of a union, which it makes everything.
Combined(l, r, string, means, narrowed) ==
    [string   |-> IF l.string = Star THEN r.string
                  ELSE IF r.string = Star THEN l.string ELSE Paren(string),
     err      |-> l.err \/ r.err,
     means    |-> means,
     narrowed |-> l.narrowed \/ r.narrowed \/ narrowed]

OneIsStar(l, r) == (l.string = Star) # (r.string = Star)

Both(l, r)  == Combined(l, r, Beside(l.string, r.string), l.means \intersect r.means, FALSE)
OneOf(l, r) == Combined(l, r, Either(l.string, r.string), l.means \union r.means,
                        OneIsStar(l, r))

And(e, others) == FoldLeft(Both, e, others)
Or(e, others)  == FoldLeft(OneOf, e, others)

Among(f, S)  == [is |-> "among", field |-> f, values |-> S]
Negated(c)   == Raw(Paren(Not(One(c))))
IsMissing(f) == Raw(One([is |-> "missing", field |-> f]))

\* Tags.  Empty values are dropped, and no value is no condition; a value is escaped,
\* a pattern is the set of the tags it matches, {""} the empty one.
formatValues(vs)    == vs \ {""}
TagEq(f, vs)        == IF formatValues(vs) = {} THEN All ELSE Raw(One(Among(f, formatValues(vs))))
TagNe(f, vs)        == IF formatValues(vs) = {} THEN All ELSE Negated(Among(f, formatValues(vs)))
TagLike(f, ps)      == LET patterns == ps \ {{""}}
                       IN  IF patterns = {} THEN All ELSE Raw(One(Among(f, UNION patterns)))

\* Texts: a term, or a pattern (of wildcards, "|") by the words it matches.
TextLike(f, p) == IF p = {""} THEN All ELSE Raw(One(Among(f, p)))
TextEq(f, v) == IF v = "" THEN All ELSE Raw(One(Among(f, {v})))
TextNe(f, v) == IF v = "" THEN All ELSE Negated(Among(f, {v}))

\* Numbers, and timestamps in microseconds.
Within(f, low, openLow, high, openHigh) ==
    [is |-> "range", field |-> f, low |-> low, openLow |-> openLow,
                                  high |-> high, openHigh |-> openHigh]
NumEq(f, v) == Raw(One(Within(f, {v}, FALSE, {v}, FALSE)))
NumNe(f, v) == Negated(Within(f, {v}, FALSE, {v}, FALSE))
NumGt(f, v) == Raw(One(Within(f, {v}, TRUE, {}, FALSE)))
NumLt(f, v) == Raw(One(Within(f, {}, FALSE, {v}, TRUE)))
NumGe(f, v) == Raw(One(Within(f, {v}, FALSE, {}, FALSE)))
NumLe(f, v) == Raw(One(Within(f, {}, FALSE, {v}, FALSE)))
Between(f, start, end, inclusive) ==
    Raw(One(Within(f, {start}, inclusive \in {"neither", "right"},
                      {end}, inclusive \in {"neither", "left"})))

OnDate(f, t, day) == LET start == (t \div day) * day
                     IN  Between(f, start, start + day - 1, "both")

\* A radius of an unknown unit is "*" with an error, which the query reports.
Radius(f, places, unit, negate) ==
    IF unit \notin Units THEN [All EXCEPT !.err = TRUE]
    ELSE IF negate THEN Negated(Among(f, places)) ELSE Raw(One(Among(f, places)))

-----------------------------------------------------------------------------
(* Queries (package query).  base holds the clauses a query has of itself,      *)
(* nearest the vector field whose distance it sorts by, k the K of a KNN search; *)
(* err is the error of a data type or of an encoding.                            *)

NewQuery(kind, base, nearest, f) ==
    [kind |-> kind, base |-> base, nearest |-> nearest, filter |-> f,
     offset |-> 0, num |-> 10, k |-> 10, err |-> FALSE]

NewFilterQuery(f)        == NewQuery("filter", Star, "", f)
NewCountQuery(f)         == [NewQuery("count", Star, "", f) EXCEPT !.num = 0]
NewVectorQuery(field, f) == NewQuery("vector", Star, field, f)

\* A range query compares distances, a normalized one similarities that it converts
\* to cosine distances; both are counted in hundredths here.
DenormCosineDistance(s) == 200 - 2 * s
NormCosineDistance(d)   == (200 - d) \div 2
\* 1 / (1 + d) is at least s
NormL2AtLeast(d, s)     == 10000 >= s * (100 + d)

NewVectorRangeQuery(field, threshold, normalize, f) ==
    LET radius == IF normalize THEN DenormCosineDistance(threshold) ELSE threshold
    IN  NewQuery("range", One(Within(field, {}, FALSE, {radius}, FALSE)), field, f)

\* The words of a text: stop words and weights are looked up as they are after escaping.
Escaped(w) == IF w.special THEN <<"\\", w.text>> ELSE <<w.text>>
Tokens(words, stopwords, weights) ==
    {[token |-> Escaped(w),
      weight |-> IF Escaped(w) \in DOMAIN weights THEN weights[Escaped(w)] ELSE 1] :
         w \in {u \in words : Escaped(u) \notin stopwords}}

NewTextQuery(fields, tokens, f) ==
    LET alternatives == [i \in DOMAIN fields |-> <<Among(fields[i], tokens)>>]
    IN  NewQuery("text", IF Len(fields) = 1 THEN alternatives ELSE Paren(alternatives), "", f)

\* The text of a hybrid query is optional; the filter restricts its vector search too.
NewHybridQuery(field, f)    == NewQuery("hybrid", Star, field, f)
NewAggregateQuery(field, f) == NewQuery("aggregate", Star, field, f)

\* A vector of a multi-vector query is a field and its maximal distance, by default 2.
WithMaxDistance(v) == [v EXCEPT !.max = IF @ = 0 THEN 200 ELSE @]
NewMultiVectorQuery(vecs, f) ==
    LET vs == [i \in DOMAIN vecs |-> WithMaxDistance(vecs[i])]
    IN  [NewQuery("multi",
                  <<[i \in DOMAIN vs |-> Within(vs[i].field, {}, FALSE, {vs[i].max}, FALSE)]>>,
                  "", f)
            EXCEPT !.err = vs = <<>> \/ \E i \in DOMAIN vs : vs[i].max \notin 0..200]

IsKNN(q)         == q.kind \in {"vector", "aggregate"}
NumResults(q, n) == IF IsKNN(q) THEN [q EXCEPT !.num = n, !.k = n] ELSE [q EXCEPT !.num = n]
Paging(q, o, n)  == [NumResults(q, n) EXCEPT !.offset = o]

\* queryErr, HybridArgs.
WellFormed(q) == ~q.err /\ ~Err(q.filter)

\* Only the query of several vectors has its filter in parentheses of its own.
QueryString(q) ==
    LET f == String(q.filter)
    IN  IF f = Star THEN q.base
        ELSE IF q.kind \in {"range", "hybrid", "aggregate"} THEN Paren(Beside(q.base, f))
        ELSE IF q.kind = "multi" THEN Beside(Paren(q.base), Paren(f))
        ELSE IF q.base = Star THEN f
        ELSE Beside(q.base, f)

isCount(q) == q.kind = "count" /\ q.num = 0 /\ q.offset = 0
Limit(q)   == IF q.num = 0 /\ ~isCount(q) THEN 10 ELSE q.num

\* What a search finds among the documents of the index: those that match, and that have
\* the vector it sorts by the distance of.
Found(q, indexed) ==
    {d \in indexed : /\ Matches(QueryString(q), d)
                     /\ q.nearest # "" => Contents[d][q.nearest] # {}}

\* By distance, if it sorts by one, and else in the order of the index.
Distance(q, d) == CHOOSE x \in Contents[d][q.nearest] : TRUE
Precedes(q, order, a, b) ==
    \/ q.nearest # "" /\ Distance(q, a) < Distance(q, b)
    \/ (q.nearest # "" => Distance(q, a) = Distance(q, b)) /\ <<a, b>> \in order

Before(q, indexed, order, d) == {a \in Found(q, indexed) : Precedes(q, order, a, d)}

\* The page that LIMIT leaves of it; of a KNN search, of the K nearest.
Reply(q, indexed, order) ==
    {d \in Found(q, indexed) :
        LET rank == Cardinality(Before(q, indexed, order, d))
        IN  /\ rank \in q.offset..(q.offset + Limit(q) - 1)
            /\ IsKNN(q) => rank < q.k}
=============================================================================
