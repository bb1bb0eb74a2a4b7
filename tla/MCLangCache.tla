---------------------------- MODULE MCLangCache ----------------------------
(* Small instances of LangCache for TLC. *)
EXTENDS LangCache, TLC

CONSTANTS c1, c2, a1, a2

Mixed ==
    {[op |-> "store", attr |-> a1, wellFormed |-> TRUE],
     [op |-> "store", attr |-> a2, wellFormed |-> FALSE]} \union
    {[op |-> "deletequery", attr |-> a, wellFormed |-> TRUE] : a \in {a1, All}} \union
    {[op |-> "check", attr |-> All, wellFormed |-> TRUE],
     [op |-> "deletebyid", id |-> 1, wellFormed |-> TRUE],
     [op |-> "flush", wellFormed |-> TRUE],
     [op |-> "embed", n |-> 3, wellFormed |-> TRUE],
     [op |-> "rank", n |-> 0, wellFormed |-> TRUE],
     [op |-> "rank", n |-> 1, wellFormed |-> TRUE]}

\* A hit that the service finds similar enough is as near as the caller asked, and no
\* other; but for the largest distance, which asks for the default of the service.
ASSUME ThresholdsAgree ==
    \A scale \in {"redis", "normalized"}, s \in 0..200, d \in 1..200 :
        LET far == IF scale = "redis" THEN 200 ELSE 100
        IN  /\ d < far /\ s % 2 = 0 =>
                 (s >= SentThreshold(scale, d, 150)) = (distanceFromSimilarity(scale, s) <= d)
            /\ SentThreshold(scale, far, 150) = 150

CallerSymmetry == Permutations(Callers)
=============================================================================
