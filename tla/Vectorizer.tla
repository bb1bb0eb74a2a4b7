----------------------------- MODULE Vectorizer -----------------------------
(***************************************************************************)
(* What a vectorize.Vectorizer promises to its callers: Embed and EmbedMany *)
(* return one vector per text, in the order of the texts, or an error.      *)
(***************************************************************************)
EXTENDS Sequences

CONSTANTS Callers, TextLists,
          Vector(_, _)    \* Vector(c, t): what the model of c's vectorizer makes of text t

VARIABLES asked,    \* asked[c]: the texts of c's last call
          result    \* result[c]: "idle", "running", "error", or the vectors returned

TypeOK ==
    /\ asked \in [Callers -> TextLists]
    /\ \A c \in Callers :
          result[c] \in {<<"idle">>, <<"running">>, <<"error">>} \/ result[c][1] = "vectors"

Init ==
    /\ asked \in [Callers -> TextLists]
    /\ result = [c \in Callers |-> <<"idle">>]

Call(c) ==
    /\ result[c] # <<"running">>
    /\ \E ts \in TextLists : asked' = [asked EXCEPT ![c] = ts]
    /\ result' = [result EXCEPT ![c] = <<"running">>]

Answer(c) ==
    /\ result[c] = <<"running">>
    /\ result' = [result EXCEPT ![c] =
                    <<"vectors", [n \in DOMAIN asked[c] |-> Vector(c, asked[c][n])]>>]
    /\ UNCHANGED asked

Fail(c) ==
    /\ result[c] = <<"running">>
    /\ result' = [result EXCEPT ![c] = <<"error">>]
    /\ UNCHANGED asked

\* The caller turns to something else.
Forget(c) ==
    /\ result[c] # <<"running">>
    /\ \E ts \in TextLists : asked' = [asked EXCEPT ![c] = ts]
    /\ result' = [result EXCEPT ![c] = <<"idle">>]

Next == \E c \in Callers : Call(c) \/ Answer(c) \/ Fail(c) \/ Forget(c)

Spec == Init /\ [][Next]_<<asked, result>>
=============================================================================
