------------------------- MODULE MCEmbeddingsCache -------------------------
(* Small instances of EmbeddingsCache for TLC. *)
EXTENDS EmbeddingsCache

CONSTANTS c1, c2

Embed(ts) == [op |-> "embed", texts |-> ts]

\* One model: lists of two texts, with a repetition and over two batches, and none.
OneModel(c) == <<"m">>
A  == <<"a">>
B  == <<"b">>
SharedTexts == {A, B}
SharedRequests ==
    {Embed(<<A, B>>), Embed(<<B, B, A>>), Embed(<<>>),
     [op |-> "set", texts |-> <<A>>, ttl |-> TRUE], [op |-> "drop", texts |-> <<B>>],
     [op |-> "clear"], [op |-> "set_ttl", ttl |-> FALSE]}
=============================================================================
