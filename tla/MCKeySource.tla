---------------------------- MODULE MCKeySource ----------------------------
(* Two verifiers, two named keys, entries without a kid and one of no use. *)
EXTENDS KeySource

CONSTANTS ka, kb, nokid

Key(k)    == [kid |-> k, usable |-> TRUE]
Unknown   == [kid |-> kb, usable |-> FALSE]
Rotations == {{Key(ka), Unknown}, {Key(ka), Key(kb)}, {Key(nokid)}, {Unknown}}
=============================================================================
