------------------------------- MODULE MCRouter -------------------------------
(* Small instances of Router for TLC: two processes, the routes a and a:b (whose   *)
(* keys match the pattern of a), two references and a statement.                  *)
EXTENDS Router, TLC

CONSTANTS r1, r2, f1, f2, s1

\* Distances are in quarters: f1 is at 1/4 of s1 and f2 at 3/4.
Quarters(s, f) == IF f = f1 THEN 1 ELSE 3

Glob(n) == IF n = "a" THEN {"a", "a:b"} ELSE {n}

R(n, S, t)   == [name |-> n, references |-> S, threshold |-> t]
New(list, o) == [op |-> "new", routes |-> list, overwrite |-> o,
                 config |-> [maxK |-> 1, aggregation |-> "avg"]]

Mixed ==
    {New(<<R("a", {f1}, 0), R("a", {f2}, 4)>>, FALSE),
     New(<<R("a", {f2}, 4), R("a:b", {f1}, 1)>>, TRUE),
     [op |-> "add", route |-> R("a:b", {}, 3)],
     [op |-> "add", route |-> R("a:b", {f1, f2}, 3)],
     [op |-> "add", route |-> R("a", {f2}, 9)],
     [op |-> "remove", name |-> "a"],
     [op |-> "threshold", name |-> "a", threshold |-> 0],
     [op |-> "config", config |-> [maxK |-> 2, aggregation |-> "sum"]],
     [op |-> "clear"], [op |-> "delete"],
     [op |-> "many", statement |-> s1]}

NewAndRoute ==
    {New(<<R("a", {f2}, 4), R("a:b", {f1}, 1)>>, FALSE), [op |-> "route", statement |-> s1]}

RouterSymmetry == Permutations(Routers)
=============================================================================
