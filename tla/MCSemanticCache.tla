-------------------------- MODULE MCSemanticCache --------------------------
(* Small instances of SemanticCache for TLC: two similar prompts and two tenants. *)
(* The prompt p2 without a filter reads as p1 with that of the tenant t1.        *)
EXTENDS SemanticCache, TLC

CONSTANTS c1, c2, p1, p2, t1, t2

\* The prompts are at the default distance of one another.
Similar(d, p) == IF d >= DefaultThreshold THEN Prompts ELSE {p}

Id(p, t) == IF p = p2 /\ t = NoFilter THEN <<p1, t1>> ELSE <<p, t>>

Store(p, t, n) == [op |-> "store", prompt |-> p, tenant |-> t, ttl |-> n]
Check(t, d)    == [op |-> "check", prompt |-> p1, tenant |-> t, threshold |-> d]
OnKey(o, t)    == [op |-> o, prompt |-> p1, tenant |-> t]
Update(t, F)   == OnKey("update", t) @@ [fields |-> F, like |-> p1, to |-> t2]
New(o, n, d)   == [op |-> "new", overwrite |-> o, ttl |-> n, threshold |-> d]

Mixed ==
    {Store(p1, t1, 2), Store(p1, t2, 0), Store(p2, t2, 0), Store(p2, NoFilter, 0),
     Check(t1, 0), Check(t2, 0), Check(NoFilter, 0), Check(t1, -1),
     Update(t1, {"response"}), Update(t2, {"response"}), Update(t1, {"vector", "tenant"}),
     Update(t1, {}), Update(t1, {"other"}), Update(t1, {"other", "unknown"}), OnKey("drop", t1),
     OnKey("expire", t1) @@ [ttl |-> 0],
     [op |-> "clear"], [op |-> "delete"],
     New(TRUE, 0, 2), New(FALSE, 1, 0), New(FALSE, 1, 21),
     [op |-> "set_ttl", ttl |-> 0],
     [op |-> "set_threshold", threshold |-> 0], [op |-> "set_threshold", threshold |-> -1]}

StoreAndCheck == {Store(p1, t1, 2), Check(t1, 0)}

CallerSymmetry == Permutations(Callers)
=============================================================================
