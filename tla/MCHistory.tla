------------------------------ MODULE MCHistory ------------------------------
(* A small instance of History for TLC: two clients, one session each. *)
EXTENDS History, TLC

CONSTANTS h1, h2, s1, s2, k

OwnSession(h) == IF h = h1 THEN s1 ELSE s2

\* Near contents are within the default threshold, and far ones within 9 tenths.
Within(d) == IF d >= 9 THEN Contents ELSE IF d >= DefaultThreshold THEN {"near"} ELSE {}

M(role, content, id, ts) == [role |-> role, content |-> content, id |-> id, ts |-> ts]
Add(ms, s)   == [op |-> "add", messages |-> ms, session |-> s]
Q(n, s, rs)  == [topK |-> n, session |-> s, roles |-> rs]

\* An id of the caller's own, and one that was generated.
IdsGiven == {k, 1}

Mixed ==
    {[op |-> "store", session |-> s1,
      messages |-> <<M("user", "near", NoId, Now), M("llm", "far", NoId, Now)>>],
     Add(<<M("user", "far", k, Now), M("oracle", "far", NoId, Now)>>, s1),
     Add(<<M("user", "near", k, 1)>>, s2),
     Add(<<M("user", "near", 1, 1)>>, s2),   \* adds what was read in another session
     Add(<<>>, s1),
     [op |-> "recent", query |-> Q(1, s1, {"user", "llm"})],
     [op |-> "recent", query |-> Q(-1, s1, {})],
     [op |-> "relevant", query |-> Q(0, s1, {"llm"}), fallBack |-> TRUE, threshold |-> 0],
     [op |-> "relevant", query |-> Q(1, s2, {}), fallBack |-> FALSE, threshold |-> 0],
     [op |-> "drop", id |-> NoId], [op |-> "drop", id |-> k], [op |-> "drop", id |-> 1],
     [op |-> "messages"], [op |-> "clear"], [op |-> "delete"],
     [op |-> "new", threshold |-> 0, overwrite |-> TRUE],
     [op |-> "new", threshold |-> 0, overwrite |-> FALSE],
     [op |-> "set_threshold", threshold |-> 9]}
=============================================================================
