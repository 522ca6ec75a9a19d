---------------------------- MODULE MCSharedCache ----------------------------
(* One key, two processes, and what is asked of them in at most three ticks.   *)
EXTENDS SharedCache

CONSTANTS p, q, r1, r2, r3, r4

Of(kind, process) == [op |-> kind, on |-> process]

Plan(j1, j2, j3, j4) ==
    [r \in REQUESTS |-> CASE r = r1 -> j1 [] r = r2 -> j2 [] r = r3 -> j3 [] r = r4 -> j4]

Batches == {
    Plan(Of("set", p), Of("set", p), Of("get", p), Of("get", q)),
    Plan(Of("set", p), Of("del", p), Of("get", p), Of("get", p)),
    Plan(Of("set", p), Of("set", q), Of("del", p), Of("mget", p)),
    Plan(Of("set", p), Of("delPattern", p), Of("get", q), Of("mget", p)),
    Plan(Of("mset", p), Of("set", q), Of("delPattern", p), Of("get", p))}

Troubles == [x \in PROCESSES |-> IF x = p THEN 2 ELSE 0]

=============================================================================
