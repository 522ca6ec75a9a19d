----------------------------- MODULE MCSettlement -----------------------------
(* Small instances of Settlement: one travel, two transfers. *)
EXTENDS Settlement

CONSTANTS t1, s1, s2, m1, m2, g1, k1, x1, x2

\* The transfers of a state of the expenses: none, one, or both.
Plan == [l \in LEDGERS |-> CASE l = 0 -> {} [] l = 1 -> {x1} [] OTHER -> {x1, x2}]

\* Both saves come with the same key or without one, and a completion names
\* the first transfer of any plan there may ever be but the second saver's.
Asks ==
    {[r \in REQUESTS |-> [travel |-> t1, key |-> IF r \in SAVERS THEN k ELSE NoKey,
                          row |-> IF r \in MARKERS THEN id[r] ELSE <<Earlier, t1, x1>>]] :
        k \in KEYS \cup {NoKey}, id \in [MARKERS -> {Earlier, s1} \X {t1} \X {x1}]}

BothTransfers == {{x1, x2}}
NothingStored == {{}}
=============================================================================
