---------------------------- MODULE SettlementBook ----------------------------
(***************************************************************************)
(* What the settlement service promises about the table of stored          *)
(* settlements, with no transactions, locks, requests or caches: a travel  *)
(* has one plan at a time, a save replaces the plan as a whole and under a *)
(* version above every version of the plan it replaces, and a settlement   *)
(* is completed once.                                                      *)
(***************************************************************************)
EXTENDS Integers, FiniteSets

CONSTANTS
    TRAVELS,
    IDS,        \* the identifiers a stored settlement may have
    INITIAL     \* the sets of identifiers a travel's first plan may consist of

VARIABLES
    rows,       \* the settlements stored for each travel
    completed,  \* the identifiers of settlements that were completed
    version     \* the version column

bookVars == <<rows, completed, version>>

\* COALESCE(MAX(version), 0) over the rows stored for a travel.
Newest(stored, versions) ==
    LET seen == {0} \cup {versions[id] : id \in stored}
    IN  CHOOSE v \in seen : \A w \in seen : w <= v

Init ==
    /\ rows \in [TRAVELS -> INITIAL]
    /\ completed = {}
    /\ version = [id \in IDS |-> IF \E t \in TRAVELS : id \in rows[t] THEN 1 ELSE 0]

\* The whole plan of a travel gives way to a new one, whose settlements are new,
\* pending and one version above the newest of the old.
Replace(t, plan) ==
    /\ rows' = [rows EXCEPT ![t] = plan]
    /\ plan # {}
    /\ plan \cap (rows[t] \cup completed) = {}
    /\ version' = [id \in IDS |->
                      IF id \in plan THEN Newest(rows[t], version) + 1 ELSE version[id]]
    /\ UNCHANGED completed

\* One settlement of the plan is paid.
Complete(t, id) ==
    /\ id \in rows[t] \ completed
    /\ completed' = completed \cup {id}
    /\ version' = [version EXCEPT ![id] = @ + 1]
    /\ UNCHANGED rows

Next ==
    \E t \in TRAVELS :
        \/ \E plan \in SUBSET IDS : Replace(t, plan)
        \/ \E id \in IDS : Complete(t, id)

Spec == Init /\ [][Next]_bookVars

=============================================================================
