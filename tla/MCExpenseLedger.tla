---------------------------- MODULE MCExpenseLedger ----------------------------
(* Two processes, the author of an expense, and a user who joins the travel and *)
(* leaves it.                                                                  *)
EXTENDS ExpenseLedger

CONSTANTS author, guest, p1, p2, add, alter, erase, eraseToo, look, lookToo, quit, enter

Kind == [r \in REQUESTS |->
    CASE r = add -> "create" [] r = alter -> "update" [] r \in {erase, eraseToo} -> "delete"
      [] r \in {look, lookToo} -> "list"
      [] r = quit -> "leave" [] OTHER -> "join"]

Caller == [r \in REQUESTS |-> IF r \in {look, quit, enter} THEN guest ELSE author]

Process == [r \in REQUESTS |-> IF r \in {add, erase, look} THEN p1 ELSE p2]

Sharers == [r \in REQUESTS |-> IF r = add THEN {author, guest} ELSE {}]

Batches == {{add, look, quit, enter}, {erase, eraseToo, look, enter}, {alter, erase, enter}}

\* Two lists around a recording.
LateListBatch == {{add, look, lookToo, enter}}

=============================================================================
