-------------------------- MODULE MCTravelMembership --------------------------
(* The founder and one member of a travel, a user outside it, and six requests *)
(* at the same time.                                                           *)
EXTENDS TravelMembership

CONSTANTS founder, member, guest, give, giveToo, quit, expel, enter, erase

Kind == [r \in REQUESTS |->
    CASE r \in {give, giveToo} -> "transfer" [] r = quit -> "leave" [] r = expel -> "remove"
      [] r = enter -> "join" [] r = erase -> "delete"]

Caller == [r \in REQUESTS |->
    CASE r = quit -> member [] r = enter -> guest [] OTHER -> founder]

Target == [r \in REQUESTS |-> IF r = giveToo THEN guest ELSE member]

=============================================================================
