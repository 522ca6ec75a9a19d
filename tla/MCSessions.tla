------------------------------ MODULE MCSessions ------------------------------
(* Two users with a row and one without, three tokens, and groups of requests *)
(* that are made together: logins by name while names change hands, sign-ins  *)
(* of one user, and requests that use a token beyond its end.                 *)
EXTENDS Sessions

CONSTANTS ann, bob, eve, short, spare,
          annByName, bobByName, annMoves, bobMoves, eveJoins,
          first, second, renewal, demotion,
          old, check, call, own1, own2, own3, manage1, manage2, manage3, exit, exitJwt, expel

Kind == [r \in REQUESTS |->
    CASE r \in {annByName, bobByName} -> "name" [] r \in {annMoves, bobMoves} -> "rename"
      [] r = eveJoins -> "signup" [] r \in {first, second} -> "email"
      [] r = renewal -> "refresh" [] r = demotion -> "setRole"
      [] r \in {call, own1, own2} -> "call" [] r = exit -> "logout" [] r = exitJwt -> "logoutJwt"
      [] r = expel -> "revokeAll" [] OTHER -> "manage"]

Person == [r \in REQUESTS |->
    CASE r \in {bobByName, bobMoves} -> bob [] r = eveJoins -> eve [] OTHER -> ann]

Name == [r \in REQUESTS |-> IF r = annMoves THEN spare ELSE short]

Token == [r \in REQUESTS |->
    CASE r \in {manage1, manage2, manage3} -> FOREIGN [] r \in {own1, own2, own3, exit, exitJwt, expel, call} -> old
      [] OTHER -> first]

FirstName == [u \in USERS |-> IF u = ann THEN short ELSE NoName]

FirstRole == [u \in USERS |-> IF u = ann THEN "admin" ELSE "user"]

OldToken == [t \in OLD_TOKENS |-> [user |-> ann, role |-> "user", until |-> 1]]

Batches == {
    {annByName, bobByName, annMoves, bobMoves},
    {annByName, eveJoins},
    {first, second, renewal},
    {first, demotion, check},
    {own1, own2, own3},
    {exit, exitJwt, call},
    {exit, expel, call},
    {manage1, manage2, demotion},
    {manage1, manage2, manage3}}

=============================================================================
