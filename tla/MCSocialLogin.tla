----------------------------- MODULE MCSocialLogin -----------------------------
(* One user of Supabase with three tokens and one of Kakao with two codes, who *)
(* are not registered, and the requests they make together.                    *)
EXTENDS SocialLogin

CONSTANTS newbie, friend, one, two, opaque, code, again, r1, r2, r3, r4

Owner == [t \in TOKENS |-> newbie]
Expires == [t \in TOKENS |-> IF t = two THEN 2 ELSE 20]

With(kind, user, token, c) ==
    [kind |-> kind, user |-> user, token |-> token, code |-> c, ticket |-> r1]
None == With("none", newbie, one, code)
Lookup(t) == With("lookup", newbie, t, code)
Login(t) == With("login", newbie, t, code)
Ask == With("ask", newbie, two, code)
Register_ == With("register", newbie, two, code)
Edit == With("edit", newbie, two, code)
Revoke == With("revoke", newbie, one, code)
Kakao(c) == With("kakao", friend, one, c)
Probe(c) == With("kakaoLookup", friend, one, c)
Finalize == With("finalize", friend, one, code)

Plan(j1, j2, j3, j4) ==
    [r \in REQUESTS |-> CASE r = r1 -> j1 [] r = r2 -> j2 [] r = r3 -> j3 [] r = r4 -> j4]

Batches == {
    Plan(Ask, Lookup(one), Register_, None),
    Plan(Lookup(one), Lookup(one), Register_, None),
    Plan(Lookup(opaque), Lookup(opaque), Lookup(opaque), None),
    Plan(Lookup(opaque), Lookup(opaque), Register_, None),
    Plan(Login(one), Lookup(two), None, None),
    Plan(Login(one), Edit, Revoke, None),
    Plan(Lookup(one), Revoke, None, None),
    Plan(Login(one), Lookup(one), None, None),
    Plan(Login(two), Login(two), None, None),
    Plan(Login(opaque), Lookup(opaque), None, None),
    Plan(Kakao(code), Kakao(again), Probe(again), None),
    Plan(Kakao(code), Kakao(code), Finalize, Finalize)}

\* Tracked is what the code says: the token, then the others in their order, cut at the limit.
Lists == UNION {{keys \in [1 .. n -> TOKENS] : \A i, j \in 1 .. n : keys[i] = keys[j] => i = j} : n \in 0 .. 3}
ASSUME TrackedAsFiltered ==
    \A keys \in Lists, t \in TOKENS :
        LET all == <<t>> \o SelectSeq(keys, LAMBDA k : k # t) IN
        Tracked(t, keys) = SubSeq(all, 1, IF Len(all) < INDEX_LIMIT THEN Len(all) ELSE INDEX_LIMIT)

Edited == {Plan(Register_, Login(one), Edit, None)}
Signup == {Plan(Lookup(one), Login(one), None, None)}

=============================================================================
