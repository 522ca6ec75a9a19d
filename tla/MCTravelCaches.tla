---------------------------- MODULE MCTravelCaches ----------------------------
(* A travel of an owner and one more member, a third user who may join, and   *)
(* two processes.                                                              *)
EXTENDS TravelCaches

CONSTANTS owner, guest, other, p, q, r1, r2, r3, r4, r5

With(kind, user, target, process) ==
    [kind |-> kind, user |-> user, target |-> target, process |-> process]
None == With("none", owner, owner, p)
Detail(u, x) == With("detail", u, u, x)
List(u, x) == With("list", u, u, x)
Join(x) == With("join", other, other, x)
Leave(x) == With("leave", guest, guest, x)
Remove(x) == With("remove", owner, guest, x)
Transfer(x) == With("transfer", owner, guest, x)
Delete(x) == With("delete", owner, owner, x)

Plan(j1, j2, j3, j4, j5) ==
    [r \in REQUESTS |->
        CASE r = r1 -> j1 [] r = r2 -> j2 [] r = r3 -> j3 [] r = r4 -> j4 [] r = r5 -> j5]

Batches == {
    Plan(Detail(guest, q), Detail(guest, q), Leave(p), None, None),
    Plan(Detail(owner, q), Leave(p), Detail(guest, q), Detail(guest, p), None),
    Plan(Detail(other, q), Join(p), Detail(other, q), Detail(other, p), None),
    Plan(Detail(owner, q), Join(p), List(owner, q), None, None),
    Plan(List(owner, p), Remove(q), Detail(owner, p), List(owner, q), List(owner, q)),
    Plan(List(owner, p), Remove(q), Detail(owner, p), Detail(owner, q), None),
    Plan(List(owner, p), Remove(q), Detail(owner, p), Detail(guest, q), None),
    Plan(List(guest, p), Remove(p), List(guest, p), Detail(guest, p), None),
    Plan(List(owner, p), Detail(owner, p), Join(p), List(owner, p), None),
    Plan(List(guest, q), Transfer(p), Detail(guest, q), None, None),
    Plan(List(guest, p), Delete(p), Detail(guest, q), None, None),
    Plan(Detail(guest, q), Delete(p), Detail(guest, q), None, None)}

=============================================================================
