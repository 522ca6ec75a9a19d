------------------------------ MODULE MCProfiles ------------------------------
(* A user of Google, two processes, and up to four requests.                  *)
EXTENDS Profiles

CONSTANTS p, q, r1, r2, r3, r4, old, given, new, foreign, copy

With(kind, process) == [kind |-> kind, process |-> process, name |-> new]
None == With("none", p)
Me(x) == With("me", x)
Fetch(x) == With("member", x)
Patch(x) == With("patch", x)
SignIn(x) == With("signIn", x)

Plan(j1, j2, j3, j4) ==
    [jobs |-> [r \in REQUESTS |->
                  CASE r = r1 -> j1 [] r = r2 -> j2 [] r = r3 -> j3 [] r = r4 -> j4],
     own |-> [name |-> old, picture |-> foreign]]

\* The same, for a user whose picture has been copied before.
Copied(plan) == [plan EXCEPT !.own.picture = copy]

Batches == {
    Plan(Me(p), Patch(p), Me(p), None),
    Plan(Me(p), Patch(q), Me(p), None),
    Plan(SignIn(p), Me(p), Me(q), None),
    Plan(SignIn(p), Patch(q), Me(p), None),
    Plan(Fetch(q), Patch(p), Me(q), None),
    Plan(Me(q), Patch(p), None, None),
    Copied(Plan(Me(p), Patch(p), Me(q), Me(q)))}

=============================================================================
