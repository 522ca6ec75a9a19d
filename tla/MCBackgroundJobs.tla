--------------------------- MODULE MCBackgroundJobs ---------------------------
(* Four jobs on two slots: one is never retried, one is retried twice, and the *)
(* first may hang.                                                             *)
EXTENDS BackgroundJobs

CONSTANTS j1, j2, j3, j4

Retries == [j \in {j1, j2, j3, j4} |-> CASE j = j2 -> 0 [] j = j3 -> 2 [] OTHER -> 1]

=============================================================================
