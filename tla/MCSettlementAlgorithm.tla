------------------------ MODULE MCSettlementAlgorithm ------------------------
(* Four members with every balance up to Largest, and one case of five members. *)
EXTENDS SettlementAlgorithm

CONSTANTS m1, m2, m3, m4, m5

FourMembers == {m1, m2, m3, m4}

\* Every balance from -Largest to Largest, whether they cancel out or not: the
\* query drops the shares of members that have left, so they need not.
Largest == 6
EveryBalance == [FourMembers -> -Largest .. Largest]

FiveMembers == {m1, m2, m3, m4, m5}

\* Debts 6, 4 and 4 against claims 8 and 6.
ThreeAgainstTwo ==
    {[m \in FiveMembers |->
        CASE m = m1 -> -6 [] m = m2 -> -4 [] m = m3 -> -4 [] m = m4 -> 8 [] OTHER -> 6]}

=============================================================================
