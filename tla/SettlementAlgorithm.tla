------------------------- MODULE SettlementAlgorithm -------------------------
(***************************************************************************)
(* TravelSettlementService.calculateSettlements: from every member's       *)
(* balance, the transfers that settle a travel.  Creditors and debtors are *)
(* listed from the largest amount down and two indexes walk the lists.     *)
(*                                                                         *)
(* Money is counted in hundredths: converted_amount and split_amount have  *)
(* two decimals, so a balance is a whole number of hundredths and the      *)
(* code's toFixed(2) changes nothing.  EPSILON is the code's 0.01.         *)
(***************************************************************************)
EXTENDS Integers, Sequences, FiniteSetsExt

CONSTANTS
    MEMBERS,    \* the members of the travel
    EPSILON,    \* a remainder of at most EPSILON counts as settled
    BALANCES    \* the balances [MEMBERS -> Int] the algorithm may be given

ASSUME AlgorithmAssumption ==
    /\ IsFiniteSet(MEMBERS)
    /\ EPSILON \in Nat
    /\ BALANCES \subseteq [MEMBERS -> Int]

VARIABLES
    balance,      \* the input
    debtors,      \* members that owe, largest debt first
    creditors,    \* members that are owed, largest claim first
    left,         \* what each listed member still owes or is owed
    i, j,         \* the two indexes
    settlements   \* the transfers found so far

planVars == <<balance, debtors, creditors, left, i, j, settlements>>

Transfer == [from : MEMBERS, to : MEMBERS, amount : Int]

-----------------------------------------------------------------------------

Abs(x) == IF x < 0 THEN -x ELSE x

Lesser(a, b) == IF a <= b THEN a ELSE b

\* One member alone has nobody to settle with.
Owing(b) == IF Cardinality(MEMBERS) <= 1 THEN {} ELSE {m \in MEMBERS : b[m] < -EPSILON}

Owed(b) == IF Cardinality(MEMBERS) <= 1 THEN {} ELSE {m \in MEMBERS : b[m] > EPSILON}

\* S listed from the largest amount down.  The query that reads the balances
\* has no ORDER BY, so equal amounts come in any order.
SortedDown(S, b) ==
    {s \in [1 .. Cardinality(S) -> S] :
        /\ \A x, y \in DOMAIN s : s[x] = s[y] => x = y
        /\ \A x, y \in DOMAIN s : x < y => Abs(b[s[x]]) >= Abs(b[s[y]])}

PlanInit ==
    /\ balance \in BALANCES
    /\ debtors \in SortedDown(Owing(balance), balance)
    /\ creditors \in SortedDown(Owed(balance), balance)
    /\ left = [m \in MEMBERS |-> Abs(balance[m])]
    /\ i = 1
    /\ j = 1
    /\ settlements = <<>>

\* Mutated form: the last entry of each list is never looked at.
FinishedEarly == i >= Len(debtors) \/ j >= Len(creditors)

Finished == i > Len(debtors) \/ j > Len(creditors)

\* Mutated form: one transfer settles both members.
SettleBoth ==
    LET d == debtors[i]
        c == creditors[j]
    IN  /\ ~Finished
        /\ settlements' = Append(settlements,
                                [from |-> d, to |-> c, amount |-> Lesser(left[d], left[c])])
        /\ left' = [left EXCEPT ![d] = 0, ![c] = 0]
        /\ i' = i + 1
        /\ j' = j + 1
        /\ UNCHANGED <<balance, debtors, creditors>>

\* Mutated form: the loop does not know of EPSILON.
SettleToTheLast ==
    LET d == debtors[i]
        c == creditors[j]
        amount == Lesser(left[d], left[c])
    IN  /\ ~Finished
        /\ settlements' = Append(settlements, [from |-> d, to |-> c, amount |-> amount])
        /\ left' = [left EXCEPT ![d] = @ - amount, ![c] = @ - amount]
        /\ i' = IF left[d] = amount THEN i + 1 ELSE i
        /\ j' = IF left[c] = amount THEN j + 1 ELSE j
        /\ UNCHANGED <<balance, debtors, creditors>>

\* One turn of the while loop.
Settle ==
    LET d == debtors[i]
        c == creditors[j]
        amount == Lesser(left[d], left[c])
    IN  /\ ~Finished
        /\ settlements' = IF amount > EPSILON
                          THEN Append(settlements, [from |-> d, to |-> c, amount |-> amount])
                          ELSE settlements
        /\ left' = [left EXCEPT ![d] = @ - amount, ![c] = @ - amount]
        /\ i' = IF left[d] - amount <= EPSILON THEN i + 1 ELSE i
        /\ j' = IF left[c] - amount <= EPSILON THEN j + 1 ELSE j
        /\ UNCHANGED <<balance, debtors, creditors>>

\* The call has returned.
Returned == Finished /\ UNCHANGED planVars

PlanNext == Settle \/ Returned

\* A loop that runs on one thread: the scheduler does not stop it half-way.
PlanSpec == PlanInit /\ [][PlanNext]_planVars /\ WF_planVars(Settle)

-----------------------------------------------------------------------------

PlanTypes ==
    /\ balance \in BALANCES
    /\ debtors \in Seq(Owing(balance))
    /\ creditors \in Seq(Owed(balance))
    /\ left \in [MEMBERS -> Nat]
    /\ i \in 1 .. Len(debtors) + 1
    /\ j \in 1 .. Len(creditors) + 1
    /\ settlements \in Seq(Transfer)

\* What the transfers found so far move for member m, as payer or as payee.
Moved(m) ==
    LET with == {k \in DOMAIN settlements : m \in {settlements[k].from, settlements[k].to}}
    IN  MapThenSumSet(LAMBDA k : settlements[k].amount, with)

\* The transfers of a member and what is left always add up to the member's
\* balance: no skipped entry, remainder or index makes the loop create, lose or
\* double money (lines 168-180).
MoneyConserved ==
    \A m \in MEMBERS : left[m] + Moved(m) = Abs(balance[m])

\* Every transfer goes from a member that owes to one that is owed and is worth
\* more than EPSILON, and a list of d debtors and c creditors never needs more
\* than d + c - 1 of them, each between another pair (lines 170-183).
TransfersWorthwhile ==
    /\ \A k \in DOMAIN settlements :
        /\ settlements[k].from \in Owing(balance)
        /\ settlements[k].to \in Owed(balance)
        /\ settlements[k].amount > EPSILON
    /\ \A k, l \in DOMAIN settlements :
        settlements[k].from = settlements[l].from /\ settlements[k].to = settlements[l].to
            => k = l
    /\ settlements # <<>> => Len(settlements) < Len(debtors) + Len(creditors)

Zerosum == MapThenSumSet(LAMBDA m : balance[m], MEMBERS) = 0

\* When the balances cancel out, what the transfers leave open is only what
\* EPSILON lets the loop forget: at most one EPSILON for every other member
\* (lines 151-159 and 182-183).
NothingForgotten ==
    Finished /\ Zerosum
        => \A m \in MEMBERS : left[m] <= (Cardinality(MEMBERS) - 1) * EPSILON

\* The loop ends for every input (line 165).
Terminates == <>Finished

-----------------------------------------------------------------------------

\* A reference: members whose balances in b cancel out settle with one transfer
\* less than there are members, and no plan does better than to split everybody
\* into as many such groups as there are.
FewestPossible(b) ==
    LET zero == {T \in SUBSET DOMAIN b : T # {} /\ MapThenSumSet(LAMBDA m : b[m], T) = 0}
        groups[S \in SUBSET DOMAIN b] ==
            Max({0} \cup {1 + groups[S \ T] : T \in zero \cap SUBSET S})
        listed == Owing(b) \cup Owed(b)
    IN  Cardinality(listed) - groups[listed]

\* The comment on the function: "settlement pairs with the fewest transactions"
\* (line 139) and "greedy two-pointer minimises the number of transactions"
\* (line 142).
MinimalTransfers ==
    Finished /\ Zerosum /\ (\A m \in MEMBERS : left[m] = 0)
        => Len(settlements) <= FewestPossible(balance)

=============================================================================
