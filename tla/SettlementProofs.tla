--------------------------- MODULE SettlementProofs ---------------------------
(***************************************************************************)
(* Theorems about module Settlement, for any number of travels, requests,  *)
(* keys and transfers, and about module SettlementAlgorithm, for any       *)
(* number of members, any balances and any EPSILON.                        *)
(***************************************************************************)
EXTENDS Settlement, SettlementAlgorithm, FiniteSetTheorems, WellFoundedInduction, TLAPS

\* Every travel has a plan from the start: then there is always a row to lock.
PlansStored == {} \notin FIRST_PLANS

\* Where there is no row to lock, no two saves are past the version check together.
FirstSavesApart ==
    \A r, q \in SAVERS :
        /\ r # q /\ Travel(r) = Travel(q) /\ {pc[r], pc[q]} \subseteq {"erase", "commit"}
        => rows[Travel(r)] # {}

\* Where a request has changed nothing yet.
Before == {"new", "key", "version", "balances", "lock", "erase", "commit", "row", "complete"}

Refusals == {"nothing", "conflict", "missing", "error"}

\* Saves and completions go their own ways, and an answer is the end.
Roles ==
    /\ \A r \in REQUESTS :
        /\ pc[r] \in {"key", "version", "balances", "lock", "erase", "commit"} => r \in SAVERS
        /\ pc[r] \in {"row", "complete"} => r \in MARKERS
        /\ reply[r] # "none" => pc[r] = "done"
    /\ \A r \in SAVERS :
        /\ pc[r] \in {"new", "key", "version", "balances"} => plan[r] = {}
        /\ pc[r] \in {"lock", "erase", "commit"} => plan[r] # {}

\* A row is locked by one request.
LocksExclude ==
    \A r, q \in REQUESTS : r # q => holds[r] \cap holds[q] = {}

\* The rows of a travel are its own.
Rows == \A t \in TRAVELS : \A id \in rows[t] : id[2] = t

\* There is a plan, and nobody saves an empty one.
SomePlan == \A t \in TRAVELS : rows[t] # {}

\* A save past its lock holds every row of the travel, and its version is still
\* the newest.
HoldsRows(r) ==
    /\ pc[r] \in {"erase", "commit"} =>
        /\ rows[Travel(r)] \subseteq holds[r]
        /\ base[r] = MaxVersion(Travel(r))
    /\ pc[r] = "commit" => erased[r] = rows[Travel(r)]

SaveHolds == \A r \in REQUESTS : HoldsRows(r)

\* A completion past its lock holds its row, which is still there and pending.
CompletionHolds ==
    \A r \in REQUESTS :
        pc[r] = "complete" =>
            ask[r].row \in (rows[Travel(r)] \ completed) \cap holds[r]

\* Rows are locked within a transaction only.
LocksReturned ==
    \A r \in REQUESTS : pc[r] \notin {"erase", "commit", "complete"} => holds[r] = {}

\* No trace of a request before its commit, nor ever if it was refused or doomed.
NoTrace ==
    \A r \in REQUESTS :
        pc[r] \in Before \/ reply[r] \in Refusals \/ doomed[r] =>
            /\ r \notin audit
            /\ \A id \in completed : id[1] # r
            /\ \A t \in TRAVELS : \A id \in rows[t] : id[1] # r
            /\ \A q \in REQUESTS : pc[q] = "complete" => ask[q].row[1] # r

\* What a save replaced is older than what is stored.
SavedIsNewer ==
    \A r \in SAVERS \cap audit : base[r] < MaxVersion(Travel(r))

\* Past its commit a request has done its work, unless it was doomed.
Done ==
    \A r \in REQUESTS :
        pc[r] \in {"drop", "lookup", "query"} \/ reply[r] = "ok" =>
            /\ r \in SAVERS /\ plan[r] # {} => r \in audit \/ doomed[r]
            /\ r \in MARKERS => ask[r].row \in completed \/ doomed[r]

\* What needs no lock at all.
Always == TypeOK /\ Roles /\ LocksReturned /\ NoTrace /\ Done

IInv ==
    /\ Always /\ LocksExclude /\ Rows /\ SaveHolds /\ CompletionHolds
    /\ SavedIsNewer /\ OnePlanStored /\ SecondSaveConflicts

-----------------------------------------------------------------------------

\* Of finitely many rows one has the largest version: a set of rows without one
\* would contain a smaller such set.
LEMMA LargestExists ==
    ASSUME NEW S, IsFiniteSet(S), S # {}, NEW f \in [S -> Nat]
    PROVE  \E x \in S : \A y \in S : f[y] <= f[x]
<1> DEFINE Lacks == {T \in SUBSET S : T # {} /\ ~ \E x \in T : \A y \in T : f[y] <= f[x]}
<1>1. SUFFICES ASSUME Lacks # {} PROVE FALSE
  OBVIOUS
<1>2. IsWellFoundedOn(StrictSubsetOrdering(S), SUBSET S)
  BY FS_StrictSubsetOrderingWellFounded, FS_FiniteSubsetsOfFinite
<1>3. PICK T \in Lacks : \A U \in Lacks : <<U, T>> \notin StrictSubsetOrdering(S)
  <2>1. Lacks \subseteq SUBSET S
    OBVIOUS
  <2> HIDE DEF Lacks
  <2> QED
    BY <1>1, <1>2, <2>1, WFMin
<1>4. PICK a \in T : TRUE
  OBVIOUS
<1>5. CASE T \ {a} = {}
  <2>1. \A y \in T : y = a
    BY <1>5
  <2> QED
    BY <1>4, <2>1
<1>6. CASE T \ {a} # {}
  <2>1. T \ {a} \notin Lacks
    BY <1>3, <1>4 DEF StrictSubsetOrdering
  <2>2. PICK b \in T \ {a} : \A y \in T \ {a} : f[y] <= f[b]
    BY <1>6, <2>1
  <2>3. CASE f[a] <= f[b]
    BY <1>4, <2>2, <2>3
  <2>4. CASE ~(f[a] <= f[b])
    <3>1. \A y \in T : f[y] <= f[a]
      BY <1>4, <2>2, <2>4
    <3> QED
      BY <1>4, <3>1
  <2> QED
    BY <2>3, <2>4
<1> QED
  BY <1>5, <1>6

\* COALESCE(MAX(version), 0) is the version of a row, or zero if there is none,
\* and no row has a larger one.
LEMMA NewestIsLargest ==
    ASSUME NEW stored \in SUBSET IDS, NEW versions \in [IDS -> Nat]
    PROVE  /\ Book!Newest(stored, versions) \in {0} \cup {versions[id] : id \in stored}
           /\ Book!Newest(stored, versions) \in Nat
           /\ \A id \in stored : versions[id] <= Book!Newest(stored, versions)
<1> DEFINE seen == {0} \cup {versions[id] : id \in stored}
<1>1. \E x \in seen : \A y \in seen : y <= x
  <2>1. CASE stored = {}
    BY <2>1
  <2>2. CASE stored # {}
    <3> DEFINE f == [id \in stored |-> versions[id]]
    <3>1. IsFiniteSet(stored)
      BY FS_Subset, SettlementAssumption
    <3>2. f \in [stored -> Nat]
      OBVIOUS
    <3>3. \E x \in stored : \A y \in stored : f[y] <= f[x]
      <4> HIDE DEF f
      <4> QED
        BY <2>2, <3>1, <3>2, LargestExists
    <3> QED
      BY <3>3
  <2> QED
    BY <2>1, <2>2
<1>2. Book!Newest(stored, versions) = CHOOSE v \in seen : \A w \in seen : w <= v
  BY DEF Book!Newest
<1>3. seen \subseteq Nat /\ \A id \in stored : versions[id] \in seen
  OBVIOUS
<1> HIDE DEF seen
<1>4. Book!Newest(stored, versions) \in seen /\ \A w \in seen : w <= Book!Newest(stored, versions)
  BY <1>1, <1>2
<1> QED
  BY <1>3, <1>4 DEF seen

\* Only the versions of the rows count.
LEMMA NewestOfSame ==
    ASSUME NEW stored \in SUBSET IDS, NEW versions, NEW others,
           \A id \in stored : versions[id] = others[id]
    PROVE  Book!Newest(stored, versions) = Book!Newest(stored, others)
<1>1. {versions[id] : id \in stored} = {others[id] : id \in stored}
  OBVIOUS
<1> QED
  BY <1>1 DEF Book!Newest

\* The version a save reads is a number, and no row has a larger one.
LEMMA MaxVersionIsLargest ==
    ASSUME TypeOK, NEW t \in TRAVELS
    PROVE  /\ MaxVersion(t) \in Nat
           /\ \A id \in rows[t] : version[id] <= MaxVersion(t)
  BY NewestIsLargest DEF TypeOK, MaxVersion

-----------------------------------------------------------------------------

\* What the requests ask for is fixed.
LEMMA AskType ==
    ASSUME TypeOK, NEW r \in REQUESTS
    PROVE  /\ Travel(r) \in TRAVELS
           /\ ask[r].row \in IDS
           /\ ask[r].key # NoKey => ask[r].key \in KEYS
  BY SettlementAssumption DEF TypeOK, Travel

\* The initial values have their types.
LEMMA TypeInit ==
    ASSUME Init PROVE TypeOK
<1>1. ASSUME NEW t \in TRAVELS, NEW p \in FIRST_PLANS PROVE IdsOf(Earlier, t, p) \in SUBSET IDS
  BY SettlementAssumption DEF IdsOf, IDS
<1> QED
  BY <1>1 DEF Init, TypeOK, View

\* A save's steps are taken by saves, so what they store has an identifier.
LEMMA TypeStep ==
    ASSUME TypeOK, Roles, [Next]_vars PROVE TypeOK'
<1> USE DEF setting, tables, caches, transaction, answer
<1>1. ASSUME NEW r \in REQUESTS, NEW from, NEW why \in {"forbidden", "nothing", "conflict", "missing", "error"},
             Refuse(r, from, why)
      PROVE  TypeOK'
  BY <1>1 DEF TypeOK, Refuse, Goto, Released
<1>2. ASSUME NEW r \in REQUESTS, NEW from, NEW v \in View, NEW kinds \in SUBSET {"summary", "replay"},
             Answer(r, from, v, kinds)
      PROVE  TypeOK'
  BY <1>2 DEF TypeOK, Answer, Goto
<1>3. ASSUME NEW r \in REQUESTS PROVE KeptUnderKey(r) \in SUBSET {"summary", "replay"}
  BY DEF KeptUnderKey
<1>4. ASSUME NEW r \in REQUESTS, Arrive(r) PROVE TypeOK'
  <2>1. CASE Refuse(r, "new", "forbidden")
    BY <1>1, <2>1
  <2>2. CASE ~Refuse(r, "new", "forbidden")
    BY <1>4, <2>2 DEF TypeOK, Arrive, Goto
  <2> QED
    BY <2>1, <2>2
<1>5. ASSUME NEW r \in REQUESTS, CheckKey(r) PROVE TypeOK'
  <2>1. CASE ask[r].key # NoKey /\ Answer(r, "key", replay[ask[r].key], {})
    <3>1. replay[ask[r].key] \in View
      BY <2>1, AskType DEF TypeOK
    <3> QED
      BY <1>2, <2>1, <3>1
  <2>2. CASE Goto(r, "key", "version") /\ UNCHANGED <<expenses, tables, caches, transaction, answer>>
    BY <2>2 DEF TypeOK, Goto
  <2> QED
    BY <1>5, <2>1, <2>2 DEF CheckKey
<1>6. ASSUME NEW r \in REQUESTS, ReadVersion(r) PROVE TypeOK'
  <2>1. MaxVersion(Travel(r)) \in Nat
    BY AskType, MaxVersionIsLargest
  <2> QED
    BY <1>6, <2>1 DEF TypeOK, ReadVersion, Goto
<1>7. ASSUME NEW r \in REQUESTS, ComputePlan(r) PROVE TypeOK'
  <2>1. PLAN[expenses[Travel(r)]] \subseteq TRANSFERS
    BY AskType, SettlementAssumption DEF TypeOK
  <2>2. CASE Refuse(r, "balances", "nothing")
    BY <1>1, <2>2
  <2>3. CASE ~Refuse(r, "balances", "nothing")
    BY <1>7, <2>1, <2>3 DEF TypeOK, ComputePlan, Goto
  <2> QED
    BY <2>2, <2>3
<1>8. ASSUME NEW r \in REQUESTS, LockVersion(r) PROVE TypeOK'
  <2>1. RowsToLock(Travel(r)) \subseteq IDS
    BY AskType DEF RowsToLock, TypeOK
  <2>2. CASE Refuse(r, "lock", "error") \/ Refuse(r, "lock", "conflict")
    BY <1>1, <2>2
  <2>3. CASE ~(Refuse(r, "lock", "error") \/ Refuse(r, "lock", "conflict"))
    BY <1>8, <2>1, <2>3 DEF TypeOK, LockVersion, Goto
  <2> QED
    BY <2>2, <2>3
<1>9. ASSUME NEW r \in REQUESTS, ErasePlan(r) PROVE TypeOK'
  <2>1. RowsToErase(Travel(r)) \subseteq IDS
    BY AskType DEF RowsToErase, TypeOK
  <2> QED
    BY <1>9, <2>1 DEF TypeOK, ErasePlan, Goto
<1>10. ASSUME NEW r \in REQUESTS, CommitPlan(r) PROVE TypeOK'
  <2>1. r \in SAVERS
    BY <1>10 DEF Roles, CommitPlan, Goto
  <2>2. IdsOf(r, Travel(r), plan[r]) \subseteq IDS
    BY <2>1, AskType DEF IdsOf, IDS, TypeOK
  <2>3. NextVersion(r) \in Nat
    BY DEF NextVersion, TypeOK
  <2> QED
    BY SMTT(40), <1>10, <2>2, <2>3, AskType DEF TypeOK, CommitPlan, Goto, Released
<1>11. ASSUME NEW r \in REQUESTS, LockRow(r) PROVE TypeOK'
  <2>1. ask[r].row \in IDS
    BY AskType
  <2>2. CASE Refuse(r, "row", "missing")
    BY <1>1, <2>2
  <2>3. CASE ~Refuse(r, "row", "missing")
    BY <1>11, <2>1, <2>3 DEF TypeOK, LockRow, Goto
  <2> QED
    BY <2>2, <2>3
<1>12. ASSUME NEW r \in REQUESTS, CommitCompletion(r) PROVE TypeOK'
  <2>1. ask[r].row \in IDS
    BY AskType
  <2>2. version[ask[r].row] + 1 \in Nat
    BY <2>1 DEF TypeOK
  <2> QED
    BY <1>12, <2>1, <2>2 DEF TypeOK, CommitCompletion, Goto, Released
<1>13. ASSUME NEW r \in REQUESTS, DropSummary(r) PROVE TypeOK'
  BY <1>13 DEF TypeOK, DropSummary, Goto, View
<1>14. ASSUME NEW r \in REQUESTS, Lookup(r) PROVE TypeOK'
  <2>1. cache[Travel(r)] \in View /\ KeptUnderKey(r) \in SUBSET {"summary", "replay"}
    BY <1>3, AskType DEF TypeOK
  <2>2. CASE Refuse(r, "lookup", "forbidden")
    BY <1>1, <2>2
  <2>3. CASE Answer(r, "lookup", cache[Travel(r)], KeptUnderKey(r))
    BY <1>2, <2>1, <2>3
  <2>4. CASE Goto(r, "lookup", "query") /\ UNCHANGED <<expenses, tables, caches, transaction, answer>>
    BY <2>4 DEF TypeOK, Goto
  <2> QED
    BY <1>14, <2>2, <2>3, <2>4 DEF Lookup
<1>15. ASSUME NEW r \in REQUESTS, QuerySummary(r) PROVE TypeOK'
  <2> DEFINE read == [all |-> rows[Travel(r)], paid |-> rows[Travel(r)] \cap completed]
             kinds == {"summary"} \cup KeptUnderKey(r)
  <2>1. read \in View
    BY AskType DEF TypeOK, View, Summary
  <2>2. kinds \in SUBSET {"summary", "replay"}
    BY <1>3
  <2>3. Answer(r, "query", read, kinds)
    BY <1>15 DEF QuerySummary
  <2> HIDE DEF read, kinds
  <2> QED
    BY <1>2, <2>1, <2>2, <2>3
<1>16. ASSUME NEW r \in REQUESTS, WriteSummary(r) PROVE TypeOK'
  BY <1>16 DEF TypeOK, WriteSummary
<1>17. ASSUME NEW r \in REQUESTS, WriteReplay(r) PROVE TypeOK'
  BY <1>17 DEF TypeOK, WriteReplay
<1>18. ASSUME ChangeExpenses PROVE TypeOK'
  BY <1>18 DEF TypeOK, ChangeExpenses
<1>19. ASSUME Expire PROVE TypeOK'
  <2>1. NoView \in View
    BY DEF View
  <2> QED
    BY <1>19, <2>1 DEF TypeOK, Expire
<1>20. ASSUME UNCHANGED vars PROVE TypeOK'
  BY <1>20 DEF TypeOK, vars
<1> QED
  BY <1>4, <1>5, <1>6, <1>7, <1>8, <1>9, <1>10, <1>11, <1>12, <1>13, <1>14, <1>15, <1>16, <1>17,
     <1>18, <1>19, <1>20 DEF Next, Step, Work

-----------------------------------------------------------------------------

\* Every step keeps saves and completions on their own ways.
LEMMA RolesStep ==
    ASSUME TypeOK, Roles, [Next]_vars PROVE Roles'
<1> USE SettlementAssumption DEF TypeOK, Roles, Goto, setting, tables, caches, transaction, answer
<1>1. ASSUME NEW r \in REQUESTS, Arrive(r) PROVE Roles'
  BY <1>1 DEF Arrive, Refuse, REQUESTS
<1>2. ASSUME NEW r \in REQUESTS, CheckKey(r) PROVE Roles'
  BY SMTT(40), <1>2 DEF CheckKey, Answer, REQUESTS
<1>3. ASSUME NEW r \in REQUESTS, ReadVersion(r) PROVE Roles'
  BY <1>3 DEF ReadVersion, REQUESTS
<1>4. ASSUME NEW r \in REQUESTS, ComputePlan(r) PROVE Roles'
  BY <1>4 DEF ComputePlan, Refuse, REQUESTS
<1>5. ASSUME NEW r \in REQUESTS, LockVersion(r) PROVE Roles'
  BY <1>5 DEF LockVersion, Refuse, REQUESTS
<1>6. ASSUME NEW r \in REQUESTS, ErasePlan(r) PROVE Roles'
  BY <1>6 DEF ErasePlan, REQUESTS
<1>7. ASSUME NEW r \in REQUESTS, CommitPlan(r) PROVE Roles'
  BY <1>7 DEF CommitPlan, REQUESTS
<1>8. ASSUME NEW r \in REQUESTS, LockRow(r) PROVE Roles'
  BY SMTT(40), <1>8 DEF LockRow, Refuse, REQUESTS
<1>9. ASSUME NEW r \in REQUESTS, CommitCompletion(r) PROVE Roles'
  BY <1>9 DEF CommitCompletion, REQUESTS
<1>10. ASSUME NEW r \in REQUESTS, DropSummary(r) PROVE Roles'
  BY <1>10 DEF DropSummary, REQUESTS
<1>11. ASSUME NEW r \in REQUESTS, Lookup(r) PROVE Roles'
  BY <1>11 DEF Lookup, Answer, Refuse, REQUESTS
<1>12. ASSUME NEW r \in REQUESTS, QuerySummary(r) PROVE Roles'
  BY <1>12 DEF QuerySummary, Answer, REQUESTS
<1>13. ASSUME UNCHANGED <<pc, reply, plan>> PROVE Roles'
  BY <1>13
<1> QED
  BY <1>1, <1>2, <1>3, <1>4, <1>5, <1>6, <1>7, <1>8, <1>9, <1>10, <1>11, <1>12, <1>13
     DEF Next, Step, Work, WriteSummary, WriteReplay, ChangeExpenses, Expire, vars

-----------------------------------------------------------------------------

\* A step of r that stores nothing and starts no transaction.
Passes(r) ==
    /\ UNCHANGED <<ask, tables, base, plan, erased, doomed>>
    /\ holds' \in {holds, Released(r)}
    /\ \A q \in REQUESTS \ {r} : pc'[q] = pc[q] /\ reply'[q] = reply[q]
    /\ pc[r] \notin {"erase", "commit", "complete"}
    /\ pc'[r] \in {"key", "row", "version", "drop", "lookup", "query", "done"}
    /\ pc'[r] \in Before \/ reply'[r] \in Refusals => pc[r] \in Before

\* Every other step of r but one that leaves all this alone is named here.
LEMMA Footprint ==
    ASSUME TypeOK, Roles, [Next]_vars
    PROVE  \/ UNCHANGED <<ask, pc, reply, tables, transaction>>
           \/ \E r \in REQUESTS :
                \/ Passes(r) \/ ReadVersion(r)
                \/ ComputePlan(r) \/ LockVersion(r) \/ ErasePlan(r) \/ CommitPlan(r)
                \/ LockRow(r) \/ CommitCompletion(r)
<1> USE DEF TypeOK, Goto, Refuse, Answer, Passes, Before, Refusals, setting, tables, caches, transaction, answer
<1>1. ASSUME NEW r \in REQUESTS, Arrive(r) PROVE Passes(r)
  BY <1>1 DEF Arrive
<1>2. ASSUME NEW r \in REQUESTS, CheckKey(r) PROVE Passes(r)
  BY <1>2 DEF CheckKey
<1>3. ASSUME NEW r \in REQUESTS, DropSummary(r) PROVE Passes(r)
  BY <1>3 DEF DropSummary, Roles
<1>4. ASSUME NEW r \in REQUESTS, Lookup(r) PROVE Passes(r)
  BY <1>4 DEF Lookup, Roles
<1>5. ASSUME NEW r \in REQUESTS, QuerySummary(r) PROVE Passes(r)
  BY <1>5 DEF QuerySummary, Roles
<1> QED
  BY <1>1, <1>2, <1>3, <1>4, <1>5
     DEF Next, Step, Work, WriteSummary, WriteReplay, ChangeExpenses, Expire, vars

\* A row is taken only when nobody else has it.
LEMMA LocksExcludeStep ==
    ASSUME TypeOK, Roles, LocksExclude, [Next]_vars PROVE LocksExclude'
<1> USE DEF TypeOK, LocksExclude, Goto, LockedByOthers, Released, transaction
<1>1. CASE UNCHANGED <<ask, pc, reply, tables, transaction>>
  BY <1>1
<1>2. ASSUME NEW r \in REQUESTS, Passes(r) \/ ReadVersion(r) \/ ComputePlan(r) PROVE LocksExclude'
  BY <1>2 DEF Passes, ReadVersion, ComputePlan, Refuse
<1>3. ASSUME NEW r \in REQUESTS, LockVersion(r) PROVE LocksExclude'
  BY <1>3 DEF LockVersion, RowsToLock, Refuse
<1>4. ASSUME NEW r \in REQUESTS, ErasePlan(r) PROVE LocksExclude'
  BY <1>4 DEF ErasePlan
<1>5. ASSUME NEW r \in REQUESTS, CommitPlan(r) \/ CommitCompletion(r) PROVE LocksExclude'
  BY <1>5 DEF CommitPlan, CommitCompletion
<1>6. ASSUME NEW r \in REQUESTS, LockRow(r) PROVE LocksExclude'
  BY <1>6 DEF LockRow, Refuse
<1> QED
  BY Footprint, <1>1, <1>2, <1>3, <1>4, <1>5, <1>6

\* A commit, a refusal and a rollback give the locks back.
LEMMA LocksReturnedStep ==
    ASSUME TypeOK, Roles, LocksReturned, [Next]_vars PROVE LocksReturned'
<1> USE DEF TypeOK, LocksReturned, Goto, Released, transaction
<1>1. CASE UNCHANGED <<ask, pc, reply, tables, transaction>>
  BY <1>1
<1>2. ASSUME NEW r \in REQUESTS, Passes(r) PROVE LocksReturned'
  <2>1. \A q \in REQUESTS \ {r} : pc'[q] = pc[q] /\ holds'[q] = holds[q]
    BY <1>2 DEF Passes
  <2>2. holds'[r] = {} /\ holds[r] = {}
    BY <1>2 DEF Passes
  <2> QED
    BY <2>1, <2>2
<1>3. ASSUME NEW r \in REQUESTS, ReadVersion(r) \/ ComputePlan(r) PROVE LocksReturned'
  BY <1>3 DEF ReadVersion, ComputePlan, Refuse
<1>4. ASSUME NEW r \in REQUESTS, LockVersion(r) \/ ErasePlan(r) PROVE LocksReturned'
  BY <1>4 DEF LockVersion, ErasePlan, Refuse
<1>5. ASSUME NEW r \in REQUESTS, CommitPlan(r) \/ CommitCompletion(r) PROVE LocksReturned'
  BY <1>5 DEF CommitPlan, CommitCompletion
<1>6. ASSUME NEW r \in REQUESTS, LockRow(r) PROVE LocksReturned'
  BY <1>6 DEF LockRow, Refuse
<1> QED
  BY Footprint, <1>1, <1>2, <1>3, <1>4, <1>5, <1>6

\* A commit stores the computed plan in place of all the travel had.
LEMMA RowsStep ==
    ASSUME TypeOK, Roles, Rows, OnePlanStored, SaveHolds, [Next]_vars
    PROVE  Rows' /\ OnePlanStored'
<1> USE DEF TypeOK, Rows, OnePlanStored, Goto, tables, transaction
<1>1. CASE UNCHANGED rows
  BY <1>1
<1>2. ASSUME NEW r \in REQUESTS, CommitPlan(r), ~doomed[r] PROVE Rows' /\ OnePlanStored'
  <2>1. rows' = [rows EXCEPT ![Travel(r)] = IdsOf(r, Travel(r), plan[r])]
    BY ZenonT(40), <1>2, AskType DEF CommitPlan, SaveHolds, HoldsRows
  <2>4. \A id \in IdsOf(r, Travel(r), plan[r]) : id[1] = r /\ id[2] = Travel(r)
    BY DEF IdsOf
  <2>5. \A t \in TRAVELS :
            rows'[t] = IF t = Travel(r) THEN IdsOf(r, t, plan[r]) ELSE rows[t]
    BY <2>1, AskType
  <2> QED
    BY <2>4, <2>5
<1>3. ASSUME NEW r \in REQUESTS,
             Passes(r) \/ ReadVersion(r) \/ ComputePlan(r) \/ LockVersion(r) \/ ErasePlan(r)
                 \/ LockRow(r) \/ CommitCompletion(r)
      PROVE  UNCHANGED rows
  BY <1>3 DEF Passes, ReadVersion, ComputePlan, LockVersion, ErasePlan, LockRow, CommitCompletion, Refuse
<1>4. ASSUME NEW r \in REQUESTS, CommitPlan(r), doomed[r] PROVE UNCHANGED rows
  BY <1>4 DEF CommitPlan
<1> QED
  BY Footprint, <1>1, <1>2, <1>3, <1>4

\* MAX(version) of a travel changes only with its rows and their versions.
LEMMA MaxVersionSame ==
    ASSUME TypeOK, NEW t \in TRAVELS, rows'[t] = rows[t],
           \A id \in rows[t] : version'[id] = version[id]
    PROVE  MaxVersion(t)' = MaxVersion(t)
<1>1. MaxVersion(t)' = Book!Newest(rows'[t], version')
  BY DEF MaxVersion
<1>2. MaxVersion(t) = Book!Newest(rows[t], version)
  BY DEF MaxVersion
<1>3. rows[t] \in SUBSET IDS
  BY DEF TypeOK
<1> QED
  BY <1>1, <1>2, <1>3, NewestOfSame

\* Whoever commits a save or a completion held every row whose version it
\* changes, so the rows another request holds are as they were.
LEMMA HeldIsUnchanged ==
    ASSUME TypeOK, Roles, LocksExclude, Rows, SaveHolds, CompletionHolds,
           NEW r \in REQUESTS, NEW q \in REQUESTS, r # q, NEW t \in TRAVELS,
           rows[t] \cap holds[r] # {},
           CommitPlan(q) \/ CommitCompletion(q)
    PROVE  /\ rows'[t] = rows[t]
           /\ \A id \in rows[t] \cap holds[r] : version'[id] = version[id]
           /\ completed' \cap holds[r] = completed \cap holds[r]
<1> USE DEF TypeOK, Goto, tables
<1>1. CASE CommitPlan(q)
  <2>1. rows[Travel(q)] \cap holds[r] = {}
    BY <1>1 DEF CommitPlan, SaveHolds, HoldsRows, LocksExclude
  <2>2. t # Travel(q)
    BY <2>1
  <2>3. \A id \in rows[t] : id \notin IdsOf(q, Travel(q), plan[q])
    BY <2>2, AskType DEF Rows, IdsOf
  <2> QED
    BY <1>1, <2>2, <2>3, AskType DEF CommitPlan
<1>2. CASE CommitCompletion(q)
  <2>1. ask[q].row \notin holds[r]
    BY <1>2 DEF CommitCompletion, CompletionHolds, LocksExclude
  <2> QED
    BY <1>2, <2>1, AskType DEF CommitCompletion
<1> QED
  BY <1>1, <1>2

\* Between its lock and its commit a save sees its rows and their versions stay.
LEMMA SaveHoldsStep ==
    ASSUME TypeOK, Roles, LocksExclude, Rows, SaveHolds, CompletionHolds, FirstSavesApart, [Next]_vars
    PROVE  SaveHolds'
<1> SUFFICES ASSUME NEW p \in REQUESTS PROVE HoldsRows(p)'
  BY DEF SaveHolds
<1> USE DEF Goto, tables, transaction, setting
<1>1. ASSUME rows'[Travel(p)] = rows[Travel(p)],
             \A id \in rows[Travel(p)] : version'[id] = version[id],
             ask' = ask, pc'[p] = pc[p], base'[p] = base[p], holds'[p] = holds[p],
             erased'[p] = erased[p]
      PROVE  HoldsRows(p)'
  <2>1. Travel(p)' = Travel(p) /\ Travel(p) \in TRAVELS
    BY <1>1, AskType DEF Travel
  <2>2. MaxVersion(Travel(p))' = MaxVersion(Travel(p))
    BY <1>1, <2>1, MaxVersionSame DEF MaxVersion
  <2> QED
    BY <1>1, <2>1, <2>2 DEF SaveHolds, HoldsRows
<1>2. CASE UNCHANGED <<ask, pc, reply, tables, transaction>>
  BY <1>1, <1>2
<1>3. ASSUME NEW r \in REQUESTS, r # p, Passes(r) \/ ReadVersion(r) \/ ComputePlan(r)
                 \/ LockVersion(r) \/ ErasePlan(r) \/ LockRow(r)
      PROVE  HoldsRows(p)'
  <2>1. UNCHANGED <<ask, rows, version>> /\ pc'[p] = pc[p] /\ base'[p] = base[p]
            /\ holds'[p] = holds[p] /\ erased'[p] = erased[p]
    BY <1>3 DEF TypeOK, Passes, ReadVersion, ComputePlan, LockVersion, ErasePlan, LockRow,
                Refuse, Released
  <2> QED
    BY <1>1, <2>1
<1>4. ASSUME NEW r \in REQUESTS, r # p, CommitPlan(r) \/ CommitCompletion(r)
      PROVE  HoldsRows(p)'
  <2>1. CASE pc[p] \in {"erase", "commit"}
    <3>1. rows[Travel(p)] \subseteq holds[p] /\ Travel(p) \in TRAVELS
      BY <2>1, AskType DEF SaveHolds, HoldsRows
    <3>2. /\ rows'[Travel(p)] = rows[Travel(p)]
          /\ \A id \in rows[Travel(p)] : version'[id] = version[id]
      <4>1. CASE rows[Travel(p)] # {}
        BY <1>4, <3>1, <4>1, HeldIsUnchanged
      <4>2. CASE rows[Travel(p)] = {}
        <5>1. CommitPlan(r) => Travel(r) # Travel(p)
          BY <1>4, <2>1, <4>2 DEF CommitPlan, FirstSavesApart, Roles
        <5> QED
          BY <1>4, <3>1, <4>2, <5>1, AskType DEF TypeOK, CommitPlan, CommitCompletion
      <4> QED
        BY <4>1, <4>2
    <3>3. ask' = ask /\ pc'[p] = pc[p] /\ base'[p] = base[p] /\ holds'[p] = holds[p]
      BY <1>4 DEF TypeOK, CommitPlan, CommitCompletion, Released
    <3>4. erased'[p] = erased[p]
      BY <1>4 DEF TypeOK, CommitPlan, CommitCompletion
    <3> QED
      BY <1>1, <3>2, <3>3, <3>4
  <2>2. CASE pc[p] \notin {"erase", "commit"}
    BY <1>4, <2>2 DEF TypeOK, CommitPlan, CommitCompletion, HoldsRows
  <2> QED
    BY <2>1, <2>2
<1>5. ASSUME LockVersion(p) PROVE HoldsRows(p)'
  <2>1. CASE pc'[p] = "erase"
    <3>1. rows' = rows /\ version' = version /\ ask' = ask /\ base'[p] = base[p]
          /\ holds'[p] = rows[Travel(p)] /\ base[p] = MaxVersion(Travel(p))
      BY <1>5, <2>1 DEF TypeOK, LockVersion, Refuse, RowsToLock, SameVersion
    <3>2. Travel(p)' = Travel(p) /\ MaxVersion(Travel(p))' = MaxVersion(Travel(p))
      BY <3>1, AskType, MaxVersionSame DEF Travel, MaxVersion
    <3> QED
      BY <2>1, <3>1, <3>2 DEF HoldsRows
  <2>2. CASE pc'[p] # "erase"
    BY <1>5, <2>2 DEF TypeOK, LockVersion, Refuse, HoldsRows
  <2> QED
    BY <2>1, <2>2
<1>6. ASSUME ErasePlan(p) PROVE HoldsRows(p)'
  <2>1. rows' = rows /\ version' = version /\ ask' = ask /\ base'[p] = base[p]
        /\ holds'[p] = holds[p] \cup rows[Travel(p)] /\ erased'[p] = rows[Travel(p)]
        /\ base[p] = MaxVersion(Travel(p))
    BY <1>6 DEF TypeOK, ErasePlan, RowsToErase, SaveHolds, HoldsRows
  <2>2. Travel(p)' = Travel(p) /\ MaxVersion(Travel(p))' = MaxVersion(Travel(p))
    BY <2>1, AskType, MaxVersionSame DEF Travel, MaxVersion
  <2> QED
    BY <2>1, <2>2 DEF HoldsRows
<1>7. ASSUME Passes(p) \/ ReadVersion(p) \/ ComputePlan(p) \/ CommitPlan(p) \/ LockRow(p)
                 \/ CommitCompletion(p)
      PROVE  HoldsRows(p)'
  <2>1. pc'[p] \notin {"erase", "commit"}
    BY <1>7 DEF TypeOK, Passes, ReadVersion, ComputePlan, CommitPlan, LockRow, CommitCompletion, Refuse
  <2> QED
    BY <2>1 DEF HoldsRows
<1> QED
  BY Footprint, <1>2, <1>3, <1>4, <1>5, <1>6, <1>7

\* A completion that goes on finds its row, and the row stays pending.
LEMMA CompletionHoldsStep ==
    ASSUME TypeOK, Roles, LocksExclude, Rows, SaveHolds, CompletionHolds, [Next]_vars
    PROVE  CompletionHolds'
<1> SUFFICES ASSUME NEW p \in REQUESTS, pc'[p] = "complete"
             PROVE  ask'[p].row \in (rows'[Travel(p)'] \ completed') \cap holds'[p]
  BY DEF CompletionHolds
<1> USE DEF Goto, tables, transaction, setting
<1>1. ask' = ask /\ Travel(p)' = Travel(p) /\ Travel(p) \in TRAVELS
  <2>1. ask' = ask
    BY Footprint DEF Passes, ReadVersion, ComputePlan, LockVersion, ErasePlan, CommitPlan, LockRow,
                     CommitCompletion, Refuse
  <2> QED
    BY <2>1, AskType DEF Travel
<1>2. CASE UNCHANGED <<ask, pc, reply, tables, transaction>>
  BY <1>1, <1>2 DEF CompletionHolds
<1>3. ASSUME NEW r \in REQUESTS, r # p, Passes(r) \/ ReadVersion(r) \/ ComputePlan(r)
                 \/ LockVersion(r) \/ ErasePlan(r) \/ LockRow(r)
      PROVE  UNCHANGED <<rows, completed>> /\ pc'[p] = pc[p] /\ holds'[p] = holds[p]
  BY <1>3 DEF TypeOK, Passes, ReadVersion, ComputePlan, LockVersion, ErasePlan, LockRow, Refuse, Released
<1>4. ASSUME NEW r \in REQUESTS, r # p, CommitPlan(r) \/ CommitCompletion(r)
      PROVE  ask[p].row \in (rows'[Travel(p)] \ completed') \cap holds'[p]
  <2>1. pc[p] = "complete" /\ holds'[p] = holds[p]
    BY <1>4 DEF TypeOK, CommitPlan, CommitCompletion, Released
  <2>2. ask[p].row \in (rows[Travel(p)] \ completed) \cap holds[p]
    BY <2>1 DEF CompletionHolds
  <2>3. rows'[Travel(p)] = rows[Travel(p)] /\ completed' \cap holds[p] = completed \cap holds[p]
    BY <1>1, <1>4, <2>2, HeldIsUnchanged
  <2> QED
    BY <2>1, <2>2, <2>3
<1>5. ASSUME LockRow(p)
      PROVE  ask[p].row \in (rows'[Travel(p)] \ completed') \cap holds'[p]
  BY <1>5 DEF TypeOK, LockRow, Pending, Refuse
<1>6. ASSUME Passes(p) \/ ReadVersion(p) \/ ComputePlan(p) \/ LockVersion(p) \/ ErasePlan(p)
                 \/ CommitPlan(p) \/ CommitCompletion(p)
      PROVE  FALSE
  BY <1>6 DEF TypeOK, Passes, ReadVersion, ComputePlan, LockVersion, ErasePlan, CommitPlan,
              CommitCompletion, Refuse
<1> QED
  BY Footprint, <1>1, <1>2, <1>3, <1>4, <1>5, <1>6 DEF CompletionHolds

\* Only its own commit lets a save appear in the tables and the audit log.
LEMMA NoTraceStep ==
    ASSUME TypeOK, Roles, NoTrace, [Next]_vars PROVE NoTrace'
<1> USE DEF Goto, tables, transaction, setting, answer
<1>1. CASE UNCHANGED <<ask, pc, reply, tables, transaction>>
  BY <1>1 DEF NoTrace
<1>2. ASSUME NEW r \in REQUESTS, Passes(r) \/ ReadVersion(r) \/ ComputePlan(r)
                 \/ LockVersion(r) \/ ErasePlan(r)
      PROVE  NoTrace'
  BY <1>2 DEF TypeOK, NoTrace, Before, Refusals, Passes, ReadVersion, ComputePlan, LockVersion,
              ErasePlan, Refuse
<1>3. ASSUME NEW r \in REQUESTS, LockRow(r) PROVE NoTrace'
  <2>1. /\ UNCHANGED <<ask, tables>>
        /\ \A q \in REQUESTS \ {r} : pc'[q] = pc[q] /\ reply'[q] = reply[q] /\ doomed'[q] = doomed[q]
    BY <1>3 DEF TypeOK, LockRow, Refuse
  <2>2. r \in REQUESTS /\ pc[r] \in Before
    BY <1>3 DEF LockRow, Refuse, Before
  <2>3. pc'[r] = "complete" => ask[r].row \in rows[Travel(r)]
    BY <1>3 DEF TypeOK, LockRow, Refuse
  <2> QED
    BY <2>1, <2>2, <2>3, AskType DEF NoTrace
<1>4. ASSUME NEW r \in REQUESTS, CommitPlan(r), ~doomed[r] PROVE NoTrace'
  <2>1. pc'[r] = "drop" /\ reply'[r] = "none"
    BY <1>4 DEF TypeOK, Roles, CommitPlan
  <2>2. /\ audit' \subseteq audit \cup {r}
        /\ completed' = completed
        /\ \A t \in TRAVELS : \A id \in rows'[t] : id \in rows[t] \/ id[1] = r
    <3>1. \A id \in IdsOf(r, Travel(r), plan[r]) : id[1] = r
      BY DEF IdsOf
    <3>2. \A t \in TRAVELS : rows'[t] \subseteq rows[t] \cup IdsOf(r, Travel(r), plan[r])
      BY <1>4, AskType DEF TypeOK, CommitPlan
    <3>3. audit' \subseteq audit \cup {r} /\ completed' = completed
      BY <1>4 DEF CommitPlan
    <3> QED
      BY <3>1, <3>2, <3>3
  <2>3. /\ ask' = ask /\ doomed' = doomed
        /\ \A q \in REQUESTS \ {r} : pc'[q] = pc[q] /\ reply'[q] = reply[q]
    BY <1>4 DEF TypeOK, CommitPlan
  <2> QED
    BY <1>4, <2>1, <2>2, <2>3 DEF NoTrace, Before, Refusals
<1>5. ASSUME NEW r \in REQUESTS, CommitCompletion(r), ~doomed[r] PROVE NoTrace'
  <2>1. pc[r] = "complete" /\ pc'[r] = "drop" /\ reply'[r] = "none"
    BY <1>5 DEF TypeOK, Roles, CommitCompletion
  <2>2. audit' \subseteq audit \cup {r} /\ rows' = rows /\ completed' \subseteq completed \cup {ask[r].row}
    BY <1>5 DEF CommitCompletion
  <2>3. /\ ask' = ask /\ doomed' = doomed
        /\ \A q \in REQUESTS \ {r} : pc'[q] = pc[q] /\ reply'[q] = reply[q]
    BY <1>5 DEF TypeOK, CommitCompletion
  <2> QED
    BY <1>5, <2>1, <2>2, <2>3 DEF NoTrace, Before, Refusals
<1>6. ASSUME NEW r \in REQUESTS, doomed[r], CommitPlan(r) \/ CommitCompletion(r) PROVE NoTrace'
  <2>1. pc[r] \in Before /\ pc'[r] = "drop"
    BY <1>6 DEF TypeOK, CommitPlan, CommitCompletion, Before
  <2>2. UNCHANGED <<ask, tables, doomed>>
    BY <1>6 DEF CommitPlan, CommitCompletion
  <2>3. \A q \in REQUESTS \ {r} : pc'[q] = pc[q] /\ reply'[q] = reply[q]
    BY <1>6 DEF TypeOK, CommitPlan, CommitCompletion
  <2> QED
    BY <2>1, <2>2, <2>3 DEF NoTrace
<1> QED
  BY Footprint, <1>1, <1>2, <1>3, <1>4, <1>5, <1>6

\* The newest version of a travel never sinks, and a save that commits raises it
\* above the version it had read.
LEMMA NewestGrows ==
    ASSUME TypeOK, Roles, Rows, SaveHolds, CompletionHolds, NEW r \in REQUESTS,
           CommitPlan(r) \/ CommitCompletion(r), NEW t \in TRAVELS
    PROVE  /\ MaxVersion(t)' \in Nat
           /\ MaxVersion(t) <= MaxVersion(t)'
           /\ CommitPlan(r) /\ ~doomed[r] /\ t = Travel(r) => base[r] < MaxVersion(t)'
<1> USE DEF Goto, tables
<1>1. TypeOK'
  BY TypeStep DEF Next, Step, Work
<1>2. /\ MaxVersion(t) \in Nat
      /\ MaxVersion(t)' \in Nat
      /\ \A id \in rows'[t] : version'[id] <= MaxVersion(t)'
      /\ MaxVersion(t) \in {0} \cup {version[id] : id \in rows[t]}
  <2>1. rows'[t] \in SUBSET IDS /\ version' \in [IDS -> Nat]
    BY <1>1 DEF TypeOK
  <2>2. rows[t] \in SUBSET IDS /\ version \in [IDS -> Nat]
    BY DEF TypeOK
  <2>3. MaxVersion(t)' = Book!Newest(rows'[t], version')
    BY DEF MaxVersion
  <2> QED
    BY <2>1, <2>2, <2>3, NewestIsLargest DEF MaxVersion
<1>3. CASE /\ rows'[t] = rows[t]
           /\ \A id \in rows[t] : version[id] <= version'[id]
           /\ ~(CommitPlan(r) /\ ~doomed[r] /\ t = Travel(r))
  <2>1. \A id \in rows[t] : version[id] \in Nat /\ version'[id] \in Nat
    BY <1>1 DEF TypeOK
  <2>2. ASSUME NEW id \in rows[t], MaxVersion(t) = version[id] PROVE MaxVersion(t) <= MaxVersion(t)'
    <3>1. version[id] <= version'[id] /\ version'[id] <= MaxVersion(t)'
      BY <1>2, <1>3
    <3> QED
      BY <1>2, <2>1, <2>2, <3>1
  <2>3. ASSUME MaxVersion(t) = 0 PROVE MaxVersion(t) <= MaxVersion(t)'
    BY <1>2, <2>3
  <2>4. MaxVersion(t) <= MaxVersion(t)'
    BY <1>2, <2>2, <2>3
  <2>5. CommitPlan(r) /\ ~doomed[r] /\ t = Travel(r) => base[r] < MaxVersion(t)'
    BY <1>3
  <2> QED
    BY <1>2, <2>4, <2>5
<1>4. CASE CommitPlan(r) /\ ~doomed[r] /\ t = Travel(r)
  <2>1. plan[r] # {} /\ r \in SAVERS
    BY <1>4 DEF CommitPlan, Roles
  <2>2. PICK x \in plan[r] : TRUE
    BY <2>1
  <2>3. <<r, t, x>> \in IdsOf(r, t, plan[r]) /\ <<r, t, x>> \in IDS
    BY <1>4, <2>1, <2>2 DEF IdsOf, IDS, TypeOK
  <2>4. <<r, t, x>> \in rows'[t] /\ version'[<<r, t, x>>] = base[r] + 1
    BY <1>4, <2>3 DEF CommitPlan, TypeOK, NextVersion
  <2>5. base[r] = MaxVersion(t) /\ base[r] \in Nat
    BY <1>4 DEF CommitPlan, SaveHolds, HoldsRows, TypeOK
  <2>6. base[r] + 1 <= MaxVersion(t)'
    BY <1>2, <2>4
  <2> QED
    BY <1>2, <2>5, <2>6
<1>5. CASE CommitPlan(r) /\ ~(~doomed[r] /\ t = Travel(r))
  <2>1. rows'[t] = rows[t]
    BY <1>5, AskType DEF TypeOK, CommitPlan
  <2>2. ASSUME NEW id \in rows[t], ~doomed[r] PROVE id \notin IdsOf(r, Travel(r), plan[r])
    BY <1>5, <2>2 DEF Rows, IdsOf
  <2>3. \A id \in rows[t] : version[id] \in Nat /\ version'[id] = version[id]
    BY <1>5, <2>2 DEF TypeOK, CommitPlan
  <2> QED
    BY <1>3, <1>5, <2>1, <2>3
<1>6. CASE CommitCompletion(r)
  <2>1. ~CommitPlan(r)
    BY <1>6 DEF CommitPlan, CommitCompletion
  <2>2. rows'[t] = rows[t] /\ \A id \in rows[t] : version[id] <= version'[id]
    BY <1>6, AskType DEF TypeOK, CommitCompletion
  <2> QED
    BY <1>3, <2>1, <2>2
<1> QED
  BY <1>4, <1>5, <1>6

\* Each committed save read a version that the next one no longer finds newest.
LEMMA SavedIsNewerStep ==
    ASSUME TypeOK, Roles, Rows, SaveHolds, CompletionHolds, NoTrace, SavedIsNewer,
           SecondSaveConflicts, [Next]_vars
    PROVE  SavedIsNewer' /\ SecondSaveConflicts'
<1> USE DEF Goto, tables, transaction, setting
<1>1. ASSUME UNCHANGED <<ask, rows, version, audit>>, \A q \in SAVERS \cap audit : base'[q] = base[q]
      PROVE  SavedIsNewer' /\ SecondSaveConflicts'
  <2>1. \A t \in TRAVELS : MaxVersion(t)' = MaxVersion(t)
    BY <1>1, MaxVersionSame
  <2>2. \A q \in REQUESTS : Travel(q)' = Travel(q) /\ Travel(q) \in TRAVELS
    BY <1>1, AskType DEF Travel
  <2>3. \A q \in SAVERS : MaxVersion(Travel(q))' = MaxVersion(Travel(q))
    BY <2>1, <2>2 DEF MaxVersion, REQUESTS
  <2> QED
    BY <1>1, <2>2, <2>3 DEF SavedIsNewer, SecondSaveConflicts, REQUESTS
<1>2. ASSUME NEW r \in REQUESTS, CommitPlan(r) \/ CommitCompletion(r)
      PROVE  SavedIsNewer' /\ SecondSaveConflicts'
  <2>1. ask' = ask /\ base' = base /\ audit' \subseteq audit \cup {r}
    BY <1>2 DEF CommitPlan, CommitCompletion
  <2>2. \A q \in REQUESTS : Travel(q)' = Travel(q) /\ Travel(q) \in TRAVELS /\ base[q] \in Nat
    BY <2>1, AskType DEF Travel, TypeOK
  <2>3. ASSUME NEW q \in SAVERS \cap audit' PROVE base[q] < MaxVersion(Travel(q))'
    <3>1. q \in REQUESTS
      BY DEF REQUESTS
    <3>2. MaxVersion(Travel(q)) \in Nat
      BY <2>2, <3>1, MaxVersionIsLargest
    <3>3. CASE q \in audit
      <4>1. base[q] < MaxVersion(Travel(q))
        BY <3>3 DEF SavedIsNewer
      <4>2. MaxVersion(Travel(q)) <= MaxVersion(Travel(q))' /\ MaxVersion(Travel(q))' \in Nat
        BY <1>2, <2>2, <3>1, NewestGrows DEF MaxVersion
      <4> QED
        BY <2>2, <3>1, <3>2, <4>1, <4>2
    <3>4. CASE q \notin audit
      <4>1. q = r /\ CommitPlan(r) /\ ~doomed[r]
        BY <1>2, <2>1, <3>4, SettlementAssumption DEF CommitPlan, CommitCompletion, Roles
      <4> QED
        BY <2>2, <4>1, <3>1, NewestGrows DEF MaxVersion
    <3> QED
      BY <3>3, <3>4
  <2>4. ASSUME NEW p \in SAVERS, NEW q \in SAVERS, p # q, Travel(p) = Travel(q), {p, q} \subseteq audit'
        PROVE  base[p] # base[q]
    <3>1. CASE {p, q} \subseteq audit
      BY <2>4, <3>1 DEF SecondSaveConflicts
    <3>2. ASSUME NEW a \in SAVERS, NEW b \in SAVERS, a \notin audit, a \in audit', b \in audit,
                 Travel(a) = Travel(b)
          PROVE  base[a] # base[b]
      <4>1. a = r /\ CommitPlan(r)
        BY <1>2, <2>1, <3>2, SettlementAssumption DEF CommitPlan, CommitCompletion, Roles
      <4>2. base[a] = MaxVersion(Travel(a))
        BY <4>1 DEF CommitPlan, SaveHolds, HoldsRows
      <4>3. base[b] < MaxVersion(Travel(b))
        BY <3>2 DEF SavedIsNewer
      <4>4. base[b] \in Nat /\ base[a] \in Nat
        BY <2>2 DEF REQUESTS
      <4> QED
        BY <3>2, <4>2, <4>3, <4>4
    <3>3. p \in audit \/ q \in audit
      BY <2>1, <2>4
    <3> QED
      BY <2>4, <3>1, <3>2, <3>3
  <2>5. SavedIsNewer'
    BY <2>1, <2>2, <2>3 DEF SavedIsNewer, MaxVersion, REQUESTS
  <2>6. SecondSaveConflicts'
    BY <2>1, <2>2, <2>4 DEF SecondSaveConflicts, REQUESTS
  <2> QED
    BY <2>5, <2>6
<1>3. CASE UNCHANGED <<ask, pc, reply, tables, transaction>>
  BY <1>1, <1>3
<1>4. ASSUME NEW r \in REQUESTS, ReadVersion(r)
      PROVE  SavedIsNewer' /\ SecondSaveConflicts'
  <2>1. r \notin audit
    BY <1>4 DEF ReadVersion, NoTrace, Before
  <2>2. UNCHANGED <<ask, rows, version, audit>> /\ \A q \in SAVERS \cap audit : base'[q] = base[q]
    BY <1>4, <2>1 DEF ReadVersion, TypeOK
  <2> QED
    BY <1>1, <2>2
<1>5. ASSUME NEW r \in REQUESTS,
             Passes(r) \/ ComputePlan(r) \/ LockVersion(r) \/ ErasePlan(r) \/ LockRow(r)
      PROVE  UNCHANGED <<ask, rows, version, audit, base>>
  BY <1>5 DEF Passes, ComputePlan, LockVersion, ErasePlan, LockRow, Refuse
<1> QED
  BY Footprint, <1>1, <1>2, <1>3, <1>4, <1>5

\* A request that goes on after its commit has stored what it will answer.
LEMMA DoneStep ==
    ASSUME TypeOK, Roles, Done, [Next]_vars PROVE Done'
<1> USE SettlementAssumption DEF TypeOK, Done, Roles, Goto, Refuse, tables, transaction, setting, answer
<1>1. ASSUME NEW r \in REQUESTS, Arrive(r) PROVE Done'
  BY <1>1 DEF Arrive
<1>2. ASSUME NEW r \in REQUESTS, CheckKey(r) PROVE Done'
  BY <1>2 DEF CheckKey, Answer
<1>3. ASSUME NEW r \in REQUESTS, ReadVersion(r) \/ ComputePlan(r) PROVE Done'
  BY <1>3 DEF ReadVersion, ComputePlan
<1>9. ASSUME NEW r \in REQUESTS, LockVersion(r) PROVE Done'
  BY <1>9 DEF LockVersion
<1>10. ASSUME NEW r \in REQUESTS, ErasePlan(r) PROVE Done'
  BY ZenonT(40), <1>10 DEF ErasePlan
<1>4. ASSUME NEW r \in REQUESTS, CommitPlan(r) PROVE Done'
  BY <1>4 DEF CommitPlan
<1>5. ASSUME NEW r \in REQUESTS, LockRow(r) PROVE Done'
  BY <1>5 DEF LockRow, Pending
<1>6. ASSUME NEW r \in REQUESTS, CommitCompletion(r) PROVE Done'
  BY <1>6 DEF CommitCompletion
<1>7. ASSUME NEW r \in REQUESTS, DropSummary(r) \/ Lookup(r) \/ QuerySummary(r) PROVE Done'
  BY <1>7 DEF DropSummary, Lookup, QuerySummary, Answer
<1>8. ASSUME UNCHANGED <<ask, pc, reply, tables, transaction>> PROVE Done'
  BY <1>8
<1> QED
  BY <1>1, <1>2, <1>3, <1>4, <1>5, <1>6, <1>7, <1>8, <1>9, <1>10
     DEF Next, Step, Work, WriteSummary, WriteReplay, ChangeExpenses, Expire, vars

-----------------------------------------------------------------------------

\* Nothing is done and nothing stored by a request at the start.
LEMMA AlwaysInit ==
    ASSUME Init PROVE Always
<1>1. NoTrace
  <2>1. \A t \in TRAVELS : \A id \in rows[t] : id[1] = Earlier
    BY DEF Init, IdsOf
  <2> QED
    BY <2>1, SettlementAssumption DEF Init, NoTrace
<1>2. Roles /\ LocksReturned /\ Done
  BY DEF Init, Roles, LocksReturned, Done, REQUESTS
<1> QED
  BY <1>1, <1>2, TypeInit DEF Always

\* What needs no lock holds whatever plans there are.
LEMMA AlwaysHolds == Spec => []Always
<1>1. Init => Always
  BY AlwaysInit
<1>2. Always /\ [Next]_vars => Always'
  BY TypeStep, RolesStep, LocksReturnedStep, NoTraceStep, DoneStep DEF Always
<1> QED
  BY <1>1, <1>2, PTL DEF Spec

\* Every value stays in its type: in particular no version is ever negative and
\* no row is stored that no save could have stored.
THEOREM TypeCorrect == Spec => []TypeOK
<1>1. Always => TypeOK
  BY DEF Always
<1> QED
  BY <1>1, AlwaysHolds, PTL

\* What a request answers is stored, unless its transaction was doomed: whatever
\* plans and locks there are.
THEOREM Truthful == Spec => []AnsweredIsStored
<1>1. Always => AnsweredIsStored
  BY DEF Always, Done, AnsweredIsStored, REQUESTS
<1> QED
  BY <1>1, AlwaysHolds, PTL

\* A refused request, and one whose transaction was rolled back, has left neither
\* an entry nor a row nor a lock, whatever plans and locks there are.
THEOREM FailedIsGone == Spec => []FailedLeavesNoTrace
<1>1. Always => FailedLeavesNoTrace
  <2> SUFFICES ASSUME Always, NEW r \in REQUESTS, Failed(r)
               PROVE  /\ r \notin audit
                      /\ \A t \in TRAVELS : \A id \in rows[t] : id[1] # r
                      /\ holds[r] = {}
    BY DEF FailedLeavesNoTrace
  <2>1. reply[r] \in Refusals \/ doomed[r]
    BY DEF Failed, Refusals
  <2>2. pc[r] \notin {"erase", "commit", "complete"}
    BY DEF Always, Roles, Failed
  <2> QED
    BY <2>1, <2>2 DEF Always, NoTrace, LocksReturned
<1> QED
  BY <1>1, AlwaysHolds, PTL

\* A travel that has a plan keeps having one.
LEMMA SomePlanStep ==
    ASSUME Always, SomePlan, [Next]_vars PROVE SomePlan'
<1> USE DEF Goto, tables, transaction
<1>1. ASSUME NEW r \in REQUESTS, CommitPlan(r) PROVE SomePlan'
  <2>1. Travel(r) \in TRAVELS /\ plan[r] # {}
    BY <1>1, AskType DEF CommitPlan, Always, Roles
  <2>2. IdsOf(r, Travel(r), plan[r]) # {}
    <3>1. PICK x \in plan[r] : TRUE
      BY <2>1
    <3>2. <<r, Travel(r), x>> \in IdsOf(r, Travel(r), plan[r])
      BY <3>1 DEF IdsOf
    <3> QED
      BY <3>2
  <2>3. \A t \in TRAVELS : rows'[t] = rows[t] \/ IdsOf(r, Travel(r), plan[r]) \subseteq rows'[t]
    BY <1>1, <2>1 DEF Always, TypeOK, CommitPlan
  <2> QED
    BY <2>2, <2>3 DEF SomePlan
<1>2. ASSUME NEW r \in REQUESTS,
             Passes(r) \/ ReadVersion(r) \/ ComputePlan(r) \/ LockVersion(r) \/ ErasePlan(r)
                 \/ LockRow(r) \/ CommitCompletion(r)
      PROVE  SomePlan'
  BY <1>2 DEF SomePlan, Passes, ReadVersion, ComputePlan, LockVersion, ErasePlan, LockRow,
              CommitCompletion, Refuse
<1>3. CASE UNCHANGED <<ask, pc, reply, tables, transaction>>
  BY <1>3 DEF SomePlan
<1> QED
  BY Footprint, <1>1, <1>2, <1>3 DEF Always

\* Where every travel starts with a plan there is always a row to lock.
THEOREM StoredPlansKeepApart ==
    ASSUME PlansStored PROVE Spec => []FirstSavesApart
<1>1. Init => SomePlan
  <2> SUFFICES ASSUME Init, NEW t \in TRAVELS PROVE rows[t] # {}
    BY DEF SomePlan
  <2>1. PICK p \in FIRST_PLANS : rows[t] = IdsOf(Earlier, t, p)
    BY DEF Init
  <2>2. PICK x \in p : TRUE
    BY DEF PlansStored
  <2>3. <<Earlier, t, x>> \in rows[t]
    BY <2>1, <2>2 DEF IdsOf
  <2> QED
    BY <2>3
<1>2. Always /\ SomePlan /\ [Next]_vars => SomePlan'
  BY SomePlanStep
<1>3. Always /\ SomePlan => FirstSavesApart
  BY AskType DEF Always, SomePlan, FirstSavesApart, REQUESTS
<1> QED
  BY <1>1, <1>2, <1>3, AlwaysHolds, PTL DEF Spec

-----------------------------------------------------------------------------

\* No lock is held and nothing is done at the start.
LEMMA IInvInit ==
    ASSUME Init PROVE IInv
<1>1. \A t \in TRAVELS : \A id \in rows[t] : id[1] = Earlier /\ id[2] = t
  BY DEF Init, IdsOf
<1>2. LocksExclude /\ SaveHolds /\ CompletionHolds /\ SavedIsNewer /\ SecondSaveConflicts
  BY DEF Init, LocksExclude, SaveHolds, HoldsRows, CompletionHolds, SavedIsNewer, SecondSaveConflicts,
         REQUESTS
<1> QED
  BY <1>1, <1>2, AlwaysInit DEF IInv, Rows, OnePlanStored

\* Every step keeps the whole invariant, unless two saves of a travel without a
\* plan are past the version check.
LEMMA IInvStep ==
    ASSUME IInv, FirstSavesApart, [Next]_vars PROVE IInv'
  BY TypeStep, RolesStep, LocksReturnedStep, LocksExcludeStep, RowsStep, SaveHoldsStep,
     CompletionHoldsStep, NoTraceStep, SavedIsNewerStep, DoneStep DEF IInv, Always

\* The whole invariant holds as long as first saves keep apart.
LEMMA Inductive == Spec /\ []FirstSavesApart => []IInv
<1>1. Init => IInv
  BY IInvInit
<1>2. IInv /\ FirstSavesApart /\ [Next]_vars => IInv'
  BY IInvStep
<1> QED
  BY <1>1, <1>2, PTL DEF Spec

\* The rows stored for a travel all come from one save, as long as no two saves of
\* a travel without a plan are past the version check together.
THEOREM OnePlan == Spec /\ []FirstSavesApart => []OnePlanStored
<1>1. IInv => OnePlanStored
  BY DEF IInv
<1> QED
  BY <1>1, Inductive, PTL

\* Of two saves on top of the same version at most one commits, under the same
\* condition.
THEOREM Conflict == Spec /\ []FirstSavesApart => []SecondSaveConflicts
<1>1. IInv => SecondSaveConflicts
  BY DEF IInv
<1> QED
  BY <1>1, Inductive, PTL

\* A save erases no row it has not seen in its present version, under the same
\* condition.
THEOREM ErasesSeen == Spec /\ []FirstSavesApart => []ErasesOnlyWhatItSaw
<1>1. IInv => ErasesOnlyWhatItSaw
  <2> SUFFICES ASSUME IInv, NEW r \in SAVERS, pc[r] = "commit", NEW id \in erased[r]
               PROVE  version[id] <= base[r]
    BY DEF ErasesOnlyWhatItSaw
  <2>1. r \in REQUESTS
    BY DEF REQUESTS
  <2> QED
    BY <2>1, AskType, MaxVersionIsLargest DEF IInv, Always, SaveHolds, HoldsRows
<1> QED
  BY <1>1, Inductive, PTL

-----------------------------------------------------------------------------

\* The tables start as the book does.
LEMMA BookInit == Init => Book!Init
  BY DEF Init, Book!Init

\* The commit of a save replaces a plan, the commit of a completion completes a
\* settlement, and no other step touches the book.
LEMMA BookStep ==
    ASSUME IInv, [Next]_vars PROVE [Book!Next]_(Book!bookVars)
<1> USE DEF Goto, tables, transaction
<1>1. ASSUME NEW r \in REQUESTS, CommitPlan(r), ~doomed[r] PROVE Book!Next
  <2> DEFINE t == Travel(r)
             new == IdsOf(r, Travel(r), plan[r])
  <2>1. r \in SAVERS /\ plan[r] # {} /\ t \in TRAVELS
    BY <1>1, AskType DEF CommitPlan, IInv, Always, Roles
  <2>2. new \in SUBSET IDS
    BY <2>1 DEF IInv, Always, TypeOK, IdsOf, IDS
  <2>3. rows' = [rows EXCEPT ![t] = new]
    BY <1>1, <2>1 DEF CommitPlan, IInv, Always, SaveHolds, HoldsRows, TypeOK
  <2>4. new # {}
    <3>1. PICK x \in plan[r] : TRUE
      BY <2>1
    <3>2. <<r, Travel(r), x>> \in new
      BY <3>1 DEF IdsOf
    <3> QED
      BY <3>2
  <2>5. new \cap (rows[t] \cup completed) = {}
    <3>1. \A id \in new : id[1] = r
      BY DEF IdsOf
    <3>2. \A id \in rows[t] \cup completed : id[1] # r
      BY <1>1, <2>1 DEF CommitPlan, IInv, Always, NoTrace, Before
    <3> QED
      BY <3>1, <3>2
  <2>6. version' = [id \in IDS |-> IF id \in new THEN Book!Newest(rows[t], version) + 1 ELSE version[id]]
    <3>1. base[r] = Book!Newest(rows[t], version)
      BY <1>1, <2>1 DEF CommitPlan, IInv, Always, SaveHolds, HoldsRows, MaxVersion
    <3> QED
      BY <1>1, <3>1 DEF CommitPlan, NextVersion
  <2>7. completed' = completed
    BY <1>1 DEF CommitPlan
  <2> HIDE DEF t, new
  <2>8. Book!Replace(t, new)
    BY <2>3, <2>4, <2>5, <2>6, <2>7 DEF Book!Replace
  <2> QED
    BY <2>1, <2>2, <2>8 DEF Book!Next
<1>2. ASSUME NEW r \in REQUESTS, CommitCompletion(r), ~doomed[r] PROVE Book!Next
  <2>1. Travel(r) \in TRAVELS /\ ask[r].row \in IDS
    BY AskType DEF IInv, Always
  <2>2. Book!Complete(Travel(r), ask[r].row)
    BY <1>2 DEF Book!Complete, CommitCompletion, IInv, CompletionHolds
  <2> QED
    BY <2>1, <2>2 DEF Book!Next
<1>3. ASSUME NEW r \in REQUESTS, doomed[r], CommitPlan(r) \/ CommitCompletion(r)
      PROVE  UNCHANGED Book!bookVars
  BY <1>3 DEF CommitPlan, CommitCompletion, Book!bookVars
<1>4. ASSUME NEW r \in REQUESTS,
             Passes(r) \/ ReadVersion(r) \/ ComputePlan(r) \/ LockVersion(r) \/ ErasePlan(r) \/ LockRow(r)
      PROVE  UNCHANGED Book!bookVars
  BY <1>4 DEF Passes, ReadVersion, ComputePlan, LockVersion, ErasePlan, LockRow, Refuse, Book!bookVars
<1>5. CASE UNCHANGED <<ask, pc, reply, tables, transaction>>
  BY <1>5 DEF Book!bookVars
<1> QED
  BY Footprint, <1>1, <1>2, <1>3, <1>4, <1>5 DEF IInv, Always

\* The service with its transactions, locks and overlapping requests implements
\* the book, as long as no two saves of a travel without a plan are past the
\* version check together: by StoredPlansKeepApart that never happens to a travel
\* with a plan.
THEOREM Implementation == Spec /\ []FirstSavesApart => ImplementsBook
<1>1. IInv /\ [Next]_vars => [Book!Next]_(Book!bookVars)
  BY BookStep
<1> QED
  BY <1>1, BookInit, Inductive, PTL DEF Spec, ImplementsBook, Book!Spec

-----------------------------------------------------------------------------
(* Sums. *)

\* A set of numbers that is not empty has a least element.
LEMMA Least == ASSUME NEW T, T \subseteq Nat, T # {} PROVE \E n \in T : \A k \in T : n <= k
<1> DEFINE less == OpToRel(<, Nat)
<1>1. PICK n \in T : \A k \in T : <<k, n>> \notin less
  <2>1. IsWellFoundedOn(less, Nat)
    BY NatLessThanWellFounded
  <2> HIDE DEF less
  <2> QED BY <2>1, WFMin
<1>2. ASSUME NEW k \in T PROVE ~(k < n)
  BY <1>1 DEF OpToRel
<1> QED BY <1>2

\* F sums the values of g over each subset of S, in the order of the folds.
Sums(F, g, S) ==
    F = [s \in SUBSET S |-> IF s = {} THEN 0
                            ELSE g[CHOOSE x \in s : TRUE] + F[s \ {CHOOSE x \in s : TRUE}]]

\* Such a function exists, and has numbers as values.
LEMMA SumsExist ==
    ASSUME NEW S, IsFiniteSet(S), NEW g, \A x \in S : g[x] \in Int
    PROVE  \E F \in [SUBSET S -> Int] : Sums(F, g, S)
<1> DEFINE Rest(s) == s \ {CHOOSE x \in s : TRUE}
           Adds(F, s) == F[s] = IF s = {} THEN 0 ELSE g[CHOOSE x \in s : TRUE] + F[Rest(s)]
           Known(n) == \E F \in [SUBSET S -> Int] : \A s \in SUBSET S : Cardinality(s) <= n => Adds(F, s)
           unknown == {n \in Nat : ~Known(n)}
<1>1. ASSUME NEW s \in SUBSET S, s # {}
      PROVE  /\ IsFiniteSet(s) /\ Cardinality(s) \in Nat /\ Cardinality(s) # 0
             /\ (CHOOSE x \in s : TRUE) \in s /\ Rest(s) \in SUBSET S
             /\ Cardinality(Rest(s)) = Cardinality(s) - 1
  <2>1. IsFiniteSet(s) /\ (CHOOSE x \in s : TRUE) \in s
    BY <1>1, FS_Subset
  <2> QED BY <1>1, <2>1, FS_RemoveElement, FS_EmptySet, FS_CardinalityType
<1>2. Known(0)
  <2> DEFINE F == [s \in SUBSET S |-> 0]
  <2>1. ASSUME NEW s \in SUBSET S, Cardinality(s) <= 0 PROVE Adds(F, s)
    <3>1. s = {}
      <4> SUFFICES ASSUME s # {} PROVE FALSE
        OBVIOUS
      <4>1. Cardinality(s) \in Nat /\ Cardinality(s) # 0
        BY <1>1
      <4> QED BY <2>1, <4>1
    <3> QED BY <3>1
  <2>2. F \in [SUBSET S -> Int]
    OBVIOUS
  <2> HIDE DEF F, Adds
  <2> QED BY <2>1, <2>2
<1>3. ASSUME NEW n \in Nat, Known(n) PROVE Known(n + 1)
  <2>1. PICK F \in [SUBSET S -> Int] : \A s \in SUBSET S : Cardinality(s) <= n => Adds(F, s)
    BY <1>3
  <2> DEFINE G == [s \in SUBSET S |-> IF s = {} THEN 0 ELSE g[CHOOSE x \in s : TRUE] + F[Rest(s)]]
  <2>2. G \in [SUBSET S -> Int]
    <3>1. ASSUME NEW s \in SUBSET S, s # {} PROVE g[CHOOSE x \in s : TRUE] + F[Rest(s)] \in Int
      <4>1. g[CHOOSE x \in s : TRUE] \in Int /\ F[Rest(s)] \in Int
        BY <1>1, <3>1
      <4> QED BY <4>1
    <3> QED BY <3>1
  <2>3. ASSUME NEW s \in SUBSET S, Cardinality(s) <= n PROVE G[s] = F[s]
    BY <2>1, <2>3
  <2>4. ASSUME NEW s \in SUBSET S, Cardinality(s) <= n + 1 PROVE Adds(G, s)
    <3>1. CASE s = {}
      BY <3>1
    <3>2. CASE s # {}
      <4>1. Rest(s) \in SUBSET S /\ Cardinality(Rest(s)) <= n
        BY <1>1, <2>4, <3>2
      <4>2. G[Rest(s)] = F[Rest(s)]
        BY <2>3, <4>1
      <4> QED BY <3>2, <4>2
    <3> QED BY <3>1, <3>2
  <2> HIDE DEF G, Adds
  <2> QED BY <2>2, <2>4
<1>4. unknown = {}
  <2> HIDE DEF Known
  <2> SUFFICES ASSUME unknown # {} PROVE FALSE
    OBVIOUS
  <2>1. PICK n \in unknown : \A k \in unknown : n <= k
    BY Least
  <2>2. n # 0 /\ n \in Nat
    BY <1>2
  <2>3. n - 1 \in Nat /\ n - 1 \notin unknown
    BY <2>1, <2>2
  <2>4. Known((n - 1) + 1)
    BY <2>3, <1>3
  <2> QED BY <2>2, <2>4
<1>5. Cardinality(S) \in Nat
  BY FS_CardinalityType
<1>6. PICK F \in [SUBSET S -> Int] : \A s \in SUBSET S : Cardinality(s) <= Cardinality(S) => Adds(F, s)
  BY <1>4, <1>5
<1>7. \A s \in SUBSET S : Adds(F, s)
  BY <1>6, FS_Subset
<1>8. F = [s \in SUBSET S |-> IF s = {} THEN 0 ELSE g[CHOOSE x \in s : TRUE] + F[Rest(s)]]
  BY <1>7
<1> QED BY <1>8 DEF Sums

\* Two sums agree on a set, whatever larger sets they are defined on.
LEMMA SumOfSame ==
    ASSUME NEW S, NEW T, NEW F, NEW G, NEW g, NEW h, Sums(F, g, S), Sums(G, h, T),
           NEW U, IsFiniteSet(U), U \subseteq S, U \subseteq T, \A x \in U : g[x] = h[x]
    PROVE  F[U] = G[U]
<1> DEFINE apart == {s \in SUBSET U : F[s] # G[s]}
<1> SUFFICES ASSUME apart # {} PROVE FALSE
  OBVIOUS
<1>1. PICK s \in apart : \A t \in apart : <<t, s>> \notin StrictSubsetOrdering(U)
  <2>1. IsWellFoundedOn(StrictSubsetOrdering(U), SUBSET U) /\ apart \subseteq SUBSET U
    BY FS_StrictSubsetOrderingWellFounded, FS_FiniteSubsetsOfFinite
  <2> HIDE DEF apart
  <2> QED BY <2>1, WFMin
<1> DEFINE c == CHOOSE x \in s : TRUE
<1>2. /\ F[s] = IF s = {} THEN 0 ELSE g[c] + F[s \ {c}]
      /\ G[s] = IF s = {} THEN 0 ELSE h[c] + G[s \ {c}]
  <2>1. s \in SUBSET S /\ s \in SUBSET T
    OBVIOUS
  <2> QED BY <2>1 DEF Sums
<1>3. s # {}
  BY <1>2
<1>4. c \in s
  BY <1>3
<1> HIDE DEF c
<1>5. s \ {c} \notin apart
  <2>1. s \in SUBSET U /\ s \ {c} \in SUBSET U /\ s \ {c} # s
    BY <1>4
  <2>2. <<s \ {c}, s>> \in StrictSubsetOrdering(U)
    BY <2>1 DEF StrictSubsetOrdering
  <2> HIDE DEF apart
  <2> QED BY <1>1, <2>2
<1>6. F[s \ {c}] = G[s \ {c}] /\ g[c] = h[c]
  BY <1>4, <1>5
<1> QED BY <1>2, <1>3, <1>6

\* The sum of the values of g over S: what MapThenSumSet computes.
Total(g, S) == (CHOOSE F : Sums(F, g, S))[S]

\* Total is what any such function finds.
Finds(F, g, S) ==
    F \in [SUBSET S -> Int] /\ Sums(F, g, S) /\ \A T \in SUBSET S : Total(g, T) = F[T]

\* A sum over a finite set is found by adding up its subsets.
LEMMA TotalSums ==
    ASSUME NEW S, IsFiniteSet(S), NEW g, \A x \in S : g[x] \in Int
    PROVE  \E F : Finds(F, g, S)
<1>1. PICK F \in [SUBSET S -> Int] : Sums(F, g, S)
  BY SumsExist
<1>2. ASSUME NEW T \in SUBSET S PROVE Total(g, T) = F[T]
  <2>1. IsFiniteSet(T) /\ \A x \in T : g[x] \in Int
    BY FS_Subset
  <2>2. \E G : Sums(G, g, T)
    BY <2>1, SumsExist
  <2> DEFINE G == CHOOSE G : Sums(G, g, T)
  <2>3. Sums(G, g, T)
    BY <2>2
  <2> HIDE DEF G
  <2>4. G[T] = F[T]
    BY <1>1, <2>1, <2>3, SumOfSame
  <2> QED BY <2>4 DEF Total, G
<1>3. \A T \in SUBSET S : Total(g, T) = F[T]
  BY <1>2
<1>4. Finds(F, g, S)
  BY <1>1, <1>3 DEF Finds
<1> QED BY <1>4

\* Any element may be taken out of a sum.
LEMMA SumWithout ==
    ASSUME NEW S, IsFiniteSet(S), NEW g, \A x \in S : g[x] \in Int,
           NEW F, Finds(F, g, S), NEW a \in S
    PROVE  F[S] = g[a] + F[S \ {a}]
<1> DEFINE wrong == {s \in SUBSET S : \E b \in s : F[s] # g[b] + F[s \ {b}]}
<1> SUFFICES ASSUME wrong # {} PROVE FALSE
  OBVIOUS
<1>1. PICK s \in wrong : \A t \in wrong : <<t, s>> \notin StrictSubsetOrdering(S)
  <2>1. IsWellFoundedOn(StrictSubsetOrdering(S), SUBSET S) /\ wrong \subseteq SUBSET S
    BY FS_StrictSubsetOrderingWellFounded, FS_FiniteSubsetsOfFinite
  <2> HIDE DEF wrong
  <2> QED BY <2>1, WFMin
<1>2. PICK b \in s : F[s] # g[b] + F[s \ {b}]
  OBVIOUS
<1> DEFINE c == CHOOSE x \in s : TRUE
<1>3. s \in SUBSET S /\ c \in s
  OBVIOUS
<1>4. F[s] = g[c] + F[s \ {c}]
  BY <1>2, <1>3 DEF Finds, Sums
<1> HIDE DEF c
<1>5. b # c
  BY <1>2, <1>4
<1>6. ASSUME NEW x \in s PROVE s \ {x} \notin wrong
  <2>1. s \in SUBSET S /\ s \ {x} \in SUBSET S /\ s \ {x} # s
    BY <1>3
  <2>2. <<s \ {x}, s>> \in StrictSubsetOrdering(S)
    BY <2>1 DEF StrictSubsetOrdering
  <2> HIDE DEF wrong
  <2> QED BY <1>1, <2>2
<1>7. F[s \ {c}] = g[b] + F[(s \ {c}) \ {b}] /\ F[s \ {b}] = g[c] + F[(s \ {b}) \ {c}]
  BY <1>2, <1>3, <1>5, <1>6
<1>8. (s \ {c}) \ {b} = (s \ {b}) \ {c}
  OBVIOUS
<1>9. /\ g[b] \in Int /\ g[c] \in Int
      /\ F[(s \ {b}) \ {c}] \in Int
  BY <1>2, <1>3 DEF Finds
<1>10. F[s] = g[b] + F[s \ {b}]
  <2> DEFINE r == F[(s \ {b}) \ {c}]
             x == g[b]
             y == g[c]
  <2>1. F[s \ {c}] = x + r /\ F[s \ {b}] = y + r
    BY <1>7, <1>8
  <2>2. F[s] = y + F[s \ {c}] /\ x \in Int /\ y \in Int /\ r \in Int
    BY <1>4, <1>9
  <2> HIDE DEF r, x, y
  <2>3. F[s] = x + F[s \ {b}]
    BY <2>1, <2>2
  <2> QED BY <2>3 DEF x
<1> QED BY <1>2, <1>10

\* Any member of the set may be added last.
LEMMA TotalWithout ==
    ASSUME NEW S, IsFiniteSet(S), NEW g, \A x \in S : g[x] \in Int
    PROVE  /\ Total(g, S) \in Int
           /\ \A a \in S : Total(g, S) = g[a] + Total(g, S \ {a})
           /\ S = {} => Total(g, S) = 0
<1>1. PICK F : Finds(F, g, S)
  BY TotalSums
<1>2. ASSUME NEW a \in S PROVE F[S] = g[a] + F[S \ {a}]
  BY <1>1, SumWithout
<1>3. S = {} => F[S] = 0
  BY <1>1 DEF Finds, Sums
<1> QED BY <1>1, <1>2, <1>3 DEF Finds

\* Equal summands have equal sums.
LEMMA TotalOfSame ==
    ASSUME NEW S, IsFiniteSet(S), NEW g, NEW h, \A x \in S : g[x] \in Int /\ g[x] = h[x]
    PROVE  Total(g, S) = Total(h, S)
<1>1. \A x \in S : g[x] \in Int /\ h[x] \in Int /\ g[x] = h[x]
  OBVIOUS
<1>2. S \in SUBSET S
  OBVIOUS
<1>3. PICK F : Finds(F, g, S)
  BY <1>1, TotalSums
<1>4. PICK G : Finds(G, h, S)
  BY <1>1, TotalSums
<1>5. F[S] = G[S]
  BY <1>1, <1>2, <1>3, <1>4, SumOfSame DEF Finds
<1> QED BY <1>2, <1>3, <1>4, <1>5 DEF Finds

\* A sum of values none of which exceeds e, in the direction of the sign.
LEMMA TotalBound ==
    ASSUME NEW S, IsFiniteSet(S), NEW g, NEW e \in Int, NEW sign \in {1, -1},
           \A x \in S : g[x] \in Int /\ sign * g[x] <= e
    PROVE  sign * Total(g, S) <= Cardinality(S) * e
<1> DEFINE Small(T) == sign * Total(g, T) <= Cardinality(T) * e
           large == {T \in SUBSET S : ~Small(T)}
<1> SUFFICES ASSUME large # {} PROVE FALSE
  <2>1. S \in SUBSET S
    OBVIOUS
  <2> QED BY <2>1
<1>1. PICK T \in large : \A U \in large : <<U, T>> \notin StrictSubsetOrdering(S)
  <2>1. IsWellFoundedOn(StrictSubsetOrdering(S), SUBSET S) /\ large \subseteq SUBSET S
    BY FS_StrictSubsetOrderingWellFounded, FS_FiniteSubsetsOfFinite
  <2> HIDE DEF large
  <2> QED BY <2>1, WFMin
<1>2. T \in SUBSET S /\ ~Small(T) /\ IsFiniteSet(T) /\ \A x \in T : g[x] \in Int
  BY FS_Subset
<1>3. T # {}
  BY <1>2, TotalWithout, FS_EmptySet
<1>4. PICK a \in T : TRUE
  BY <1>3
<1>5. Small(T \ {a})
  <2>1. T \ {a} \in SUBSET S /\ T \ {a} # T
    BY <1>2, <1>4
  <2>2. <<T \ {a}, T>> \in StrictSubsetOrdering(S)
    BY <1>2, <2>1 DEF StrictSubsetOrdering
  <2> HIDE DEF Small
  <2> QED BY <1>1, <2>1, <2>2
<1>6. /\ Total(g, T) = g[a] + Total(g, T \ {a}) /\ g[a] \in Int /\ sign * g[a] <= e
      /\ Cardinality(T \ {a}) = Cardinality(T) - 1 /\ Cardinality(T) \in Nat
      /\ Total(g, T \ {a}) \in Int
  <2>1. IsFiniteSet(T \ {a})
    BY <1>2, FS_RemoveElement
  <2> QED BY <1>2, <1>4, <2>1, TotalWithout, FS_RemoveElement, FS_CardinalityType
<1> DEFINE n == Cardinality(T)
           x == Total(g, T \ {a})
           y == g[a]
<1>7. /\ sign * x <= (n - 1) * e /\ Total(g, T) = y + x
      /\ n \in Nat /\ x \in Int /\ y \in Int /\ sign * y <= e
  BY <1>5, <1>6
<1> HIDE DEF n, x, y
<1>8. (n - 1) * e = n * e - e /\ n * e \in Int
  BY <1>7
<1>9. sign * (y + x) <= n * e
  <2>1. CASE sign = 1
    BY <1>7, <1>8, <2>1
  <2>2. CASE sign = -1
    BY <1>7, <1>8, <2>2
  <2> QED BY <2>1, <2>2
<1> QED BY <1>2, <1>7, <1>9 DEF n

\* One more element in a sum.
LEMMA TotalWith ==
    ASSUME NEW S, IsFiniteSet(S), NEW g, NEW a, a \notin S, \A x \in S \cup {a} : g[x] \in Int
    PROVE  Total(g, S \cup {a}) = g[a] + Total(g, S)
<1>1. IsFiniteSet(S \cup {a}) /\ (S \cup {a}) \ {a} = S /\ a \in S \cup {a}
  BY FS_AddElement
<1> QED BY <1>1, TotalWithout

-----------------------------------------------------------------------------
(* The transfers that settle a travel. *)

\* Nobody is listed twice.
Listed ==
    /\ \A x, y \in DOMAIN debtors : debtors[x] = debtors[y] => x = y
    /\ \A x, y \in DOMAIN creditors : creditors[x] = creditors[y] => x = y

\* Every transfer lies behind the two indexes, and is worth more than EPSILON.
Behind ==
    \A k \in DOMAIN settlements :
        /\ settlements[k].amount > EPSILON
        /\ \E x \in DOMAIN debtors, y \in DOMAIN creditors :
            /\ settlements[k].from = debtors[x] /\ settlements[k].to = creditors[y]
            /\ x <= i /\ y <= j /\ x + y < i + j

\* Each pair is paid once.
OncePerPair ==
    \A k, l \in DOMAIN settlements :
        settlements[k].from = settlements[l].from /\ settlements[k].to = settlements[l].to
            => k = l

\* Each transfer moves an index, and the last may not be the one that moves both
\* past the end.
Few ==
    /\ Len(settlements) <= (i - 1) + (j - 1)
    /\ settlements # <<>> => Len(settlements) < Len(debtors) + Len(creditors)

AlgorithmInv == PlanTypes /\ Listed /\ Behind /\ OncePerPair /\ Few

\* A sorted list has the members of its set, each once.
LEMMA SortedType ==
    ASSUME NEW S \in SUBSET MEMBERS, NEW b, NEW s \in SortedDown(S, b)
    PROVE  /\ s \in Seq(S)
           /\ \A x, y \in DOMAIN s : s[x] = s[y] => x = y
<1>1. Cardinality(S) \in Nat
  BY AlgorithmAssumption, FS_Subset, FS_CardinalityType
<1>2. s \in [1 .. Cardinality(S) -> S] /\ \A x, y \in DOMAIN s : s[x] = s[y] => x = y
  BY DEF SortedDown
<1> QED
  BY <1>1, <1>2

\* Holds of the empty list of transfers.
LEMMA AlgorithmInit == ASSUME PlanInit PROVE AlgorithmInv
<1>1. Owing(balance) \in SUBSET MEMBERS /\ Owed(balance) \in SUBSET MEMBERS
  BY DEF Owing, Owed
<1>2. debtors \in Seq(Owing(balance)) /\ creditors \in Seq(Owed(balance)) /\ Listed
  BY <1>1, SortedType DEF PlanInit, Listed
<1>3. left \in [MEMBERS -> Nat]
  BY AlgorithmAssumption DEF PlanInit, Abs
<1>4. settlements \in Seq(Transfer) /\ DOMAIN settlements = {} /\ Len(settlements) = 0
  BY DEF PlanInit
<1>5. i \in 1 .. Len(debtors) + 1 /\ j \in 1 .. Len(creditors) + 1
  BY <1>2 DEF PlanInit
<1> QED
  BY <1>2, <1>3, <1>4, <1>5 DEF PlanInit, AlgorithmInv, PlanTypes, Behind, OncePerPair, Few

\* One turn of the loop, from what it needs to know of the two members at the
\* indexes.
LEMMA AlgorithmStep == ASSUME AlgorithmInv, [PlanNext]_planVars PROVE AlgorithmInv'
<1>1. CASE UNCHANGED planVars
  BY <1>1 DEF planVars, AlgorithmInv, PlanTypes, Listed, Behind, OncePerPair, Few
<1>2. CASE Settle
  <2> DEFINE d == debtors[i]
             c == creditors[j]
             amount == Lesser(left[d], left[c])
             new == [from |-> d, to |-> c, amount |-> amount]
  <2>1. i \in DOMAIN debtors /\ j \in DOMAIN creditors /\ i \in Nat /\ j \in Nat
    BY <1>2 DEF Settle, Finished, AlgorithmInv, PlanTypes
  <2>2. d \in Owing(balance) /\ c \in Owed(balance)
    BY <2>1 DEF AlgorithmInv, PlanTypes
  <2>3. d \in MEMBERS /\ c \in MEMBERS /\ d # c
    BY SMTT(40), <2>2, AlgorithmAssumption DEF Owing, Owed, AlgorithmInv, PlanTypes
  <2>4. /\ left[d] \in Nat /\ left[c] \in Nat /\ amount \in Nat
        /\ amount <= left[d] /\ amount <= left[c]
        /\ amount = left[d] \/ amount = left[c]
    BY <2>3 DEF AlgorithmInv, PlanTypes, Lesser
  <2>5. UNCHANGED <<balance, debtors, creditors>>
    BY <1>2 DEF Settle
  <2>6. left' \in [MEMBERS -> Nat]
    <3>1. left' = [left EXCEPT ![d] = left[d] - amount, ![c] = left[c] - amount]
      BY <1>2, <2>3 DEF Settle
    <3>2. left \in [MEMBERS -> Nat] /\ left[d] - amount \in Nat /\ left[c] - amount \in Nat
      BY SMTT(40), <2>4 DEF AlgorithmInv, PlanTypes
    <3> HIDE DEF d, c, amount
    <3> QED
      BY <2>3, <3>1, <3>2
  <2>7. /\ i' \in {i, i + 1} /\ j' \in {j, j + 1}
        /\ i' = i + 1 \/ j' = j + 1
    BY <1>2, <2>1, <2>4, AlgorithmAssumption DEF Settle
  <2>8. i' \in 1 .. Len(debtors) + 1 /\ j' \in 1 .. Len(creditors) + 1
    BY <2>1, <2>7 DEF AlgorithmInv, PlanTypes
  <2>9. Listed'
    BY <2>5 DEF AlgorithmInv, Listed
  <2>10. debtors' = debtors /\ creditors' = creditors /\ debtors \in Seq(Owing(balance))
         /\ creditors \in Seq(Owed(balance)) /\ settlements \in Seq(Transfer)
         /\ balance' = balance /\ balance \in BALANCES
    BY <2>5 DEF AlgorithmInv, PlanTypes
  <2>11. Len(settlements) \in Nat /\ Len(debtors) \in Nat /\ Len(creditors) \in Nat
         /\ i <= Len(debtors) /\ j <= Len(creditors)
    BY <2>1, <2>10
  <2>12. ASSUME NEW k \in DOMAIN settlements
         PROVE  /\ settlements[k].amount > EPSILON
                /\ \E x \in DOMAIN debtors, y \in DOMAIN creditors :
                    /\ settlements[k].from = debtors[x] /\ settlements[k].to = creditors[y]
                    /\ x <= i' /\ y <= j' /\ x + y < i' + j'
    <3>1. PICK x \in DOMAIN debtors, y \in DOMAIN creditors :
              /\ settlements[k].from = debtors[x] /\ settlements[k].to = creditors[y]
              /\ x <= i /\ y <= j /\ x + y < i + j
      BY DEF AlgorithmInv, Behind
    <3>2. x \in Nat /\ y \in Nat
      BY <2>10
    <3>3. x <= i' /\ y <= j' /\ x + y < i' + j'
      BY <2>1, <2>7, <3>1, <3>2
    <3> QED
      BY <3>1, <3>3 DEF AlgorithmInv, Behind
  <2>13. CASE settlements' = settlements
    <3>1. Behind'
      BY <2>10, <2>13, <2>12 DEF Behind
    <3>2. OncePerPair'
      BY <2>13 DEF AlgorithmInv, OncePerPair
    <3>3. Few'
      BY SMTT(40), <2>1, <2>7, <2>10, <2>11, <2>13 DEF AlgorithmInv, Few
    <3>4. PlanTypes'
      BY <2>6, <2>8, <2>10, <2>13 DEF PlanTypes
    <3> QED
      BY <2>9, <3>1, <3>2, <3>3, <3>4 DEF AlgorithmInv
  <2>14. CASE settlements' = Append(settlements, new) /\ amount > EPSILON
    <3>1. new \in Transfer /\ new.from = d /\ new.to = c /\ new.amount = amount
      BY <2>3, <2>4 DEF Transfer
    <3>2. d = debtors[i] /\ c = creditors[j]
      OBVIOUS
    <3> HIDE DEF new, d, c, amount
    <3>3. /\ settlements' \in Seq(Transfer) /\ Len(settlements') = Len(settlements) + 1
          /\ \A k \in DOMAIN settlements' :
                \/ k \in DOMAIN settlements /\ settlements'[k] = settlements[k]
                \/ k = Len(settlements) + 1 /\ settlements'[k] = new
      BY <2>10, <2>14, <3>1
    <3>4. PlanTypes'
      BY <2>6, <2>8, <2>10, <3>3 DEF PlanTypes
    <3>5. Behind'
      <4> SUFFICES ASSUME NEW k \in DOMAIN settlements'
                   PROVE  /\ settlements'[k].amount > EPSILON
                          /\ \E x \in DOMAIN debtors, y \in DOMAIN creditors :
                              /\ settlements'[k].from = debtors[x] /\ settlements'[k].to = creditors[y]
                              /\ x <= i' /\ y <= j' /\ x + y < i' + j'
        BY <2>10 DEF Behind
      <4>1. CASE k \in DOMAIN settlements /\ settlements'[k] = settlements[k]
        BY <2>12, <4>1
      <4>2. CASE settlements'[k] = new
        BY SMTT(40), <2>1, <2>7, <2>10, <2>14, <3>1, <3>2, <4>2
      <4> QED
        BY <3>3, <4>1, <4>2
    <3>6. ASSUME NEW k \in DOMAIN settlements PROVE ~(settlements[k].from = d /\ settlements[k].to = c)
      <4>1. PICK x \in DOMAIN debtors, y \in DOMAIN creditors :
                /\ settlements[k].from = debtors[x] /\ settlements[k].to = creditors[y]
                /\ x + y < i + j
        BY DEF AlgorithmInv, Behind
      <4>2. x \in Nat /\ y \in Nat
        BY <2>10
      <4>3. ~(x = i /\ y = j)
        BY <2>1, <4>1, <4>2
      <4> QED
        BY <2>1, <3>2, <4>1, <4>3 DEF AlgorithmInv, Listed
    <3>7. OncePerPair'
      <4> SUFFICES ASSUME NEW k \in DOMAIN settlements', NEW l \in DOMAIN settlements',
                          settlements'[k].from = settlements'[l].from,
                          settlements'[k].to = settlements'[l].to
                   PROVE  k = l
        BY DEF OncePerPair
      <4>1. CASE k \in DOMAIN settlements /\ l \in DOMAIN settlements
        BY <2>10, <2>14, <4>1 DEF AlgorithmInv, OncePerPair
      <4>2. CASE ~(k \in DOMAIN settlements /\ l \in DOMAIN settlements)
        BY <3>1, <3>3, <3>6, <4>2
      <4> QED
        BY <4>1, <4>2
    <3>8. Few'
      <4>1. Len(settlements) <= (i - 1) + (j - 1)
        BY DEF AlgorithmInv, Few
      <4>2. Len(settlements') <= (i' - 1) + (j' - 1)
        BY SMTT(40), <2>1, <2>7, <2>11, <3>3, <4>1
      <4>3. Len(settlements') < Len(debtors) + Len(creditors)
        BY <2>1, <2>11, <3>3, <4>1
      <4> QED
        BY <2>10, <4>2, <4>3 DEF Few
    <3> QED
      BY <2>9, <3>4, <3>5, <3>7, <3>8 DEF AlgorithmInv
  <2> QED
    BY <1>2, <2>13, <2>14 DEF Settle
<1> QED
  BY <1>1, <1>2 DEF PlanNext, Returned

\* The invariant holds in every turn of the loop.
LEMMA AlgorithmInductive == PlanSpec => []AlgorithmInv
<1>1. PlanInit => AlgorithmInv
  BY AlgorithmInit
<1>2. AlgorithmInv /\ [PlanNext]_planVars => AlgorithmInv'
  BY AlgorithmStep
<1> QED
  BY <1>1, <1>2, PTL DEF PlanSpec

\* Nothing the loop computes leaves its type: the indexes stay within one of the
\* ends of the lists, and nobody ever owes less than nothing.
THEOREM AlgorithmTypes == PlanSpec => []PlanTypes
<1>1. AlgorithmInv => PlanTypes
  BY DEF AlgorithmInv
<1> QED
  BY <1>1, AlgorithmInductive, PTL

\* Every transfer is worthwhile, goes from a debtor to a creditor and is the only
\* one between the two, and there are fewer of them than listed members.
THEOREM Worthwhile == PlanSpec => []TransfersWorthwhile
<1>1. ASSUME AlgorithmInv PROVE TransfersWorthwhile
  <2>1. debtors \in Seq(Owing(balance)) /\ creditors \in Seq(Owed(balance))
    BY <1>1 DEF AlgorithmInv, PlanTypes
  <2>2. ASSUME NEW k \in DOMAIN settlements
        PROVE  /\ settlements[k].from \in Owing(balance)
               /\ settlements[k].to \in Owed(balance)
               /\ settlements[k].amount > EPSILON
    BY <1>1, <2>1 DEF AlgorithmInv, Behind
  <2> QED
    BY <1>1, <2>2 DEF AlgorithmInv, OncePerPair, Few, TransfersWorthwhile
<1> QED
  BY <1>1, AlgorithmInductive, PTL

\* The amounts of the transfers, the transfers of a member, and what they move.
Amounts == [k \in DOMAIN settlements |-> settlements[k].amount]

With(m) == {k \in DOMAIN settlements : m \in {settlements[k].from, settlements[k].to}}

Paid(m) == Total(Amounts, With(m))

\* What is moved for a member is the sum over the transfers it is part of.
LEMMA MovedIsPaid == \A m : Moved(m) = Paid(m)
<1> SUFFICES ASSUME NEW m PROVE Moved(m) = Paid(m)
  OBVIOUS
<1> DEFINE T == With(m)
           S1(F) == F = [s \in SUBSET T |->
                           IF s = {} THEN 0
                           ELSE settlements[CHOOSE x \in s : TRUE].amount
                                + F[s \ {CHOOSE x \in s : TRUE}]]
<1>1. Moved(m) = (CHOOSE F : S1(F))[T]
  BY DEF Moved, With, MapThenSumSet, MapThenFoldSet
<1>2. \A F : S1(F) <=> Sums(F, Amounts, T)
  <2>1. \A s \in SUBSET T : s # {} => /\ (CHOOSE x \in s : TRUE) \in s
                                     /\ T \subseteq DOMAIN settlements
    BY DEF With
  <2>2. \A s \in SUBSET T : s # {} =>
           settlements[CHOOSE x \in s : TRUE].amount = Amounts[CHOOSE x \in s : TRUE]
    BY <2>1 DEF Amounts
  <2>3. \A F : [s \in SUBSET T |->
                  IF s = {} THEN 0
                  ELSE settlements[CHOOSE x \in s : TRUE].amount + F[s \ {CHOOSE x \in s : TRUE}]]
             = [s \in SUBSET T |->
                  IF s = {} THEN 0
                  ELSE Amounts[CHOOSE x \in s : TRUE] + F[s \ {CHOOSE x \in s : TRUE}]]
    <3> HIDE DEF T
    <3> QED BY <2>2
  <2> QED BY <2>3 DEF Sums
<1>3. (CHOOSE F : S1(F)) = CHOOSE F : Sums(F, Amounts, T)
  <2> HIDE DEF S1, T
  <2> QED BY <1>2
<1> QED BY <1>1, <1>3 DEF Total, Paid

\* Balances cancel out when their sum is 0.
LEMMA ZerosumIsTotal == Zerosum <=> Total(balance, MEMBERS) = 0
BY DEF Zerosum, MapThenSumSet, MapThenFoldSet, Total, Sums

\* A member is through with the loop exactly when at most EPSILON is left, so no turn
\* of it has nothing to transfer.
Open ==
    /\ \A x \in DOMAIN debtors : x >= i <=> left[debtors[x]] > EPSILON
    /\ \A y \in DOMAIN creditors : y >= j <=> left[creditors[y]] > EPSILON

\* Everybody with a debt or a claim is listed, and the others are left alone.
Complete ==
    /\ \A m \in Owing(balance) : \E x \in DOMAIN debtors : m = debtors[x]
    /\ \A m \in Owed(balance) : \E y \in DOMAIN creditors : m = creditors[y]
    /\ \A m \in MEMBERS :
          m \notin Owing(balance) /\ m \notin Owed(balance) => left[m] = Abs(balance[m])

PaidOff == \A m \in MEMBERS : left[m] + Paid(m) = Abs(balance[m])

\* What is left, with the sign of the balance, adds up to what the balances do.
Signed == [m \in MEMBERS |-> IF balance[m] < 0 THEN -left[m] ELSE left[m]]

Balanced == Total(Signed, MEMBERS) = Total(balance, MEMBERS)

LeftInv == Open /\ Complete /\ PaidOff /\ Balanced

\* A sorted list leaves out nobody.
LEMMA SortedComplete ==
    ASSUME NEW S \in SUBSET MEMBERS, NEW b, NEW s \in SortedDown(S, b), NEW m \in S
    PROVE  \E x \in DOMAIN s : m = s[x]
<1>1. IsFiniteSet(S) /\ Cardinality(S) \in Nat
  BY AlgorithmAssumption, FS_Subset, FS_CardinalityType
<1>2. s \in Injection(1 .. Cardinality(S), S)
  BY DEF SortedDown, Injection, IsInjective
<1>3. Cardinality(1 .. Cardinality(S)) = Cardinality(S)
  BY <1>1, FS_Interval
<1>4. s \in Surjection(1 .. Cardinality(S), S)
  BY <1>1, <1>2, <1>3, FS_Injection
<1> QED BY <1>4 DEF Surjection

\* What is known of the numbers in every state.
LEMMA Numbers ==
    ASSUME PlanTypes
    PROVE  /\ IsFiniteSet(MEMBERS) /\ Cardinality(MEMBERS) \in Nat /\ EPSILON \in Nat
           /\ \A m \in MEMBERS : balance[m] \in Int /\ left[m] \in Nat /\ Signed[m] \in Int
           /\ \A m : IsFiniteSet(With(m)) /\ Paid(m) \in Int
           /\ \A k \in DOMAIN settlements : Amounts[k] \in Int
<1>1. IsFiniteSet(MEMBERS) /\ Cardinality(MEMBERS) \in Nat /\ EPSILON \in Nat
  BY AlgorithmAssumption, FS_CardinalityType
<1>2. \A m \in MEMBERS : balance[m] \in Int /\ left[m] \in Nat
  BY AlgorithmAssumption DEF PlanTypes
<1>3. \A m \in MEMBERS : Signed[m] \in Int
  BY <1>2 DEF Signed
<1>4. \A k \in DOMAIN settlements : Amounts[k] \in Int
  <2>1. \A k \in DOMAIN settlements : settlements[k] \in Transfer
    BY DEF PlanTypes
  <2> QED BY <2>1 DEF Transfer, Amounts
<1>5. ASSUME NEW m PROVE IsFiniteSet(With(m)) /\ Paid(m) \in Int
  <2>1. IsFiniteSet(1 .. Len(settlements)) /\ DOMAIN settlements = 1 .. Len(settlements)
    BY FS_Interval DEF PlanTypes
  <2>2. IsFiniteSet(With(m)) /\ \A k \in With(m) : Amounts[k] \in Int
    BY <1>4, <2>1, FS_Subset DEF With
  <2> QED BY <2>2, TotalWithout DEF Paid
<1> QED BY <1>1, <1>2, <1>3, <1>4, <1>5

\* Holds of the empty list of transfers, whose sums are empty.
LEMMA LeftInit == ASSUME PlanInit PROVE LeftInv
<1>1. PlanTypes
  BY AlgorithmInit DEF AlgorithmInv
<1>2. Owing(balance) \in SUBSET MEMBERS /\ Owed(balance) \in SUBSET MEMBERS
  BY DEF Owing, Owed
<1>3. left = [m \in MEMBERS |-> Abs(balance[m])]
  BY DEF PlanInit
<1>4. Complete
  BY <1>2, <1>3, SortedComplete DEF PlanInit, Complete
<1>5. Open
  <2>1. \A m \in Owing(balance) \cup Owed(balance) : left[m] > EPSILON
    BY <1>1, <1>3, Numbers DEF Owing, Owed, Abs
  <2>2. /\ debtors \in Seq(Owing(balance)) /\ creditors \in Seq(Owed(balance))
        /\ i = 1 /\ j = 1
    BY <1>1 DEF PlanTypes, PlanInit
  <2> QED BY <2>1, <2>2 DEF Open
<1>6. PaidOff
  <2> SUFFICES ASSUME NEW m \in MEMBERS PROVE left[m] + Paid(m) = Abs(balance[m])
    BY DEF PaidOff
  <2>1. With(m) = {} /\ IsFiniteSet(With(m))
    BY FS_EmptySet DEF With, PlanInit
  <2>2. Paid(m) = 0
    BY <2>1, TotalWithout DEF Paid
  <2> QED BY <1>1, <1>3, <2>2, Numbers
<1>7. Balanced
  <2>1. \A m \in MEMBERS : Signed[m] \in Int /\ Signed[m] = balance[m]
    BY <1>1, <1>3, Numbers DEF Signed, Abs
  <2> QED BY <1>1, <2>1, Numbers, TotalOfSame DEF Balanced
<1> QED BY <1>4, <1>5, <1>6, <1>7 DEF LeftInv

\* One turn of the loop moves the same amount off the debt and off the claim, into one
\* more transfer.
LEMMA LeftStep == ASSUME AlgorithmInv, AlgorithmInv', LeftInv, Settle PROVE LeftInv'
<1> DEFINE d == debtors[i]
           c == creditors[j]
           amount == Lesser(left[d], left[c])
           new == [from |-> d, to |-> c, amount |-> amount]
           n == Len(settlements) + 1
<1>1. PlanTypes /\ PlanTypes' /\ Listed
  BY DEF AlgorithmInv
<1>2. /\ i \in DOMAIN debtors /\ j \in DOMAIN creditors /\ i \in Nat /\ j \in Nat
      /\ debtors \in Seq(Owing(balance)) /\ creditors \in Seq(Owed(balance))
  BY <1>1 DEF Settle, Finished, PlanTypes
<1>3. /\ d \in Owing(balance) /\ c \in Owed(balance) /\ d \in MEMBERS /\ c \in MEMBERS
      /\ balance[d] < 0 /\ balance[c] > 0
  <2>1. d \in Owing(balance) /\ c \in Owed(balance)
    BY <1>2
  <2> HIDE DEF d, c
  <2> QED BY <1>1, <2>1, Numbers DEF Owing, Owed
<1>4. d # c /\ Owing(balance) \cap Owed(balance) = {}
  <2>1. \A m \in Owing(balance) : m \in MEMBERS /\ balance[m] < 0
    BY <1>1, Numbers DEF Owing
  <2>2. \A m \in Owed(balance) : m \in MEMBERS /\ balance[m] > 0
    BY <1>1, Numbers DEF Owed
  <2> HIDE DEF d, c
  <2> QED BY <1>1, <1>3, <2>1, <2>2, Numbers
<1>5. left[d] > EPSILON /\ left[c] > EPSILON /\ left[d] \in Nat /\ left[c] \in Nat
  <2>1. left[d] > EPSILON /\ left[c] > EPSILON
    BY <1>2 DEF LeftInv, Open
  <2> HIDE DEF d, c
  <2> QED BY <1>1, <1>3, <2>1, Numbers
<1>6. /\ amount \in Nat /\ amount > EPSILON /\ EPSILON \in Nat
      /\ left[d] - amount <= EPSILON \/ left[c] - amount <= EPSILON
  <2> HIDE DEF d, c
  <2> QED BY <1>1, <1>5, Numbers DEF Lesser
<1>7. /\ UNCHANGED <<balance, debtors, creditors>>
      /\ settlements' = Append(settlements, new)
      /\ left' = [left EXCEPT ![d] = @ - amount, ![c] = @ - amount]
      /\ i' = IF left[d] - amount <= EPSILON THEN i + 1 ELSE i
      /\ j' = IF left[c] - amount <= EPSILON THEN j + 1 ELSE j
  BY <1>6 DEF Settle
<1>8. /\ new.from = d /\ new.to = c /\ new.amount = amount
      /\ d = debtors[i] /\ c = creditors[j]
  OBVIOUS
<1> HIDE DEF d, c, amount, new
<1>9. /\ left'[d] = left[d] - amount /\ left'[c] = left[c] - amount
      /\ \A m \in MEMBERS \ {d, c} : left'[m] = left[m]
  BY <1>1, <1>3, <1>4, <1>7 DEF PlanTypes
<1>10. Open'
  <2>1. ASSUME NEW x \in DOMAIN debtors PROVE x >= i' <=> left'[debtors[x]] > EPSILON
    <3>1. x \in Nat /\ debtors[x] \in Owing(balance) /\ debtors[x] \in MEMBERS
      BY <1>2 DEF Owing
    <3>2. x >= i <=> left[debtors[x]] > EPSILON
      BY DEF LeftInv, Open
    <3>3. CASE x = i
      <4>1. left'[debtors[x]] = left[d] - amount
        BY <1>8, <1>9, <3>3
      <4> QED BY <1>2, <1>5, <1>6, <1>7, <3>3, <4>1
    <3>4. CASE x # i
      <4>1. debtors[x] # d /\ debtors[x] # c
        BY <1>1, <1>2, <1>3, <1>4, <1>8, <3>1, <3>4 DEF Listed
      <4>2. left'[debtors[x]] = left[debtors[x]]
        BY <1>9, <3>1, <4>1
      <4> QED BY <1>2, <1>7, <3>1, <3>2, <3>4, <4>2
    <3> QED BY <3>3, <3>4
  <2>2. ASSUME NEW y \in DOMAIN creditors PROVE y >= j' <=> left'[creditors[y]] > EPSILON
    <3>1. y \in Nat /\ creditors[y] \in Owed(balance) /\ creditors[y] \in MEMBERS
      BY <1>2 DEF Owed
    <3>2. y >= j <=> left[creditors[y]] > EPSILON
      BY DEF LeftInv, Open
    <3>3. CASE y = j
      <4>1. left'[creditors[y]] = left[c] - amount
        BY <1>8, <1>9, <3>3
      <4> QED BY <1>2, <1>5, <1>6, <1>7, <3>3, <4>1
    <3>4. CASE y # j
      <4>1. creditors[y] # c /\ creditors[y] # d
        BY <1>1, <1>2, <1>3, <1>4, <1>8, <3>1, <3>4 DEF Listed
      <4>2. left'[creditors[y]] = left[creditors[y]]
        BY <1>9, <3>1, <4>1
      <4> QED BY <1>2, <1>7, <3>1, <3>2, <3>4, <4>2
    <3> QED BY <3>3, <3>4
  <2> QED BY <1>7, <2>1, <2>2 DEF Open
<1>11. Complete'
  <2>1. \A m \in MEMBERS : m \notin Owing(balance) /\ m \notin Owed(balance) => left'[m] = left[m]
    BY <1>3, <1>9
  <2> QED BY <1>7, <2>1 DEF LeftInv, Complete, Owing, Owed
<1>12. PaidOff'
  <2> SUFFICES ASSUME NEW m \in MEMBERS PROVE left'[m] + Paid(m)' = Abs(balance[m])
    BY <1>7 DEF PaidOff
  <2>1. /\ n \in Nat /\ n \notin DOMAIN settlements
        /\ DOMAIN settlements' = DOMAIN settlements \cup {n} /\ settlements'[n] = new
        /\ \A k \in DOMAIN settlements : settlements'[k] = settlements[k]
    BY <1>1, <1>7 DEF PlanTypes
  <2>2. /\ Amounts'[n] = amount /\ amount \in Int
        /\ \A k \in DOMAIN settlements : Amounts[k] \in Int /\ Amounts'[k] = Amounts[k]
    BY <1>1, <1>6, <1>8, <2>1, Numbers DEF Amounts
  <2>3. /\ With(m) \subseteq DOMAIN settlements /\ IsFiniteSet(With(m)) /\ n \notin With(m)
        /\ With(m)' = IF m \in {d, c} THEN With(m) \cup {n} ELSE With(m)
    <3>1. With(m) \subseteq DOMAIN settlements
      BY DEF With
    <3>2. With(m)' = IF m \in {d, c} THEN With(m) \cup {n} ELSE With(m)
      BY <1>8, <2>1 DEF With
    <3> QED BY <1>1, <2>1, <3>1, <3>2, Numbers
  <2>4. Total(Amounts', With(m)) = Paid(m)
    <3>1. \A k \in With(m) : Amounts[k] \in Int /\ Amounts[k] = Amounts'[k]
      BY <2>2, <2>3
    <3> QED BY <2>3, <3>1, TotalOfSame DEF Paid
  <2>5. Paid(m)' = Total(Amounts', With(m)')
    BY DEF Paid
  <2>6. left[m] + Paid(m) = Abs(balance[m]) /\ left[m] \in Nat /\ Paid(m) \in Int
    BY <1>1, Numbers DEF LeftInv, PaidOff
  <2>7. CASE m \in {d, c}
    <3>1. left'[m] = left[m] - amount
      BY <1>9, <2>7
    <3>2. \A k \in With(m) \cup {n} : Amounts'[k] \in Int
      BY <2>2, <2>3
    <3>3. Total(Amounts', With(m) \cup {n}) = Amounts'[n] + Total(Amounts', With(m))
      BY <2>3, <3>2, TotalWith
    <3>4. Paid(m)' = amount + Paid(m)
      BY <2>2, <2>3, <2>4, <2>5, <2>7, <3>3
    <3> QED BY <2>2, <2>6, <3>1, <3>4
  <2>8. CASE m \notin {d, c}
    BY <1>9, <2>3, <2>4, <2>5, <2>6, <2>8
  <2> QED BY <2>7, <2>8
<1>13. Balanced'
  <2> DEFINE before == Signed
             after == Signed'
             M == MEMBERS
  <2>1. /\ after[d] = before[d] + amount /\ after[c] = before[c] - amount
        /\ \A m \in M \ {d, c} : before[m] = after[m]
    <3>1. before[d] = -left[d] /\ before[c] = left[c]
      BY <1>1, <1>3, Numbers DEF Signed
    <3>2. after[d] = -left'[d] /\ after[c] = left'[c]
      BY <1>1, <1>3, <1>7, Numbers DEF Signed
    <3>3. \A m \in M \ {d, c} : before[m] = after[m]
      BY <1>7, <1>9 DEF Signed
    <3> QED BY <1>5, <1>6, <1>9, <3>1, <3>2, <3>3
  <2>2. /\ IsFiniteSet(M) /\ IsFiniteSet(M \ {d}) /\ IsFiniteSet((M \ {d}) \ {c})
        /\ \A m \in M : before[m] \in Int
    BY <1>1, Numbers, FS_RemoveElement
  <2>3. \A m \in M : after[m] \in Int
    <3>1. before[d] + amount \in Int /\ before[c] - amount \in Int
      BY <1>3, <1>6, <2>2
    <3> HIDE DEF before, after
    <3> QED BY <2>1, <2>2, <3>1
  <2> HIDE DEF before, after, M
  <2>4. d \in M /\ c \in M \ {d}
    BY <1>3, <1>4 DEF M
  <2>5. /\ Total(before, M) = before[d] + Total(before, M \ {d})
        /\ Total(before, M \ {d}) = before[c] + Total(before, (M \ {d}) \ {c})
        /\ Total(before, (M \ {d}) \ {c}) \in Int
    BY <2>2, <2>4, TotalWithout
  <2>6. /\ Total(after, M) = after[d] + Total(after, M \ {d})
        /\ Total(after, M \ {d}) = after[c] + Total(after, (M \ {d}) \ {c})
    BY <2>2, <2>3, <2>4, TotalWithout
  <2>7. Total(before, (M \ {d}) \ {c}) = Total(after, (M \ {d}) \ {c})
    BY <2>1, <2>2, TotalOfSame
  <2>8. Total(after, M) = Total(before, M)
    <3>1. before[d] \in Int /\ before[c] \in Int
      BY <2>2, <2>4
    <3> QED BY <1>6, <2>1, <2>5, <2>6, <2>7, <3>1
  <2> QED BY <1>7, <2>8 DEF LeftInv, Balanced, before, after, M
<1> QED BY <1>10, <1>11, <1>12, <1>13 DEF LeftInv

\* Both invariants hold in every turn of the loop.
LEMMA LeftInductive == PlanSpec => [](AlgorithmInv /\ LeftInv)
<1>1. PlanInit => AlgorithmInv /\ LeftInv
  BY AlgorithmInit, LeftInit
<1>2. AlgorithmInv /\ LeftInv /\ [PlanNext]_planVars => (AlgorithmInv /\ LeftInv)'
  <2> SUFFICES ASSUME AlgorithmInv, LeftInv, [PlanNext]_planVars PROVE AlgorithmInv' /\ LeftInv'
    OBVIOUS
  <2>1. AlgorithmInv'
    BY AlgorithmStep
  <2>2. CASE UNCHANGED planVars
    <3>1. Open' /\ Complete'
      BY <2>2 DEF planVars, LeftInv, Open, Complete, Owing, Owed
    <3>2. \A m : With(m)' = With(m)
      BY <2>2 DEF planVars, With
    <3>3. Amounts' = Amounts /\ Signed' = Signed
      BY <2>2 DEF planVars, Amounts, Signed
    <3>4. PaidOff'
      BY <2>2, <3>2, <3>3 DEF planVars, LeftInv, PaidOff, Paid
    <3>5. Balanced'
      BY <2>2, <3>3 DEF planVars, LeftInv, Balanced
    <3> QED BY <2>1, <3>1, <3>4, <3>5 DEF LeftInv
  <2>3. CASE Settle
    BY <2>1, <2>3, LeftStep
  <2> QED BY <2>1, <2>2, <2>3 DEF PlanNext, Returned
<1> QED BY <1>1, <1>2, PTL DEF PlanSpec

\* The loop neither creates nor loses nor doubles money: in every turn, and for every
\* member, the transfers and what is left add up to the balance.
THEOREM Conserved == PlanSpec => []MoneyConserved
<1>1. LeftInv => MoneyConserved
  BY MovedIsPaid DEF LeftInv, PaidOff, MoneyConserved
<1> QED BY <1>1, LeftInductive, PTL

\* If what is left adds up to nothing, and what is left of the members on one side is
\* no more than EPSILON, then nobody on the other side has more than all of them.
LEMMA OtherSide ==
    ASSUME PlanTypes, Total(Signed, MEMBERS) = 0, NEW sign \in {1, -1},
           \A x \in MEMBERS : sign * Signed[x] <= EPSILON, NEW m \in MEMBERS
    PROVE  -(sign * Signed[m]) <= (Cardinality(MEMBERS) - 1) * EPSILON
<1> DEFINE rest == MEMBERS \ {m}
           others == Total(Signed, rest)
           count == Cardinality(rest)
           own == Signed[m]
<1>1. /\ IsFiniteSet(MEMBERS) /\ own \in Int /\ EPSILON \in Int
      /\ \A x \in MEMBERS : Signed[x] \in Int
  BY Numbers
<1>2. IsFiniteSet(rest) /\ count = Cardinality(MEMBERS) - 1 /\ count \in Nat
  BY <1>1, FS_RemoveElement, FS_CardinalityType
<1>3. others \in Int /\ own + others = 0
  BY <1>1, <1>2, TotalWithout
<1>4. sign * others <= count * EPSILON
  BY <1>1, <1>2, TotalBound
<1> HIDE DEF rest, others, count, own
<1>5. -(sign * own) = sign * others
  <2>1. CASE sign = 1
    BY <1>1, <1>3, <2>1
  <2>2. CASE sign = -1
    BY <1>1, <1>3, <2>2
  <2> QED BY <2>1, <2>2
<1> QED BY <1>2, <1>4, <1>5 DEF own

\* When the loop is through and the balances cancel out, nobody is left with more than
\* one EPSILON for every other member.
THEOREM LittleForgotten == PlanSpec => []NothingForgotten
<1>1. ASSUME AlgorithmInv, LeftInv, Finished, Zerosum, NEW m \in MEMBERS
      PROVE  left[m] <= (Cardinality(MEMBERS) - 1) * EPSILON
  <2> DEFINE most == (Cardinality(MEMBERS) - 1) * EPSILON
  <2>1. PlanTypes /\ Total(Signed, MEMBERS) = 0
    BY <1>1, ZerosumIsTotal DEF AlgorithmInv, LeftInv, Balanced
  <2>2. /\ \A x \in MEMBERS : Signed[x] = IF balance[x] < 0 THEN -left[x] ELSE left[x]
        /\ \A x \in MEMBERS : left[x] \in Nat /\ balance[x] \in Int /\ Signed[x] \in Int
        /\ EPSILON \in Nat /\ Cardinality(MEMBERS) \in Nat /\ IsFiniteSet(MEMBERS)
    BY <2>1, Numbers DEF Signed
  <2>3. CASE Cardinality(MEMBERS) <= 1
    <3>1. Cardinality(MEMBERS \ {m}) = Cardinality(MEMBERS) - 1 /\ IsFiniteSet(MEMBERS \ {m})
      BY <2>2, FS_RemoveElement
    <3>2. Cardinality(MEMBERS \ {m}) = 0
      BY <2>2, <2>3, <3>1, FS_CardinalityType
    <3>3. MEMBERS \ {m} = {}
      BY <3>1, <3>2, FS_EmptySet
    <3>4. /\ Total(Signed, MEMBERS) = Signed[m] + Total(Signed, MEMBERS \ {m})
          /\ Total(Signed, MEMBERS \ {m}) = 0
      BY <2>2, <3>1, <3>3, TotalWithout
    <3>5. Signed[m] = 0
      BY <2>1, <2>2, <3>4
    <3>6. most = 0
      <4>1. Cardinality(MEMBERS) - 1 = 0
        BY <3>1, <3>2
      <4> QED BY <2>2, <4>1
    <3>7. left[m] = 0
      BY <2>2, <3>5
    <3> QED BY <3>6, <3>7
  <2>4. CASE Cardinality(MEMBERS) > 1
    <3>1. EPSILON <= most
      <4>1. Cardinality(MEMBERS) - 1 \in Nat /\ Cardinality(MEMBERS) - 1 >= 1
        BY <2>2, <2>4
      <4> HIDE DEF LeftInv
      <4> QED BY <2>2, <4>1
    <3>2. ASSUME NEW x \in MEMBERS, x \notin Owing(balance), x \notin Owed(balance)
          PROVE  left[x] <= EPSILON
      <4>1. left[x] = Abs(balance[x])
        BY <1>1, <3>2 DEF LeftInv, Complete
      <4>2. ~(balance[x] < -EPSILON) /\ ~(balance[x] > EPSILON)
        BY <2>2, <2>4, <3>2 DEF Owing, Owed
      <4> QED BY <2>2, <4>1, <4>2 DEF Abs
    <3>3. CASE i > Len(debtors)
      <4>1. ASSUME NEW x \in MEMBERS, balance[x] < 0 PROVE left[x] <= EPSILON
        <5>1. CASE x \in Owing(balance)
          <6>1. PICK y \in DOMAIN debtors : x = debtors[y]
            BY <1>1, <5>1 DEF LeftInv, Complete
          <6>2. ~(y >= i)
            BY <2>1, <3>3, <6>1 DEF PlanTypes
          <6> QED BY <1>1, <2>2, <6>1, <6>2 DEF LeftInv, Open
        <5>2. x \notin Owed(balance)
          BY <2>2, <4>1 DEF Owed
        <5> QED BY <3>2, <5>1, <5>2
      <4>2. \A x \in MEMBERS : (-1) * Signed[x] <= EPSILON
        BY <2>2, <4>1
      <4>3. -((-1) * Signed[m]) <= most
        BY <2>1, <4>2, OtherSide
      <4> QED BY <2>2, <3>1, <4>1, <4>3
    <3>4. CASE j > Len(creditors)
      <4>1. ASSUME NEW x \in MEMBERS, ~(balance[x] < 0) PROVE left[x] <= EPSILON
        <5>1. CASE x \in Owed(balance)
          <6>1. PICK y \in DOMAIN creditors : x = creditors[y]
            BY <1>1, <5>1 DEF LeftInv, Complete
          <6>2. ~(y >= j)
            BY <2>1, <3>4, <6>1 DEF PlanTypes
          <6> QED BY <1>1, <2>2, <6>1, <6>2 DEF LeftInv, Open
        <5>2. x \notin Owing(balance)
          BY <2>2, <4>1 DEF Owing
        <5> QED BY <3>2, <5>1, <5>2
      <4>2. \A x \in MEMBERS : 1 * Signed[x] <= EPSILON
        BY <2>2, <4>1
      <4>3. -(1 * Signed[m]) <= most
        BY <2>1, <4>2, OtherSide
      <4> QED BY <2>2, <3>1, <4>1, <4>3
    <3> QED BY <1>1, <3>3, <3>4 DEF Finished
  <2> QED BY <2>2, <2>3, <2>4
<1>2. AlgorithmInv /\ LeftInv => NothingForgotten
  BY <1>1 DEF NothingForgotten
<1> QED BY <1>2, LeftInductive, PTL

=============================================================================
