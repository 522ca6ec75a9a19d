------------------------------ MODULE Settlement ------------------------------
(***************************************************************************)
(* TravelSettlementService: the requests that read, save and complete the  *)
(* settlements of a travel, step by step.  A step is a query, a cache      *)
(* command or a commit, and requests interleave at every await.            *)
(*                                                                         *)
(* What a request computes is abstracted to what the properties tell       *)
(* apart: the state of a travel's expenses is a member of LEDGERS, and     *)
(* PLAN gives the transfers calculateSettlements finds for it (module      *)
(* SettlementAlgorithm is about that computation).                         *)
(***************************************************************************)
EXTENDS Integers, FiniteSets

CONSTANTS
    TRAVELS,
    SAVERS, MARKERS, READERS,  \* requests: POST compute, PATCH complete, GET
    KEYS, NoKey,               \* Idempotency-Key headers, and their absence
    LEDGERS,                   \* states of a travel's expenses
    TRANSFERS,
    PLAN,                      \* [LEDGERS -> SUBSET TRANSFERS]
    Earlier,                   \* who saved the plans stored at the start
    FIRST_PLANS,               \* the plans a travel may have at the start
    DATABASES,                 \* what the database does with MAX ... FOR UPDATE
    ASKS,                      \* what the requests may ask for
    NoView                     \* the absence of a summary

REQUESTS == SAVERS \cup MARKERS \cup READERS

\* A stored settlement is known by the request that saved it, its travel and
\* its transfer.
IDS == (SAVERS \cup {Earlier}) \X TRAVELS \X TRANSFERS

IdsOf(r, t, transfers) == {<<r, t, x>> : x \in transfers}

ASSUME SettlementAssumption ==
    /\ SAVERS \cap MARKERS = {} /\ SAVERS \cap READERS = {} /\ MARKERS \cap READERS = {}
    /\ Earlier \notin REQUESTS
    /\ IsFiniteSet(IDS)
    /\ PLAN \in [LEDGERS -> SUBSET TRANSFERS]
    /\ FIRST_PLANS \subseteq SUBSET TRANSFERS
    /\ DATABASES \subseteq {"rejects", "locks"}
    /\ ASKS \subseteq [REQUESTS -> [travel : TRAVELS, key : KEYS \cup {NoKey}, row : IDS]]

VARIABLES
    database,   \* a member of DATABASES
    expenses,   \* the state of each travel's expenses
    rows,       \* travel_settlements: the rows of each travel,
    completed,  \*   those with status completed (deleted rows stay listed)
    version,    \*   and the version column
    audit,      \* the requests with an entry in settlement_audit_logs
    cache,      \* the summary cached for each travel
    replay,     \* the result cached for each idempotency key
    ask,        \* what each request asks for
    pc,         \* where each request stands
    base,       \* the version a save read before its transaction
    plan,       \* the transfers a save computed
    holds,      \* the rows each request's transaction has locked
    erased,     \* the rows a save's transaction has deleted
    doomed,     \* a statement of the transaction failed: its commit rolls back
    view,       \* the summary a request has read
    reply,      \* its response
    writes      \* the cache writes it has started, which nobody awaits

setting == <<database, ask>>
tables == <<rows, completed, version, audit>>
caches == <<cache, replay>>
transaction == <<base, plan, holds, erased, doomed>>
answer == <<view, reply, writes>>
vars == <<setting, expenses, tables, caches, pc, transaction, answer>>

\* Of a summary only the stored settlements matter here: which, and which paid.
Summary == [all : SUBSET IDS, paid : SUBSET IDS]
View == Summary \cup {NoView}

Book == INSTANCE SettlementBook WITH
            INITIAL <- {IdsOf(Earlier, t, p) : t \in TRAVELS, p \in FIRST_PLANS}

MaxVersion(t) == Book!Newest(rows[t], version)

Travel(r) == ask[r].travel

\* The rows locked by transactions of other requests.
LockedByOthers(r) == UNION {holds[q] : q \in REQUESTS \ {r}}

-----------------------------------------------------------------------------

Init ==
    /\ database \in DATABASES
    /\ expenses \in [TRAVELS -> LEDGERS]
    /\ \E p \in [TRAVELS -> FIRST_PLANS] : rows = [t \in TRAVELS |-> IdsOf(Earlier, t, p[t])]
    /\ completed = {}
    /\ version = [id \in IDS |-> IF \E t \in TRAVELS : id \in rows[t] THEN 1 ELSE 0]
    /\ audit = {}
    /\ cache = [t \in TRAVELS |-> NoView]
    /\ replay = [k \in KEYS |-> NoView]
    /\ ask \in ASKS
    /\ pc = [r \in REQUESTS |-> "new"]
    /\ base = [r \in REQUESTS |-> 0]
    /\ plan = [r \in REQUESTS |-> {}]
    /\ holds = [r \in REQUESTS |-> {}]
    /\ erased = [r \in REQUESTS |-> {}]
    /\ doomed = [r \in REQUESTS |-> FALSE]
    /\ view = [r \in REQUESTS |-> NoView]
    /\ reply = [r \in REQUESTS |-> "none"]
    /\ writes = [r \in REQUESTS |-> {}]

Goto(r, from, to) ==
    pc[r] = from /\ pc' = [pc EXCEPT ![r] = to] /\ UNCHANGED setting

\* Mutated form: the transaction stays open.
Kept(r) == holds

\* The locks of r's transaction are given back.
Released(r) == [holds EXCEPT ![r] = {}]

\* The request ends with an exception, and its transaction, if any, rolls back.
Refuse(r, from, why) ==
    /\ Goto(r, from, "done")
    /\ reply' = [reply EXCEPT ![r] = why]
    /\ holds' = Released(r)
    /\ UNCHANGED <<expenses, tables, caches, base, plan, erased, doomed, view, writes>>

\* The request ends with summary v.  A summary read from the database and the
\* result of a save with a key go to the cache without being awaited.
Answer(r, from, v, kinds) ==
    /\ Goto(r, from, "done")
    /\ reply' = [reply EXCEPT ![r] = "ok"]
    /\ view' = [view EXCEPT ![r] = v]
    /\ writes' = [writes EXCEPT ![r] = kinds]
    /\ UNCHANGED <<expenses, tables, caches, transaction>>

KeptUnderKey(r) == IF r \in SAVERS /\ ask[r].key # NoKey THEN {"replay"} ELSE {}

-----------------------------------------------------------------------------

\* Saves and completions first look for the caller among the members; the
\* summary looks in the cache first.
Arrive(r) ==
    \/ /\ \/ r \in SAVERS /\ Goto(r, "new", "key")
          \/ r \in MARKERS /\ Goto(r, "new", "row")
          \/ r \in READERS /\ Goto(r, "new", "lookup")
       /\ UNCHANGED <<expenses, tables, caches, transaction, answer>>
    \/ r \notin READERS /\ Refuse(r, "new", "forbidden")

\* A result kept under the request's key is the answer.
CheckKey(r) ==
    \/ /\ ask[r].key # NoKey
       /\ replay[ask[r].key] # NoView
       /\ Answer(r, "key", replay[ask[r].key], {})
    \/ /\ ask[r].key # NoKey => replay[ask[r].key] = NoView
       /\ Goto(r, "key", "version")
       /\ UNCHANGED <<expenses, tables, caches, transaction, answer>>

ReadVersion(r) ==
    /\ Goto(r, "version", "balances")
    /\ base' = [base EXCEPT ![r] = MaxVersion(Travel(r))]
    /\ UNCHANGED <<expenses, tables, caches, plan, holds, erased, doomed, answer>>

ComputePlan(r) ==
    LET computed == PLAN[expenses[Travel(r)]]
    IN  \/ computed = {} /\ Refuse(r, "balances", "nothing")
        \/ /\ computed # {}
           /\ Goto(r, "balances", "lock")
           /\ plan' = [plan EXCEPT ![r] = computed]
           /\ UNCHANGED <<expenses, tables, caches, base, holds, erased, doomed, answer>>

\* Mutated form: a plain SELECT.
NoRows(t) == {}

\* The rows the version query locks: FOR UPDATE takes every row it reads.
RowsToLock(t) == rows[t]

\* Mutated form: the version is read again and not compared.
AnyVersion(r) == TRUE

SameVersion(r) == MaxVersion(Travel(r)) = base[r]

\* Mutated form: the conflict is reported and the transaction goes on.
LockVersionGoesOn(r) ==
    LET t == Travel(r)
    IN  \/ database = "rejects" /\ Refuse(r, "lock", "error")
        \/ /\ database = "locks"
           /\ rows[t] \cap LockedByOthers(r) = {}
           /\ Goto(r, "lock", "erase")
           /\ reply' = IF SameVersion(r) THEN reply ELSE [reply EXCEPT ![r] = "conflict"]
           /\ holds' = [holds EXCEPT ![r] = RowsToLock(t)]
           /\ UNCHANGED <<expenses, tables, caches, base, plan, erased, doomed, view, writes>>

\* SELECT MAX(version) ... FOR UPDATE, first in the transaction.  PostgreSQL
\* rejects FOR UPDATE beside an aggregate; a database that accepts it waits for
\* the rows, locks them and returns what they then say.
LockVersion(r) ==
    LET wanted == RowsToLock(Travel(r))
    IN  \/ database = "rejects" /\ Refuse(r, "lock", "error")
        \/ /\ database = "locks"
           /\ wanted \cap LockedByOthers(r) = {}
           /\ ~SameVersion(r)
           /\ Refuse(r, "lock", "conflict")
        \/ /\ database = "locks"
           /\ wanted \cap LockedByOthers(r) = {}
           /\ SameVersion(r)
           /\ Goto(r, "lock", "erase")
           /\ holds' = [holds EXCEPT ![r] = wanted]
           /\ UNCHANGED <<expenses, tables, caches, base, plan, erased, doomed, answer>>

\* What the DELETE of a travel's settlements finds.
RowsToErase(t) == rows[t]

\* DELETE, then INSERT of the computed plan, then the audit entry.  A failed
\* audit statement is caught and logged, but leaves the transaction doomed.
ErasePlan(r) ==
    LET found == RowsToErase(Travel(r))
    IN  /\ found \cap LockedByOthers(r) = {}
        /\ Goto(r, "erase", "commit")
        /\ erased' = [erased EXCEPT ![r] = found]
        /\ holds' = [holds EXCEPT ![r] = @ \cup found]
        /\ \E failed \in BOOLEAN : doomed' = [doomed EXCEPT ![r] = failed]
        /\ UNCHANGED <<expenses, tables, caches, base, plan, answer>>

NextVersion(r) == base[r] + 1

\* COMMIT of a save.  A doomed transaction is rolled back and the client sees
\* no error.
CommitPlan(r) ==
    LET t == Travel(r)
        new == IdsOf(r, t, plan[r])
    IN  /\ Goto(r, "commit", "drop")
        /\ holds' = Released(r)
        /\ erased' = [erased EXCEPT ![r] = {}]
        /\ \/ doomed[r] /\ UNCHANGED tables
           \/ /\ ~doomed[r]
              /\ rows' = [rows EXCEPT ![t] = (@ \ erased[r]) \cup new]
              /\ version' = [id \in IDS |-> IF id \in new THEN NextVersion(r) ELSE version[id]]
              /\ audit' = audit \cup {r}
              /\ UNCHANGED completed
        /\ UNCHANGED <<expenses, caches, base, plan, doomed, answer>>

\* Mutated form: the status is looked up wrongly.
NeverPending(r) == FALSE

Pending(r) == ask[r].row \notin completed

\* SELECT ... FOR UPDATE of one row, and for a pending row the UPDATE and the
\* audit entry.  The UPDATE's condition on the version holds: the row is locked.
LockRow(r) ==
    LET id == ask[r].row
    IN  /\ id \notin LockedByOthers(r)
        /\ \/ id \notin rows[Travel(r)] /\ Refuse(r, "row", "missing")
           \/ /\ id \in rows[Travel(r)] /\ ~Pending(r)
              /\ Goto(r, "row", "drop")
              /\ UNCHANGED <<expenses, tables, caches, transaction, answer>>
           \/ /\ id \in rows[Travel(r)] /\ Pending(r)
              /\ Goto(r, "row", "complete")
              /\ holds' = [holds EXCEPT ![r] = {id}]
              /\ \E failed \in BOOLEAN : doomed' = [doomed EXCEPT ![r] = failed]
              /\ UNCHANGED <<expenses, tables, caches, base, plan, erased, answer>>

\* COMMIT of a completion.
CommitCompletion(r) ==
    LET id == ask[r].row
    IN  /\ Goto(r, "complete", "drop")
        /\ holds' = Released(r)
        /\ \/ doomed[r] /\ UNCHANGED tables
           \/ /\ ~doomed[r]
              /\ completed' = completed \cup {id}
              /\ version' = [version EXCEPT ![id] = @ + 1]
              /\ audit' = audit \cup {r}
              /\ UNCHANGED rows
        /\ UNCHANGED <<expenses, caches, base, plan, erased, doomed, answer>>

\* After a save or a completion the cached summary goes.
DropSummary(r) ==
    /\ Goto(r, "drop", "lookup")
    /\ cache' = [cache EXCEPT ![Travel(r)] = NoView]
    /\ UNCHANGED <<expenses, tables, replay, transaction, answer>>

-----------------------------------------------------------------------------

\* getSettlementSummary: the cached summary, or membership and then the tables.
Lookup(r) ==
    LET cached == cache[Travel(r)]
    IN  \/ cached # NoView /\ Answer(r, "lookup", cached, KeptUnderKey(r))
        \/ /\ cached = NoView
           /\ Goto(r, "lookup", "query")
           /\ UNCHANGED <<expenses, tables, caches, transaction, answer>>
        \/ cached = NoView /\ Refuse(r, "lookup", "forbidden")

QuerySummary(r) ==
    LET all == rows[Travel(r)]
    IN  Answer(r, "query", [all |-> all, paid |-> all \cap completed],
               {"summary"} \cup KeptUnderKey(r))

\* A cache write the request started reaches the cache.
WriteSummary(r) ==
    /\ "summary" \in writes[r]
    /\ writes' = [writes EXCEPT ![r] = @ \ {"summary"}]
    /\ cache' = [cache EXCEPT ![Travel(r)] = view[r]]
    /\ UNCHANGED <<setting, expenses, tables, replay, pc, transaction, view, reply>>

WriteReplay(r) ==
    /\ "replay" \in writes[r]
    /\ writes' = [writes EXCEPT ![r] = @ \ {"replay"}]
    /\ replay' = [replay EXCEPT ![ask[r].key] = view[r]]
    /\ UNCHANGED <<setting, expenses, tables, cache, pc, transaction, view, reply>>

-----------------------------------------------------------------------------

\* The expense service changes what there is to settle.
ChangeExpenses ==
    /\ \E t \in TRAVELS : \E l \in LEDGERS : expenses' = [expenses EXCEPT ![t] = l]
    /\ UNCHANGED <<setting, tables, caches, pc, transaction, answer>>

\* A cached value reaches the end of its time to live, or another service drops
\* the summary because the expenses or the members changed.
Expire ==
    /\ \/ \E t \in TRAVELS : cache[t] # NoView /\ cache' = [cache EXCEPT ![t] = NoView]
                             /\ UNCHANGED replay
       \/ \E k \in KEYS : replay[k] # NoView /\ replay' = [replay EXCEPT ![k] = NoView]
                          /\ UNCHANGED cache
    /\ UNCHANGED <<setting, expenses, tables, pc, transaction, answer>>

Work(r) ==
    \/ CheckKey(r) \/ ReadVersion(r) \/ ComputePlan(r)
    \/ LockVersion(r) \/ ErasePlan(r) \/ CommitPlan(r)
    \/ LockRow(r) \/ CommitCompletion(r) \/ DropSummary(r)
    \/ Lookup(r) \/ QuerySummary(r)

Step(r) == Arrive(r) \/ Work(r) \/ WriteSummary(r) \/ WriteReplay(r)

Next == (\E r \in REQUESTS : Step(r)) \/ ChangeExpenses \/ Expire

Spec == Init /\ [][Next]_vars

\* Node runs the continuations of awaited calls and the database answers: as long
\* as some request that has arrived can go on, one of them does.
SomeWork == \E r \in REQUESTS : Work(r)

FairSpec == Spec /\ WF_vars(SomeWork)

-----------------------------------------------------------------------------

TypeOK ==
    /\ database \in DATABASES
    /\ expenses \in [TRAVELS -> LEDGERS]
    /\ rows \in [TRAVELS -> SUBSET IDS]
    /\ completed \subseteq IDS
    /\ version \in [IDS -> Nat]
    /\ audit \subseteq REQUESTS
    /\ cache \in [TRAVELS -> View]
    /\ replay \in [KEYS -> View]
    /\ ask \in ASKS
    /\ pc \in [REQUESTS -> {"new", "key", "version", "balances", "lock", "erase", "commit",
                            "row", "complete", "drop", "lookup", "query", "done"}]
    /\ base \in [REQUESTS -> Nat]
    /\ plan \in [REQUESTS -> SUBSET TRANSFERS]
    /\ holds \in [REQUESTS -> SUBSET IDS]
    /\ erased \in [REQUESTS -> SUBSET IDS]
    /\ doomed \in [REQUESTS -> BOOLEAN]
    /\ view \in [REQUESTS -> View]
    /\ reply \in [REQUESTS -> {"none", "ok", "forbidden", "nothing", "conflict", "missing", "error"}]
    /\ writes \in [REQUESTS -> SUBSET {"summary", "replay"}]

\* The settlements stored for a travel all come from one save: overlapping saves
\* never leave two plans side by side (lines 357-415).
OnePlanStored ==
    \A t \in TRAVELS : \A a, b \in rows[t] : a[1] = b[1]

\* "Of two users that ask at the same time the second gets 409 Conflict"
\* (controller, line 60): two saves of a travel never both commit on top of the
\* same version.
SecondSaveConflicts ==
    \A r, q \in SAVERS :
        r # q /\ Travel(r) = Travel(q) /\ {r, q} \subseteq audit => base[r] # base[q]

\* A save that is about to commit erases no row that changed to a version it had
\* not read, so a completion that raised the newest version is not lost to it
\* (lines 340-372).
ErasesOnlyWhatItSaw ==
    \A r \in SAVERS :
        pc[r] = "commit" => \A id \in erased[r] : version[id] <= base[r]

\* An answer without error means that the change is in the table, unless the
\* audit statement failed (lines 417-437 and 506-512).
AnsweredIsStored ==
    /\ \A r \in SAVERS : reply[r] = "ok" /\ plan[r] # {} => r \in audit \/ doomed[r]
    /\ \A r \in MARKERS : reply[r] = "ok" => ask[r].row \in completed \/ doomed[r]

\* "A failing audit log must not affect the main function" (line 226): an answer
\* without error means that the settlement is completed.
AuditFailureHarmless ==
    \A r \in MARKERS : reply[r] = "ok" => ask[r].row \in completed

\* A save fails only as it says: not a member, nothing to settle, conflict
\* (lines 309, 354 and 369).
SaveFailsAsDocumented ==
    \A r \in SAVERS : reply[r] \in {"none", "ok", "forbidden", "nothing", "conflict"}

\* The request was refused with a conflict, a missing row, an empty plan or a
\* database error, or its doomed transaction is over.
Failed(r) ==
    \/ reply[r] \in {"nothing", "conflict", "missing", "error"}
    \/ doomed[r] /\ pc[r] \in {"drop", "lookup", "query", "done"}

\* A failed request has left neither an audit entry nor a row nor a lock behind,
\* although what failed in a doomed transaction was caught and the request goes on
\* to answer without error (lines 225-230, 353-372 and 460-464).
FailedLeavesNoTrace ==
    \A r \in REQUESTS :
        Failed(r) =>
            /\ r \notin audit
            /\ \A t \in TRAVELS : \A id \in rows[t] : id[1] # r
            /\ holds[r] = {}

\* Transactions, locks and overlapping requests together still only do what
\* SettlementBook allows: replace a whole plan under a newer version, or complete
\* one pending settlement.
ImplementsBook == Book!Spec

\* Row locks are given back and nobody waits for ever: again and again every
\* request that has arrived has been answered.
EveryRequestAnswered ==
    []<>(\A r \in REQUESTS : pc[r] \in {"new", "done"})

=============================================================================
