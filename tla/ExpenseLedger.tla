----------------------------- MODULE ExpenseLedger -----------------------------
(***************************************************************************)
(* TravelExpenseService: recording, updating, deleting and listing the     *)
(* expenses of one travel while its members come and go.                   *)
(*                                                                         *)
(* Every request first needs the context of the travel, its members and    *)
(* their names, which each process caches and Redis caches for all.  The   *)
(* list of the expenses is cached in Redis.  A step is what runs between   *)
(* two awaits, or a transaction nobody sees the inside of.  Of an expense  *)
(* the model keeps that it exists; it is named by the request that         *)
(* recorded it.                                                            *)
(***************************************************************************)
CONSTANTS
    USERS,
    MEMBERS,        \* the members at the start
    PROCESSES,
    REQUESTS,
    KIND,           \* [REQUESTS -> KINDS]
    CALLER,         \* [REQUESTS -> USERS]
    PROCESS,        \* [REQUESTS -> PROCESSES], where it is handled
    SHARERS,        \* [REQUESTS -> SUBSET USERS], the participants of a new expense,
                    \*   empty for all members
    BATCHES,        \* the sets of requests that are made together
    Old, AUTHOR,    \* an expense at the start, and who recorded it
    NoValue         \* the absence of a cached value

KINDS == {"create", "update", "delete", "list", "leave", "join"}

ASSUME LedgerAssumption ==
    /\ MEMBERS \subseteq USERS
    /\ KIND \in [REQUESTS -> KINDS]
    /\ CALLER \in [REQUESTS -> USERS]
    /\ PROCESS \in [REQUESTS -> PROCESSES]
    /\ SHARERS \in [REQUESTS -> SUBSET USERS]
    /\ Old \notin REQUESTS
    /\ AUTHOR \in USERS

EXPENSES == {r \in REQUESTS : KIND[r] = "create"} \cup {Old}

\* A context and whether its maps of names, emails and avatars are maps.
Context == [members : SUBSET USERS, maps : BOOLEAN]

List == [expenses : SUBSET EXPENSES]

ASSUME NoValueAssumption == NoValue \notin Context \cup List

VARIABLES
    members,    \* travel_members
    ledger,     \* travel_expenses
    local,      \* contextCache of each process
    shared,     \* the context in Redis
    list,       \* the list in Redis
    at,         \* where each request is
    context,    \* the context each request goes by
    found,      \* the list each request has got
    writes,     \* the cache writes it has started, which nobody awaits
    known,      \* history: expenses whose recording was answered when it arrived
    past,       \* history: who has ever been a member
    late        \* history: what in Redis was no longer true when it was written

tables == <<members, ledger>>
caches == <<local, shared, list>>
work == <<context, found, writes, known>>
history == <<past, late>>
vars == <<tables, caches, history, at, work>>

\* "denied": not a member.  "refused": any other refusal, and an error that rolled
\* the transaction back.  "lost": an error after the commit.
Done == {"answered", "denied", "refused", "lost"}

Init ==
    /\ members = MEMBERS
    /\ ledger = {Old}
    /\ local = [p \in PROCESSES |-> NoValue]
    /\ shared = NoValue
    /\ list = NoValue
    /\ \E batch \in BATCHES : at = [r \in REQUESTS |-> IF r \in batch THEN "new" ELSE "away"]
    /\ context = [r \in REQUESTS |-> NoValue]
    /\ found = [r \in REQUESTS |-> {}]
    /\ writes = [r \in REQUESTS |-> {}]
    /\ known = [r \in REQUESTS |-> {}]
    /\ past = MEMBERS
    /\ late = {}

Goto(r, place) == at' = [at EXCEPT ![r] = place]

GoBy(r, c) == context' = [context EXCEPT ![r] = c]

RememberLocally(r, c) == local' = [local EXCEPT ![PROCESS[r]] = c]

\* Whether the cached context c lets the caller of r in.
Includes(c, r) == c # NoValue /\ CALLER[r] \in c.members

\* What is written to Redis, or dropped from it, was true at the time or was not.
Wrote(what, true) == late' = IF true THEN late \ {what} ELSE late \cup {what}

-----------------------------------------------------------------------------
(* getTravelContext *)

\* Mutated form: who is not in the cached context is no member.
FindContextOnly(r) ==
    /\ at[r] = "new" /\ KIND[r] \in {"create", "update", "delete", "list"}
    /\ known' = [known EXCEPT ![r] = {e \in ledger \cap REQUESTS : at[e] = "answered"}]
    /\ LET c == local[PROCESS[r]] IN
       \/ Includes(c, r) /\ GoBy(r, c) /\ Goto(r, "ready")
       \/ c # NoValue /\ ~Includes(c, r) /\ Goto(r, "denied") /\ UNCHANGED context
       \/ c = NoValue /\ Goto(r, "shared") /\ UNCHANGED context
    /\ UNCHANGED <<tables, caches, history, found, writes>>

\* The cache of the process, which a caller who is not in it throws away.
FindContext(r) ==
    /\ at[r] = "new" /\ KIND[r] \in {"create", "update", "delete", "list"}
    /\ known' = [known EXCEPT ![r] = {e \in ledger \cap REQUESTS : at[e] = "answered"}]
    /\ LET c == local[PROCESS[r]] IN
       \/ /\ Includes(c, r)
          /\ GoBy(r, c)
          /\ Goto(r, "ready")
          /\ UNCHANGED local
       \/ /\ ~Includes(c, r)
          /\ RememberLocally(r, NoValue)
          /\ Goto(r, "shared")
          /\ UNCHANGED context
    /\ UNCHANGED <<tables, shared, list, history, found, writes>>

\* Redis.
ReadShared(r) ==
    /\ at[r] = "shared"
    /\ \/ Includes(shared, r) /\ GoBy(r, shared) /\ Goto(r, "loaded")
       \/ ~Includes(shared, r) /\ Goto(r, "members") /\ UNCHANGED context
    /\ UNCHANGED <<tables, caches, history, found, writes, known>>

\* Its answer has come.
KeepShared(r) ==
    /\ at[r] = "loaded"
    /\ RememberLocally(r, context[r])
    /\ Goto(r, "ready")
    /\ UNCHANGED <<tables, shared, list, history, work>>

\* The tables.
ReadMembers(r) ==
    /\ at[r] = "members"
    /\ \/ /\ CALLER[r] \in members
          /\ GoBy(r, [members |-> members, maps |-> TRUE])
          /\ Goto(r, "avatars")
       \/ /\ CALLER[r] \notin members
          /\ Goto(r, "denied")
          /\ UNCHANGED context
    /\ UNCHANGED <<tables, caches, history, found, writes, known>>

\* After the wait for avatars the context goes to both caches.
KeepContext(r) ==
    /\ at[r] = "avatars"
    /\ RememberLocally(r, context[r])
    /\ writes' = [writes EXCEPT ![r] = @ \cup {"context"}]
    /\ Goto(r, "ready")
    /\ UNCHANGED <<tables, shared, list, history, context, found, known>>

\* As JSON, in which a map is an empty object.
WriteContext(r) ==
    /\ "context" \in writes[r]
    /\ shared' = [members |-> context[r].members, maps |-> FALSE]
    /\ Wrote("context", context[r].members = members)
    /\ writes' = [writes EXCEPT ![r] = @ \ {"context"}]
    /\ UNCHANGED <<tables, local, list, past, at, context, found, known>>

-----------------------------------------------------------------------------
(* createExpense, updateExpense, deleteExpense and listExpenses *)

\* Who shares the expense that r records.
Charged(r) == IF SHARERS[r] = {} THEN context[r].members ELSE SHARERS[r]

\* Mutated form: participants are taken as they come.
RecordForAnyone(r) ==
    /\ at[r] = "ready" /\ KIND[r] = "create"
    /\ \/ context[r].maps /\ ledger' = ledger \cup {r} /\ Goto(r, "recorded")
       \/ ~context[r].maps /\ Goto(r, "refused") /\ UNCHANGED ledger
    /\ UNCHANGED <<members, caches, history, work>>

\* Mutated form: the profiles are looked up after the commit.
RecordFirst(r) ==
    /\ at[r] = "ready" /\ KIND[r] = "create"
    /\ \/ /\ Charged(r) \subseteq context[r].members
          /\ ledger' = ledger \cup {r}
          /\ Goto(r, IF context[r].maps THEN "recorded" ELSE "refused")
       \/ /\ ~ Charged(r) \subseteq context[r].members
          /\ Goto(r, "refused")
          /\ UNCHANGED ledger
    /\ UNCHANGED <<members, caches, history, work>>

\* createExpense's transaction, which looks up the profiles before it commits.
Record(r) ==
    /\ at[r] = "ready" /\ KIND[r] = "create"
    /\ \/ /\ Charged(r) \subseteq context[r].members /\ context[r].maps
          /\ ledger' = ledger \cup {r}
          /\ Goto(r, "recorded")
       \/ /\ ~ (Charged(r) \subseteq context[r].members /\ context[r].maps)
          /\ Goto(r, "refused")
          /\ UNCHANGED ledger
    /\ UNCHANGED <<members, caches, history, work>>

\* updateExpense finds the expense and checks the participants before its transaction.
FindUpdated(r) ==
    /\ at[r] = "ready" /\ KIND[r] = "update"
    /\ Goto(r, IF Old \in ledger /\ Charged(r) \subseteq context[r].members
               THEN "updating" ELSE "refused")
    /\ UNCHANGED <<tables, caches, history, work>>

\* That the expense exists, which is all the model keeps of it, an update does not
\* change.  It counts no rows and finds no id in the answer, so an expense that is gone
\* is no error, and the participants go to no expense: whether the table takes them
\* nothing in the code says.
Update(r) ==
    /\ at[r] = "updating"
    /\ \/ context[r].maps /\ Goto(r, "recorded")
       \/ Goto(r, "refused")
    /\ UNCHANGED <<tables, caches, history, work>>

\* deleteExpense finds the expense and its author before its transaction.
FindExpense(r) ==
    /\ at[r] = "ready" /\ KIND[r] = "delete"
    /\ \/ /\ Old \in ledger /\ CALLER[r] = AUTHOR
          /\ Goto(r, "deleting")
       \/ /\ Old \notin ledger \/ CALLER[r] # AUTHOR
          /\ Goto(r, "refused")
    /\ UNCHANGED <<tables, caches, history, work>>

\* Mutated form: does not count the rows deleted.
DeleteAnyway(r) ==
    /\ at[r] = "deleting"
    /\ ledger' = ledger \ {Old}
    /\ Goto(r, "recorded")
    /\ UNCHANGED <<members, caches, history, work>>

Delete(r) ==
    /\ at[r] = "deleting"
    /\ \/ /\ Old \in ledger
          /\ ledger' = ledger \ {Old}
          /\ Goto(r, "recorded")
       \/ /\ Old \notin ledger
          /\ Goto(r, "refused")
          /\ UNCHANGED ledger
    /\ UNCHANGED <<members, caches, history, work>>

\* listExpenses finds the list in Redis, and asks the context for the profiles.
ReadList(r) ==
    /\ at[r] = "ready" /\ KIND[r] = "list"
    /\ \/ /\ list # NoValue
          /\ found' = [found EXCEPT ![r] = list.expenses]
          /\ Goto(r, IF context[r].maps THEN "answered" ELSE "refused")
       \/ /\ list = NoValue
          /\ Goto(r, "query")
          /\ UNCHANGED found
    /\ UNCHANGED <<tables, caches, history, context, writes, known>>

QueryList(r) ==
    /\ at[r] = "query"
    /\ found' = [found EXCEPT ![r] = ledger]
    /\ \/ /\ context[r].maps
          /\ writes' = [writes EXCEPT ![r] = @ \cup {"list"}]
          /\ Goto(r, "answered")
       \/ /\ ~context[r].maps
          /\ Goto(r, "refused")
          /\ UNCHANGED writes
    /\ UNCHANGED <<tables, caches, history, context, known>>

WriteList(r) ==
    /\ "list" \in writes[r]
    /\ list' = [expenses |-> found[r]]
    /\ Wrote("list", found[r] = ledger)
    /\ writes' = [writes EXCEPT ![r] = @ \ {"list"}]
    /\ UNCHANGED <<tables, local, shared, past, at, context, found, known>>

-----------------------------------------------------------------------------
(* Members come and go *)

\* What admits to a travel or keeps from leaving it is TravelMembership's subject: a
\* departure or joining may be refused.  Who is a member already may join again.
ChangeMembers(r) ==
    /\ at[r] = "new"
    /\ \/ /\ KIND[r] = "leave" /\ CALLER[r] \in members
          /\ members' = members \ {CALLER[r]}
          /\ Goto(r, "changed")
          /\ UNCHANGED past
       \/ /\ KIND[r] = "join"
          /\ members' = members \cup {CALLER[r]}
          /\ past' = past \cup {CALLER[r]}
          /\ Goto(r, "changed")
       \/ /\ KIND[r] \in {"leave", "join"}
          /\ Goto(r, "refused")
          /\ UNCHANGED <<members, past>>
    /\ UNCHANGED <<ledger, caches, late, work>>

\* The event that tells this process, and no other, that the members changed.  Who
\* joined and is gone again makes the request fail before it.
Announce(r) ==
    /\ at[r] = "changed"
    /\ \/ /\ KIND[r] = "join" /\ CALLER[r] \notin members
          /\ Goto(r, "lost")
       \/ /\ KIND[r] = "leave" \/ CALLER[r] \in members
          /\ Goto(r, "announced")
    /\ UNCHANGED <<tables, caches, history, work>>

-----------------------------------------------------------------------------
(* invalidateExpenseCaches, whose second half is all that a change of the      *)
(* members causes.                                                             *)

DropList(r) ==
    /\ at[r] = "recorded"
    /\ list' = NoValue /\ Wrote("list", TRUE)
    /\ Goto(r, "announced")
    /\ UNCHANGED <<tables, local, shared, past, work>>

DropLocal(r) ==
    /\ at[r] = "announced"
    /\ RememberLocally(r, NoValue)
    /\ Goto(r, "dropping")
    /\ UNCHANGED <<tables, shared, list, history, work>>

\* Mutated form: Redis keeps the context.
DropSharedNot(r) ==
    /\ at[r] = "dropping"
    /\ Goto(r, IF KIND[r] = "delete" /\ ~context[r].maps THEN "lost" ELSE "answered")
    /\ UNCHANGED <<tables, caches, history, work>>

\* The last drop, and the answer.  deleteExpense needs a name from the context for
\* its push message.
DropShared(r) ==
    /\ at[r] = "dropping"
    /\ shared' = NoValue /\ Wrote("context", TRUE)
    /\ Goto(r, IF KIND[r] = "delete" /\ ~context[r].maps THEN "lost" ELSE "answered")
    /\ UNCHANGED <<tables, local, list, past, work>>

\* The lifetimes of cached values end.
Expire ==
    /\ \/ \E p \in PROCESSES :
            local' = [local EXCEPT ![p] = NoValue] /\ UNCHANGED <<shared, list, late>>
       \/ shared' = NoValue /\ Wrote("context", TRUE) /\ UNCHANGED <<local, list>>
       \/ list' = NoValue /\ Wrote("list", TRUE) /\ UNCHANGED <<local, shared>>
    /\ UNCHANGED <<tables, past, at, work>>

Work(r) ==
    \/ FindContext(r) \/ ReadShared(r) \/ KeepShared(r) \/ ReadMembers(r) \/ KeepContext(r)
    \/ Record(r) \/ FindUpdated(r) \/ Update(r) \/ FindExpense(r) \/ Delete(r)
    \/ ReadList(r) \/ QueryList(r)
    \/ ChangeMembers(r) \/ Announce(r)
    \/ DropList(r) \/ DropLocal(r) \/ DropShared(r)

Write(r) == WriteContext(r) \/ WriteList(r)

Next == (\E r \in REQUESTS : Work(r) \/ Write(r)) \/ Expire

Spec == Init /\ [][Next]_vars

-----------------------------------------------------------------------------

TypeOK ==
    /\ members \in SUBSET USERS
    /\ ledger \in SUBSET EXPENSES
    /\ local \in [PROCESSES -> Context \cup {NoValue}]
    /\ shared \in Context \cup {NoValue}
    /\ list \in List \cup {NoValue}
    /\ at \in [REQUESTS -> {"away", "new", "shared", "loaded", "members", "avatars", "ready", "query", "deleting",
                            "updating", "recorded", "changed", "announced", "dropping"} \cup Done]
    /\ context \in [REQUESTS -> Context \cup {NoValue}]
    /\ found \in [REQUESTS -> SUBSET EXPENSES]
    /\ writes \in [REQUESTS -> SUBSET {"context", "list"}]
    /\ known \in [REQUESTS -> SUBSET EXPENSES]
    /\ past \in SUBSET USERS
    /\ late \in SUBSET {"context", "list"}

Committed == {"recorded", "announced", "dropping", "answered", "lost"}

\* However old the contexts in the two caches are, only the tables turn a caller
\* away: somebody who has just joined is never told that he is no member (lines
\* 147-186).
MemberAdmitted ==
    [][\A r \in REQUESTS : at[r] # "denied" /\ at'[r] = "denied" => CALLER[r] \notin members]_vars

\* Of overlapping deletions of one expense one succeeds, although each has found
\* it before (lines 912-950).
DeletedOnce ==
    \A r, q \in REQUESTS :
        KIND[r] = "delete" /\ KIND[q] = "delete" /\ at[r] \in Committed /\ at[q] \in Committed
            => r = q

\* A recording that is denied or refused, because of its participants or of a
\* context without maps, is in no table and in no list (lines 397-436).
FailedLeavesNothing ==
    \A r \in REQUESTS :
        KIND[r] = "create" /\ at[r] \in {"denied", "refused"} =>
            /\ r \notin ledger
            /\ list # NoValue => r \notin list.expenses
            /\ \A q \in REQUESTS : r \notin found[q]

\* However old the contexts are and whoever has come and gone since, nobody shares
\* an expense who was never a member (lines 161-186, 253-262 and 371-374).
ChargedWereMembers == \A r \in ledger \cap REQUESTS : Charged(r) \subseteq past

\* What Redis holds is true but for a change that is about to drop it, unless
\* something was read before a change and written after its drop: no other path
\* leaves an old value, in particular not the copies in the processes (lines
\* 154-160, 220-221 and 298-319).
RedisFollows ==
    /\ shared # NoValue =>
          \/ shared.members = members \/ "context" \in late
          \/ \E r \in REQUESTS : at[r] \in {"changed", "announced", "dropping"}
    /\ list # NoValue =>
          \/ list.expenses = ledger \/ "list" \in late
          \/ \E r \in REQUESTS : at[r] = "recorded"

\* "After a creation the cache is invalidated (synchronously) to reflect it at
\* once" (line 455): a list shows every expense that was answered before it was
\* asked for.
ReflectedAtOnce ==
    \A r \in REQUESTS : KIND[r] = "list" /\ at[r] = "answered" => known[r] \subseteq found[r]

=============================================================================
