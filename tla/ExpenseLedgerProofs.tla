-------------------------- MODULE ExpenseLedgerProofs --------------------------
(***************************************************************************)
(* What holds of the expenses of a travel for any users, processes and     *)
(* requests.                                                               *)
(*                                                                         *)
(* Three arguments: a request that has a context keeps it, and every       *)
(* context is of people who were members; a request that failed has never  *)
(* been where a recording or deletion has; and an untrue context in Redis  *)
(* has a request behind it that is going to drop it.                       *)
(***************************************************************************)
EXTENDS ExpenseLedger, TLAPS

\* A request goes by a context from the moment it has one, and has a list to write
\* or a context to write only then.
ContextKept ==
    \A r \in REQUESTS :
        /\ at[r] \in {"loaded", "avatars", "ready", "query", "updating", "deleting", "recorded"} =>
              KIND[r] \in {"create", "update", "delete", "list"} /\ context[r] # NoValue
        /\ "context" \in writes[r] => context[r] # NoValue
        /\ at[r] = "deleting" => KIND[r] = "delete"
        /\ at[r] = "updating" => KIND[r] = "update"
        /\ at[r] = "recorded" => KIND[r] # "list"
        /\ at[r] = "query" => KIND[r] = "list"
        /\ at[r] = "changed" => KIND[r] \in {"leave", "join"}
        /\ at[r] \in {"shared", "members", "denied"} => KIND[r] \in {"create", "update", "delete", "list"}

\* Whatever names an expense, it was committed, for participants from its context.
CommittedOnly ==
    /\ \A r \in REQUESTS :
          \/ r \in ledger
          \/ list # NoValue /\ r \in list.expenses
          \/ \E q \in REQUESTS : r \in found[q]
          => KIND[r] = "create" /\ at[r] \in Committed
    /\ \A r \in ledger \cap REQUESTS :
          context[r] # NoValue /\ Charged(r) \subseteq context[r].members
    /\ \A r \in REQUESTS : KIND[r] = "delete" /\ at[r] \in Committed => Old \notin ledger

\* Every context is of people who were members once.
ContextsOfThePast ==
    /\ members \subseteq past
    /\ \A p \in PROCESSES : local[p] # NoValue => local[p].members \subseteq past
    /\ shared # NoValue => shared.members \subseteq past
    /\ \A r \in REQUESTS : context[r] # NoValue => context[r].members \subseteq past

\* A request that is going to drop the context: a joining that is about to fail is not.
Dropping(r) ==
    \/ at[r] \in {"announced", "dropping"}
    \/ at[r] = "changed" /\ (KIND[r] = "leave" \/ CALLER[r] \in members)

DroppedSoon ==
    /\ shared # NoValue =>
          \/ shared.members = members \/ "context" \in late
          \/ \E r \in REQUESTS : Dropping(r)
    /\ list # NoValue =>
          \/ list.expenses = ledger \/ "list" \in late
          \/ \E r \in REQUESTS : at[r] = "recorded"

IInv == TypeOK /\ ContextKept /\ CommittedOnly /\ ContextsOfThePast /\ DroppedSoon /\ DeletedOnce

\* The initial state satisfies the invariant.
LEMMA InitInv == Init => IInv
BY LedgerAssumption DEF Init, IInv, TypeOK, ContextKept, CommittedOnly, ContextsOfThePast,
   DroppedSoon, DeletedOnce, Committed, EXPENSES, Context, List, Done

\* Every step keeps the types.
LEMMA TypesStay ==
    ASSUME TypeOK /\ ContextKept, [Next]_vars
    PROVE  TypeOK'
<1> USE LedgerAssumption, NoValueAssumption
    DEF TypeOK, ContextKept, EXPENSES, Context, List, Done, tables, caches, history,
       work, Goto, GoBy, RememberLocally, Includes, Wrote
<1>1. ASSUME NEW r \in REQUESTS, FindContext(r) PROVE TypeOK'
  BY SMTT(40), <1>1 DEF FindContext
<1>2. ASSUME NEW r \in REQUESTS, ReadShared(r) PROVE TypeOK'
  BY <1>2 DEF ReadShared
<1>3. ASSUME NEW r \in REQUESTS, KeepShared(r) PROVE TypeOK'
  BY <1>3 DEF KeepShared
<1>4. ASSUME NEW r \in REQUESTS, ReadMembers(r) PROVE TypeOK'
  <2>1. [members |-> members, maps |-> TRUE] \in Context
    OBVIOUS
  <2>2. context' = context \/ \E c \in Context : context' = [context EXCEPT ![r] = c]
    BY <1>4, <2>1 DEF ReadMembers
  <2>3. context' \in [REQUESTS -> Context \cup {NoValue}]
    BY <2>2
  <2>4. at' \in [REQUESTS -> {"away", "new", "shared", "loaded", "members", "avatars", "ready", "query",
                             "deleting", "updating", "recorded", "changed", "announced", "dropping"} \cup Done]
    BY <1>4 DEF ReadMembers
  <2>5. UNCHANGED <<members, ledger, local, shared, list, past, late, found, writes, known>>
    BY <1>4 DEF ReadMembers
  <2> QED
    BY <2>3, <2>4, <2>5
<1>5. ASSUME NEW r \in REQUESTS, KeepContext(r) PROVE TypeOK'
  BY <1>5 DEF KeepContext
<1>6. ASSUME NEW r \in REQUESTS, WriteContext(r) PROVE TypeOK'
  <2>1. context[r] \in Context
    BY <1>6 DEF WriteContext
  <2>2. [members |-> context[r].members, maps |-> FALSE] \in Context
    BY <2>1
  <2> QED
    BY <1>6, <2>2 DEF WriteContext
<1>7. ASSUME NEW r \in REQUESTS, Record(r) PROVE TypeOK'
  BY <1>7 DEF Record
<1>8. ASSUME NEW r \in REQUESTS, FindUpdated(r) PROVE TypeOK'
  BY <1>8 DEF FindUpdated
<1>9. ASSUME NEW r \in REQUESTS, Update(r) PROVE TypeOK'
  BY <1>9 DEF Update
<1>10. ASSUME NEW r \in REQUESTS, FindExpense(r) PROVE TypeOK'
  BY <1>10 DEF FindExpense
<1>11. ASSUME NEW r \in REQUESTS, Delete(r) PROVE TypeOK'
  BY <1>11 DEF Delete
<1>12. ASSUME NEW r \in REQUESTS, ReadList(r) PROVE TypeOK'
  BY ZenonT(40), <1>12 DEF ReadList
<1>13. ASSUME NEW r \in REQUESTS, QueryList(r) PROVE TypeOK'
  <2>1. found' \in [REQUESTS -> SUBSET EXPENSES]
    BY <1>13 DEF QueryList
  <2>2. writes' \in [REQUESTS -> SUBSET {"context", "list"}]
    BY <1>13 DEF QueryList
  <2>3. \E place \in {"answered", "refused"} : at' = [at EXCEPT ![r] = place]
    BY <1>13 DEF QueryList
  <2>4. UNCHANGED <<members, ledger, local, shared, list, past, late, context, known>>
    BY <1>13 DEF QueryList
  <2> QED
    BY <2>1, <2>2, <2>3, <2>4
<1>14. ASSUME NEW r \in REQUESTS, WriteList(r) PROVE TypeOK'
  BY <1>14 DEF WriteList
<1>15. ASSUME NEW r \in REQUESTS, ChangeMembers(r) PROVE TypeOK'
  BY SMTT(40), <1>15 DEF ChangeMembers
<1>16. ASSUME NEW r \in REQUESTS, Announce(r) PROVE TypeOK'
  BY <1>16 DEF Announce
<1>17. ASSUME NEW r \in REQUESTS, DropList(r) PROVE TypeOK'
  BY <1>17 DEF DropList
<1>18. ASSUME NEW r \in REQUESTS, DropLocal(r) PROVE TypeOK'
  BY <1>18 DEF DropLocal
<1>19. ASSUME NEW r \in REQUESTS, DropShared(r) PROVE TypeOK'
  BY <1>19 DEF DropShared
<1>20. CASE Expire
  <2>1. local' \in [PROCESSES -> Context \cup {NoValue}]
    BY <1>20 DEF Expire
  <2>2. shared' \in Context \cup {NoValue} /\ list' \in List \cup {NoValue}
    BY <1>20 DEF Expire
  <2>3. late' \in SUBSET {"context", "list"}
    BY <1>20 DEF Expire
  <2> QED
    BY <1>20, <2>1, <2>2, <2>3 DEF Expire
<1>21. CASE UNCHANGED vars
  BY <1>21 DEF vars
<1> QED
  BY <1>1, <1>2, <1>3, <1>4, <1>5, <1>6, <1>7, <1>8, <1>9, <1>10, <1>11, <1>12, <1>13,
     <1>14, <1>15, <1>16, <1>17, <1>18, <1>19, <1>20, <1>21 DEF Next, Work, Write

\* A request keeps the context it goes by.
LEMMA ContextStays ==
    ASSUME TypeOK /\ ContextKept, [Next]_vars
    PROVE  ContextKept'
<1> USE LedgerAssumption, NoValueAssumption
    DEF TypeOK, ContextKept, Context, Done, tables, caches, history, work, Goto, GoBy,
       RememberLocally, Includes, Wrote
<1>1. ASSUME NEW r \in REQUESTS, FindContext(r) PROVE ContextKept'
  BY <1>1 DEF FindContext
<1>2. ASSUME NEW r \in REQUESTS, ReadShared(r) PROVE ContextKept'
  BY <1>2 DEF ReadShared
<1>3. ASSUME NEW r \in REQUESTS, KeepShared(r) PROVE ContextKept'
  BY <1>3 DEF KeepShared
<1>4. ASSUME NEW r \in REQUESTS, ReadMembers(r) PROVE ContextKept'
  <2>1. [members |-> members, maps |-> TRUE] \in Context
    OBVIOUS
  <2>2. [members |-> members, maps |-> TRUE] # NoValue
    BY <2>1
  <2> QED
    BY <1>4, <2>2 DEF ReadMembers
<1>5. ASSUME NEW r \in REQUESTS, KeepContext(r) PROVE ContextKept'
  BY <1>5 DEF KeepContext
<1>6. ASSUME NEW r \in REQUESTS, WriteContext(r) PROVE ContextKept'
  BY <1>6 DEF WriteContext
<1>7. ASSUME NEW r \in REQUESTS, Record(r) PROVE ContextKept'
  BY <1>7 DEF Record
<1>8. ASSUME NEW r \in REQUESTS, FindUpdated(r) PROVE ContextKept'
  BY <1>8 DEF FindUpdated
<1>9. ASSUME NEW r \in REQUESTS, Update(r) PROVE ContextKept'
  BY <1>9 DEF Update
<1>10. ASSUME NEW r \in REQUESTS, FindExpense(r) PROVE ContextKept'
  BY <1>10 DEF FindExpense
<1>11. ASSUME NEW r \in REQUESTS, Delete(r) PROVE ContextKept'
  BY <1>11 DEF Delete
<1>12. ASSUME NEW r \in REQUESTS, ReadList(r) PROVE ContextKept'
  BY <1>12 DEF ReadList
<1>13. ASSUME NEW r \in REQUESTS, QueryList(r) PROVE ContextKept'
  BY <1>13 DEF QueryList
<1>14. ASSUME NEW r \in REQUESTS, WriteList(r) PROVE ContextKept'
  BY <1>14 DEF WriteList
<1>15. ASSUME NEW r \in REQUESTS, ChangeMembers(r) PROVE ContextKept'
  BY <1>15 DEF ChangeMembers
<1>16. ASSUME NEW r \in REQUESTS, Announce(r) PROVE ContextKept'
  BY <1>16 DEF Announce
<1>17. ASSUME NEW r \in REQUESTS, DropList(r) PROVE ContextKept'
  BY <1>17 DEF DropList
<1>18. ASSUME NEW r \in REQUESTS, DropLocal(r) PROVE ContextKept'
  BY <1>18 DEF DropLocal
<1>19. ASSUME NEW r \in REQUESTS, DropShared(r) PROVE ContextKept'
  BY <1>19 DEF DropShared
<1>20. CASE Expire
  BY <1>20 DEF Expire
<1>21. CASE UNCHANGED vars
  BY <1>21 DEF vars
<1> QED
  BY <1>1, <1>2, <1>3, <1>4, <1>5, <1>6, <1>7, <1>8, <1>9, <1>10, <1>11, <1>12, <1>13,
     <1>14, <1>15, <1>16, <1>17, <1>18, <1>19, <1>20, <1>21 DEF Next, Work, Write

\* What a table, a list or an answer names stays committed.
LEMMA CommitsStay ==
    ASSUME TypeOK /\ ContextKept /\ CommittedOnly, [Next]_vars
    PROVE  CommittedOnly'
<1> USE LedgerAssumption, NoValueAssumption
    DEF TypeOK, ContextKept, CommittedOnly, Committed, Charged, EXPENSES, Context, List,
       tables, caches, history, work, Goto, GoBy, RememberLocally, Includes, Wrote
<1>1. ASSUME NEW r \in REQUESTS, FindContext(r) PROVE CommittedOnly'
  <2>1. /\ at[r] = "new" /\ UNCHANGED <<ledger, list, found>>
        /\ \E place \in {"ready", "shared"} : at' = [at EXCEPT ![r] = place]
        /\ \A q \in REQUESTS \ {r} : context'[q] = context[q]
    BY <1>1 DEF FindContext
  <2>2. r \notin ledger
    BY <2>1
  <2> QED
    BY <2>1, <2>2
<1>2. ASSUME NEW r \in REQUESTS, ReadShared(r) PROVE CommittedOnly'
  BY SMTT(40), <1>2 DEF ReadShared
<1>3. ASSUME NEW r \in REQUESTS, KeepShared(r) PROVE CommittedOnly'
  BY <1>3 DEF KeepShared
<1>4. ASSUME NEW r \in REQUESTS, ReadMembers(r) PROVE CommittedOnly'
  BY SMTT(40), <1>4 DEF ReadMembers
<1>5. ASSUME NEW r \in REQUESTS, KeepContext(r) PROVE CommittedOnly'
  BY <1>5 DEF KeepContext
<1>6. ASSUME NEW r \in REQUESTS, WriteContext(r) PROVE CommittedOnly'
  BY <1>6 DEF WriteContext
<1>7. ASSUME NEW r \in REQUESTS, Record(r) PROVE CommittedOnly'
  BY <1>7 DEF Record
<1>8. ASSUME NEW r \in REQUESTS, FindUpdated(r) PROVE CommittedOnly'
  BY <1>8 DEF FindUpdated
<1>9. ASSUME NEW r \in REQUESTS, Update(r) PROVE CommittedOnly'
  BY <1>9 DEF Update
<1>10. ASSUME NEW r \in REQUESTS, FindExpense(r) PROVE CommittedOnly'
  BY SMTT(40), <1>10 DEF FindExpense
<1>11. ASSUME NEW r \in REQUESTS, Delete(r) PROVE CommittedOnly'
  BY SMTT(40), <1>11 DEF Delete
<1>12. ASSUME NEW r \in REQUESTS, ReadList(r) PROVE CommittedOnly'
  <2>1. /\ at[r] = "ready" /\ KIND[r] = "list" /\ UNCHANGED <<ledger, list, context>>
        /\ \E place \in {"answered", "refused", "query"} : at' = [at EXCEPT ![r] = place]
        /\ \/ found' = found
           \/ list # NoValue /\ found' = [found EXCEPT ![r] = list.expenses]
    BY <1>12 DEF ReadList
  <2>2. \A q, s \in REQUESTS : s \in found'[q] =>
           s \in found[q] \/ (list # NoValue /\ s \in list.expenses)
    BY <2>1
  <2> QED
    BY <2>1, <2>2
<1>13. ASSUME NEW r \in REQUESTS, QueryList(r) PROVE CommittedOnly'
  BY SMTT(40), <1>13 DEF QueryList
<1>14. ASSUME NEW r \in REQUESTS, WriteList(r) PROVE CommittedOnly'
  BY <1>14 DEF WriteList
<1>15. ASSUME NEW r \in REQUESTS, ChangeMembers(r) PROVE CommittedOnly'
  BY SMTT(40), <1>15 DEF ChangeMembers
<1>16. ASSUME NEW r \in REQUESTS, Announce(r) PROVE CommittedOnly'
  BY <1>16 DEF Announce
<1>17. ASSUME NEW r \in REQUESTS, DropList(r) PROVE CommittedOnly'
  BY <1>17 DEF DropList
<1>18. ASSUME NEW r \in REQUESTS, DropLocal(r) PROVE CommittedOnly'
  BY <1>18 DEF DropLocal
<1>19. ASSUME NEW r \in REQUESTS, DropShared(r) PROVE CommittedOnly'
  BY <1>19 DEF DropShared
<1>20. CASE Expire
  BY <1>20 DEF Expire
<1>21. CASE UNCHANGED vars
  BY <1>21 DEF vars
<1> QED
  BY <1>1, <1>2, <1>3, <1>4, <1>5, <1>6, <1>7, <1>8, <1>9, <1>10, <1>11, <1>12, <1>13,
     <1>14, <1>15, <1>16, <1>17, <1>18, <1>19, <1>20, <1>21 DEF Next, Work, Write

\* No context gains anybody who was not a member.
LEMMA PastStays ==
    ASSUME TypeOK /\ ContextKept /\ ContextsOfThePast, [Next]_vars
    PROVE  ContextsOfThePast'
<1> USE LedgerAssumption, NoValueAssumption
    DEF TypeOK, ContextKept, ContextsOfThePast, Context, tables, caches, history, work,
       Goto, GoBy, RememberLocally, Includes, Wrote
<1>1. ASSUME NEW r \in REQUESTS, FindContext(r) PROVE ContextsOfThePast'
  <2>1. \A p \in PROCESSES : local'[p] # NoValue => local'[p] = local[p]
    BY <1>1 DEF FindContext
  <2>2. \A q \in REQUESTS : context'[q] = context[q] \/ context'[q] = local[PROCESS[r]]
    BY <1>1 DEF FindContext
  <2>3. UNCHANGED <<members, shared, past>>
    BY <1>1 DEF FindContext
  <2>4. PROCESS[r] \in PROCESSES
    OBVIOUS
  <2> QED
    BY <2>1, <2>2, <2>3, <2>4
<1>2. ASSUME NEW r \in REQUESTS, ReadShared(r) PROVE ContextsOfThePast'
  BY <1>2 DEF ReadShared
<1>3. ASSUME NEW r \in REQUESTS, KeepShared(r) PROVE ContextsOfThePast'
  BY <1>3 DEF KeepShared
<1>4. ASSUME NEW r \in REQUESTS, ReadMembers(r) PROVE ContextsOfThePast'
  BY <1>4 DEF ReadMembers
<1>5. ASSUME NEW r \in REQUESTS, KeepContext(r) PROVE ContextsOfThePast'
  BY <1>5 DEF KeepContext
<1>6. ASSUME NEW r \in REQUESTS, WriteContext(r) PROVE ContextsOfThePast'
  BY <1>6 DEF WriteContext
<1>7. ASSUME NEW r \in REQUESTS, Record(r) PROVE ContextsOfThePast'
  BY <1>7 DEF Record
<1>8. ASSUME NEW r \in REQUESTS, FindUpdated(r) PROVE ContextsOfThePast'
  BY <1>8 DEF FindUpdated
<1>9. ASSUME NEW r \in REQUESTS, Update(r) PROVE ContextsOfThePast'
  BY <1>9 DEF Update
<1>10. ASSUME NEW r \in REQUESTS, FindExpense(r) PROVE ContextsOfThePast'
  BY <1>10 DEF FindExpense
<1>11. ASSUME NEW r \in REQUESTS, Delete(r) PROVE ContextsOfThePast'
  BY <1>11 DEF Delete
<1>12. ASSUME NEW r \in REQUESTS, ReadList(r) PROVE ContextsOfThePast'
  BY <1>12 DEF ReadList
<1>13. ASSUME NEW r \in REQUESTS, QueryList(r) PROVE ContextsOfThePast'
  BY <1>13 DEF QueryList
<1>14. ASSUME NEW r \in REQUESTS, WriteList(r) PROVE ContextsOfThePast'
  BY <1>14 DEF WriteList
<1>15. ASSUME NEW r \in REQUESTS, ChangeMembers(r) PROVE ContextsOfThePast'
  BY <1>15 DEF ChangeMembers
<1>16. ASSUME NEW r \in REQUESTS, Announce(r) PROVE ContextsOfThePast'
  BY <1>16 DEF Announce
<1>17. ASSUME NEW r \in REQUESTS, DropList(r) PROVE ContextsOfThePast'
  BY <1>17 DEF DropList
<1>18. ASSUME NEW r \in REQUESTS, DropLocal(r) PROVE ContextsOfThePast'
  BY <1>18 DEF DropLocal
<1>19. ASSUME NEW r \in REQUESTS, DropShared(r) PROVE ContextsOfThePast'
  BY <1>19 DEF DropShared
<1>20. CASE Expire
  BY <1>20 DEF Expire
<1>21. CASE UNCHANGED vars
  BY <1>21 DEF vars
<1> QED
  BY <1>1, <1>2, <1>3, <1>4, <1>5, <1>6, <1>7, <1>8, <1>9, <1>10, <1>11, <1>12, <1>13,
     <1>14, <1>15, <1>16, <1>17, <1>18, <1>19, <1>20, <1>21 DEF Next, Work, Write

\* An untrue context or list in Redis has a request behind it that will drop it.
LEMMA DropsStay ==
    ASSUME TypeOK /\ ContextKept /\ DroppedSoon, [Next]_vars
    PROVE  DroppedSoon'
<1> USE LedgerAssumption, NoValueAssumption
    DEF TypeOK, ContextKept, DroppedSoon, Dropping, Context, List, tables, caches,
       history, work, Goto, GoBy, RememberLocally, Includes, Wrote
<1>1. ASSUME NEW r \in REQUESTS, FindContext(r) PROVE DroppedSoon'
  BY <1>1 DEF FindContext
<1>2. ASSUME NEW r \in REQUESTS, ReadShared(r) PROVE DroppedSoon'
  BY <1>2 DEF ReadShared
<1>3. ASSUME NEW r \in REQUESTS, KeepShared(r) PROVE DroppedSoon'
  BY <1>3 DEF KeepShared
<1>4. ASSUME NEW r \in REQUESTS, ReadMembers(r) PROVE DroppedSoon'
  BY <1>4 DEF ReadMembers
<1>5. ASSUME NEW r \in REQUESTS, KeepContext(r) PROVE DroppedSoon'
  BY <1>5 DEF KeepContext
<1>6. ASSUME NEW r \in REQUESTS, WriteContext(r) PROVE DroppedSoon'
  BY <1>6 DEF WriteContext
<1>7. ASSUME NEW r \in REQUESTS, Record(r) PROVE DroppedSoon'
  BY <1>7 DEF Record
<1>8. ASSUME NEW r \in REQUESTS, FindUpdated(r) PROVE DroppedSoon'
  BY <1>8 DEF FindUpdated
<1>9. ASSUME NEW r \in REQUESTS, Update(r) PROVE DroppedSoon'
  BY <1>9 DEF Update
<1>10. ASSUME NEW r \in REQUESTS, FindExpense(r) PROVE DroppedSoon'
  BY <1>10 DEF FindExpense
<1>11. ASSUME NEW r \in REQUESTS, Delete(r) PROVE DroppedSoon'
  BY <1>11 DEF Delete
<1>12. ASSUME NEW r \in REQUESTS, ReadList(r) PROVE DroppedSoon'
  BY <1>12 DEF ReadList
<1>13. ASSUME NEW r \in REQUESTS, QueryList(r) PROVE DroppedSoon'
  BY <1>13 DEF QueryList
<1>14. ASSUME NEW r \in REQUESTS, WriteList(r) PROVE DroppedSoon'
  BY <1>14 DEF WriteList
<1>15. ASSUME NEW r \in REQUESTS, ChangeMembers(r) PROVE DroppedSoon'
  BY <1>15 DEF ChangeMembers
<1>16. ASSUME NEW r \in REQUESTS, Announce(r) PROVE DroppedSoon'
  BY <1>16 DEF Announce
<1>17. ASSUME NEW r \in REQUESTS, DropList(r) PROVE DroppedSoon'
  BY <1>17 DEF DropList
<1>18. ASSUME NEW r \in REQUESTS, DropLocal(r) PROVE DroppedSoon'
  BY <1>18 DEF DropLocal
<1>19. ASSUME NEW r \in REQUESTS, DropShared(r) PROVE DroppedSoon'
  BY <1>19 DEF DropShared
<1>20. CASE Expire
  BY <1>20 DEF Expire
<1>21. CASE UNCHANGED vars
  BY <1>21 DEF vars
<1> QED
  BY <1>1, <1>2, <1>3, <1>4, <1>5, <1>6, <1>7, <1>8, <1>9, <1>10, <1>11, <1>12, <1>13,
     <1>14, <1>15, <1>16, <1>17, <1>18, <1>19, <1>20, <1>21 DEF Next, Work, Write

\* A second deletion finds the expense gone.
LEMMA OnceStays ==
    ASSUME TypeOK /\ ContextKept /\ CommittedOnly /\ DeletedOnce, [Next]_vars
    PROVE  DeletedOnce'
<1> USE LedgerAssumption, NoValueAssumption
    DEF TypeOK, ContextKept, CommittedOnly, DeletedOnce, Committed, tables, caches,
       history, work, Goto, GoBy, RememberLocally, Includes, Wrote
<1>1. ASSUME NEW r \in REQUESTS, FindContext(r) PROVE DeletedOnce'
  BY <1>1 DEF FindContext
<1>2. ASSUME NEW r \in REQUESTS, ReadShared(r) PROVE DeletedOnce'
  BY <1>2 DEF ReadShared
<1>3. ASSUME NEW r \in REQUESTS, KeepShared(r) PROVE DeletedOnce'
  BY <1>3 DEF KeepShared
<1>4. ASSUME NEW r \in REQUESTS, ReadMembers(r) PROVE DeletedOnce'
  BY <1>4 DEF ReadMembers
<1>5. ASSUME NEW r \in REQUESTS, KeepContext(r) PROVE DeletedOnce'
  BY <1>5 DEF KeepContext
<1>6. ASSUME NEW r \in REQUESTS, WriteContext(r) PROVE DeletedOnce'
  BY <1>6 DEF WriteContext
<1>7. ASSUME NEW r \in REQUESTS, Record(r) PROVE DeletedOnce'
  BY <1>7 DEF Record
<1>8. ASSUME NEW r \in REQUESTS, FindUpdated(r) PROVE DeletedOnce'
  BY <1>8 DEF FindUpdated
<1>9. ASSUME NEW r \in REQUESTS, Update(r) PROVE DeletedOnce'
  BY <1>9 DEF Update
<1>10. ASSUME NEW r \in REQUESTS, FindExpense(r) PROVE DeletedOnce'
  BY <1>10 DEF FindExpense
<1>11. ASSUME NEW r \in REQUESTS, Delete(r) PROVE DeletedOnce'
  BY <1>11 DEF Delete
<1>12. ASSUME NEW r \in REQUESTS, ReadList(r) PROVE DeletedOnce'
  BY <1>12 DEF ReadList
<1>13. ASSUME NEW r \in REQUESTS, QueryList(r) PROVE DeletedOnce'
  BY <1>13 DEF QueryList
<1>14. ASSUME NEW r \in REQUESTS, WriteList(r) PROVE DeletedOnce'
  BY <1>14 DEF WriteList
<1>15. ASSUME NEW r \in REQUESTS, ChangeMembers(r) PROVE DeletedOnce'
  BY <1>15 DEF ChangeMembers
<1>16. ASSUME NEW r \in REQUESTS, Announce(r) PROVE DeletedOnce'
  BY <1>16 DEF Announce
<1>17. ASSUME NEW r \in REQUESTS, DropList(r) PROVE DeletedOnce'
  BY <1>17 DEF DropList
<1>18. ASSUME NEW r \in REQUESTS, DropLocal(r) PROVE DeletedOnce'
  BY <1>18 DEF DropLocal
<1>19. ASSUME NEW r \in REQUESTS, DropShared(r) PROVE DeletedOnce'
  BY <1>19 DEF DropShared
<1>20. CASE Expire
  BY <1>20 DEF Expire
<1>21. CASE UNCHANGED vars
  BY <1>21 DEF vars
<1> QED
  BY <1>1, <1>2, <1>3, <1>4, <1>5, <1>6, <1>7, <1>8, <1>9, <1>10, <1>11, <1>12, <1>13,
     <1>14, <1>15, <1>16, <1>17, <1>18, <1>19, <1>20, <1>21 DEF Next, Work, Write

\* The invariant holds in every state.
THEOREM LedgerInvariant == Spec => []IInv
<1>1. ASSUME IInv, [Next]_vars PROVE IInv'
  BY <1>1, TypesStay, ContextStays, CommitsStay, PastStays, DropsStay, OnceStays DEF
     IInv
<1> QED
  BY <1>1, InitInv, PTL DEF Spec

\* The variables keep their types.
THEOREM LedgerTypes == Spec => []TypeOK
BY LedgerInvariant, PTL DEF IInv

\* Of overlapping deletions of an expense one succeeds (lines 912-950).
THEOREM OneDeletion == Spec => []DeletedOnce
BY LedgerInvariant, PTL DEF IInv

\* A recording that failed is in no table, no cached list and no answer (lines
\* 397-436).
THEOREM NothingLeft == Spec => []FailedLeavesNothing
<1>1. IInv => FailedLeavesNothing
  BY DEF IInv, TypeOK, CommittedOnly, FailedLeavesNothing, Committed, Done
<1> QED
  BY <1>1, LedgerInvariant, PTL

\* Nobody shares an expense who was never a member (lines 161-186, 253-262 and
\* 371-374).
THEOREM SharersWereMembers == Spec => []ChargedWereMembers
<1>1. IInv => ChargedWereMembers
  BY DEF IInv, TypeOK, CommittedOnly, ContextsOfThePast, ChargedWereMembers, Charged
<1> QED
  BY <1>1, LedgerInvariant, PTL

\* Redis holds the truth, or what a request is about to drop, or what was too late
\* when it was written (lines 154-160, 220-221 and 298-319).
THEOREM RedisCorrected == Spec => []RedisFollows
<1>1. IInv => RedisFollows
  BY DEF IInv, DroppedSoon, RedisFollows, Dropping
<1> QED
  BY <1>1, LedgerInvariant, PTL

\* No cache turns a member away (lines 147-186).
THEOREM Admitted == Spec => MemberAdmitted
<1> DEFINE A == \A r \in REQUESTS : at[r] # "denied" /\ at'[r] = "denied" => CALLER[r] \notin members
<1>1. ASSUME IInv, [Next]_vars PROVE A
  <2> SUFFICES ASSUME NEW q \in REQUESTS, at[q] # "denied", at'[q] = "denied"
               PROVE  CALLER[q] \notin members
    OBVIOUS
  <2> USE DEF IInv, TypeOK, Goto, tables, caches, history, work
  <2>1. ASSUME NEW r \in REQUESTS, ReadMembers(r) PROVE CALLER[q] \notin members
    BY <1>1, <2>1 DEF ReadMembers
  <2>2. ASSUME NEW r \in REQUESTS, Work(r), ~ReadMembers(r) PROVE at'[q] # "denied"
    BY <1>1, <2>2 DEF Work, FindContext, ReadShared, KeepShared, KeepContext, Record,
       FindUpdated, Update, FindExpense, Delete, ReadList, QueryList, ChangeMembers, Announce, DropList, DropLocal, DropShared
  <2>3. ASSUME NEW r \in REQUESTS, Write(r) PROVE at'[q] = at[q]
    BY <2>3 DEF Write, WriteContext, WriteList
  <2>4. Expire \/ UNCHANGED vars => at'[q] = at[q]
    BY DEF Expire, vars
  <2> QED
    BY <1>1, <2>1, <2>2, <2>3, <2>4 DEF Next
<1> QED
  BY <1>1, LedgerInvariant, PTL DEF Spec, MemberAdmitted

=============================================================================
