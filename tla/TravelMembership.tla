--------------------------- MODULE TravelMembership ---------------------------
(***************************************************************************)
(* The members and the owner of one travel: TravelService's                *)
(* transferOwnership, leaveTravel, removeMember, joinByInviteCode and      *)
(* deleteTravel, run at the same time on one PostgreSQL database.          *)
(*                                                                         *)
(* A step is a statement, or several that no other request can come        *)
(* between.  Statements read the last commit (READ COMMITTED), a row that  *)
(* is written or read FOR UPDATE stays locked until the transaction ends,  *)
(* and the database breaks a cycle of waiting requests by aborting one.    *)
(***************************************************************************)
EXTENDS FiniteSets

CONSTANTS
    USERS,
    FOUNDER,    \* the user who created the travel
    MEMBERS,    \* the other members at the start
    REQUESTS,
    KIND,       \* [REQUESTS -> KINDS]
    CALLER,         \* [REQUESTS -> USERS], who calls
    TARGET,         \* [REQUESTS -> USERS], the new owner, or the member to remove
    NoOne

KINDS == {"transfer", "leave", "remove", "join", "delete"}

ASSUME MembershipAssumption ==
    /\ IsFiniteSet(USERS) /\ IsFiniteSet(REQUESTS)
    /\ FOUNDER \in USERS
    /\ MEMBERS \subseteq USERS \ {FOUNDER}
    /\ KIND \in [REQUESTS -> KINDS]
    /\ CALLER \in [REQUESTS -> USERS]
    /\ TARGET \in [REQUESTS -> USERS]
    /\ NoOne \notin USERS \cup REQUESTS

VARIABLES
    owner,      \* travels.owner_id; NoOne once the travel is deleted
    role,       \* travel_members.role, "none" where there is no row
    at,         \* where each request is
    travelLock, \* the request that holds the row of the travel
    rowLock,    \* the request that holds the row of each member
    stale       \* history: a request did its work for somebody no longer the owner

vars == <<owner, role, at, travelLock, rowLock, stale>>
locks == <<travelLock, rowLock>>

\* The ends of a request.  A request that is "lost" has committed and answers
\* with an error all the same.
Done == {"answered", "refused", "lost"}

Init ==
    /\ owner = FOUNDER
    /\ role = [u \in USERS |-> IF u = FOUNDER THEN "owner"
                               ELSE IF u \in MEMBERS THEN "member" ELSE "none"]
    /\ at = [r \in REQUESTS |-> "new"]
    /\ travelLock = NoOne
    /\ rowLock = [u \in USERS |-> NoOne]
    /\ stale = FALSE

-----------------------------------------------------------------------------
(* Locks.  The insertion of a member locks the row of the travel it refers   *)
(* to, which conflicts with FOR UPDATE.                                      *)

TravelNeeded(r) ==
    \/ at[r] = "checked" /\ KIND[r] \in {"transfer", "delete"}
    \/ at[r] \in {"ownRow", "invited"}

RowsNeeded(r) ==
    CASE at[r] = "demoting" -> {CALLER[r]}
      [] at[r] = "promoting" -> {TARGET[r]}
      [] at[r] = "invited" -> {CALLER[r]}
      [] at[r] = "new" /\ KIND[r] = "leave" -> {CALLER[r]}
      [] at[r] = "checked" /\ KIND[r] = "remove" -> {TARGET[r]}
      [] at[r] = "deleting" -> USERS
      [] OTHER -> {}

WaitsFor(r, s) ==
    /\ s # r
    /\ \/ TravelNeeded(r) /\ travelLock = s
       \/ \E u \in RowsNeeded(r) : rowLock[u] = s

\* The locks of the next statement are free.
Clear(r) == \A s \in REQUESTS : ~WaitsFor(r, s)

Goto(r, place) == at' = [at EXCEPT ![r] = place]

\* The end of a transaction, by COMMIT or ROLLBACK.
Released(r) ==
    /\ travelLock' = IF travelLock = r THEN NoOne ELSE travelLock
    /\ rowLock' = [u \in USERS |-> IF rowLock[u] = r THEN NoOne ELSE rowLock[u]]

Refuse(r) ==
    /\ Goto(r, "refused")
    /\ Released(r)
    /\ UNCHANGED <<owner, role, stale>>

\* A commit for a caller whose check of the ownership no longer holds.
MarkStale(r) == stale' = (stale \/ owner # CALLER[r])

-----------------------------------------------------------------------------

\* ensureOwner, a read before the transaction and outside it, and the check that
\* an owner does not act on himself.
CheckOwner(r) ==
    /\ at[r] = "new" /\ KIND[r] \in {"transfer", "remove", "delete"}
    /\ \/ /\ owner = CALLER[r]
          /\ KIND[r] = "delete" \/ CALLER[r] # TARGET[r]
          /\ Goto(r, "checked")
          /\ UNCHANGED <<owner, role, stale, locks>>
       \/ /\ \/ owner # CALLER[r]
             \/ KIND[r] # "delete" /\ CALLER[r] = TARGET[r]
          /\ Refuse(r)

\* transferOwnership locks the travel.  It selects owner_id and does not look at it.
LockTravel(r) ==
    /\ at[r] = "checked" /\ KIND[r] = "transfer" /\ Clear(r)
    /\ \/ /\ owner # NoOne
          /\ travelLock' = r
          /\ Goto(r, "travel")
          /\ UNCHANGED <<owner, role, stale, rowLock>>
       \/ owner = NoOne /\ Refuse(r)

\* Is the new owner a member?  A read without a lock.
CheckNewOwner(r) ==
    /\ at[r] = "travel"
    /\ \/ /\ role[TARGET[r]] # "none"
          /\ Goto(r, "demoting")
          /\ UNCHANGED <<owner, role, stale, locks>>
       \/ role[TARGET[r]] = "none" /\ Refuse(r)

DemoteOwner(r) ==
    /\ at[r] = "demoting" /\ Clear(r)
    /\ \/ /\ role[CALLER[r]] # "none"
          /\ rowLock' = [rowLock EXCEPT ![CALLER[r]] = r]
          /\ Goto(r, "promoting")
          /\ UNCHANGED <<owner, role, stale, travelLock>>
       \/ role[CALLER[r]] = "none" /\ Refuse(r)

\* The update of the new owner's role, which may find no row.
PromoteNewOwner(r) ==
    /\ at[r] = "promoting" /\ Clear(r)
    /\ \/ /\ role[TARGET[r]] # "none"
          /\ rowLock' = [rowLock EXCEPT ![TARGET[r]] = r]
          /\ Goto(r, "transferring")
          /\ UNCHANGED <<owner, role, stale, travelLock>>
       \/ role[TARGET[r]] = "none" /\ Refuse(r)

\* Mutated form: the old owner keeps the role.
CommitPromotion(r) ==
    /\ at[r] = "transferring"
    /\ role' = [role EXCEPT ![TARGET[r]] = "owner"]
    /\ owner' = TARGET[r]
    /\ MarkStale(r)
    /\ Goto(r, "committed")
    /\ Released(r)

\* The update of owner_id, and the commit.
CommitTransfer(r) ==
    /\ at[r] = "transferring"
    /\ role' = [role EXCEPT ![CALLER[r]] = "member", ![TARGET[r]] = "owner"]
    /\ owner' = TARGET[r]
    /\ MarkStale(r)
    /\ Goto(r, "committed")
    /\ Released(r)

\* removeMember locks the row of the member, deletes it and commits.
RemoveMember(r) ==
    /\ at[r] = "checked" /\ KIND[r] = "remove" /\ Clear(r)
    /\ \/ /\ role[TARGET[r]] # "none"
          /\ role' = [role EXCEPT ![TARGET[r]] = "none"]
          /\ MarkStale(r)
          /\ Goto(r, "answered")
          /\ UNCHANGED <<owner, locks>>
       \/ role[TARGET[r]] = "none" /\ Refuse(r)

\* The locking join of leaveTravel takes the row of the member first ...
LockOwnRow(r) ==
    /\ at[r] = "new" /\ KIND[r] = "leave" /\ Clear(r)
    /\ \/ /\ role[CALLER[r]] # "none"
          /\ rowLock' = [rowLock EXCEPT ![CALLER[r]] = r]
          /\ Goto(r, "ownRow")
          /\ UNCHANGED <<owner, role, stale, travelLock>>
       \/ role[CALLER[r]] = "none" /\ Refuse(r)

\* Mutated form: reads the rows and locks neither.
ReadTravelToo(r) ==
    /\ at[r] = "ownRow"
    /\ \/ /\ role[CALLER[r]] # "owner" /\ owner # CALLER[r]
          /\ Goto(r, "leaving")
          /\ rowLock' = [rowLock EXCEPT ![CALLER[r]] = NoOne]
          /\ UNCHANGED <<owner, role, stale, travelLock>>
       \/ /\ role[CALLER[r]] = "owner" \/ owner = CALLER[r]
          /\ Refuse(r)

\* ... and the row of the travel second, and sees both as they are then.  An owner
\* may not leave.
LockTravelToo(r) ==
    /\ at[r] = "ownRow" /\ Clear(r)
    /\ \/ /\ role[CALLER[r]] # "owner" /\ owner # CALLER[r]
          /\ travelLock' = r
          /\ Goto(r, "leaving")
          /\ UNCHANGED <<owner, role, stale, rowLock>>
       \/ /\ role[CALLER[r]] = "owner" \/ owner = CALLER[r]
          /\ Refuse(r)

CommitLeave(r) ==
    /\ at[r] = "leaving"
    /\ role' = [role EXCEPT ![CALLER[r]] = "none"]
    /\ Goto(r, "answered")
    /\ Released(r)
    /\ UNCHANGED <<owner, stale>>

\* The invitation and the membership may come from caches minutes old, so either
\* answer is possible whatever the tables say.
CheckInvite(r) ==
    /\ at[r] = "new" /\ KIND[r] = "join"
    /\ \/ Goto(r, "invited") /\ UNCHANGED <<owner, role, stale, locks>>
       \/ Refuse(r)

\* Mutated form: no foreign key.
InsertAnyway(r) ==
    /\ at[r] = "invited" /\ Clear(r)
    /\ role' = [role EXCEPT ![CALLER[r]] = IF @ = "none" THEN "member" ELSE @]
    /\ Goto(r, "committed")
    /\ UNCHANGED <<owner, stale, locks>>

\* joinByInviteCode inserts the member unless he is one and commits.  A travel that
\* is gone fails the foreign key.  The count of the invitation's uses is left out:
\* no invitation has a limit.
InsertMember(r) ==
    /\ at[r] = "invited" /\ Clear(r)
    /\ \/ /\ owner # NoOne
          /\ role' = [role EXCEPT ![CALLER[r]] = IF @ = "none" THEN "member" ELSE @]
          /\ Goto(r, "committed")
          /\ UNCHANGED <<owner, stale, locks>>
       \/ owner = NoOne /\ Refuse(r)

\* After the commit: fetchSummaryForMember finds no row when the new owner or the
\* new member is gone again, and the request answers NotFound.
AnswerSummary(r) ==
    /\ at[r] = "committed"
    /\ LET user == IF KIND[r] = "transfer" THEN TARGET[r] ELSE CALLER[r] IN
       \/ role[user] # "none" /\ Goto(r, "answered")
       \/ role[user] = "none" /\ Goto(r, "lost")
    /\ UNCHANGED <<owner, role, stale, locks>>

\* deleteTravel's statement reaches the travel.  It asks for no owner, and finding
\* no row is no error.
LockToDelete(r) ==
    /\ at[r] = "checked" /\ KIND[r] = "delete" /\ Clear(r)
    /\ \/ /\ owner # NoOne
          /\ travelLock' = r
          /\ Goto(r, "deleting")
       \/ /\ owner = NoOne
          /\ Goto(r, "answered")
          /\ UNCHANGED travelLock
    /\ UNCHANGED <<owner, role, stale, rowLock>>

\* Its members, expenses, settlements and invitations go with it.
CommitDelete(r) ==
    /\ at[r] = "deleting" /\ Clear(r)
    /\ owner' = NoOne
    /\ role' = [u \in USERS |-> "none"]
    /\ MarkStale(r)
    /\ Goto(r, "answered")
    /\ Released(r)

Waiting == {r \in REQUESTS : ~Clear(r)}

\* Requests that wait for each other in a circle.
Circle(R) ==
    /\ R # {}
    /\ \A r \in R : \E s \in R : WaitsFor(r, s)
    /\ \A s \in R : \E r \in R : WaitsFor(r, s)

\* Mutated form: nobody looks for deadlocks.
NoAbort(r) ==
    /\ at[r] = "never"
    /\ Refuse(r)

\* The database aborts one of them.
AbortDeadlocked(r) ==
    /\ \E R \in SUBSET Waiting : r \in R /\ Circle(R)
    /\ Refuse(r)

Step(r) ==
    \/ CheckOwner(r)
    \/ LockTravel(r) \/ CheckNewOwner(r) \/ DemoteOwner(r) \/ PromoteNewOwner(r)
    \/ CommitTransfer(r)
    \/ RemoveMember(r)
    \/ LockOwnRow(r) \/ LockTravelToo(r) \/ CommitLeave(r)
    \/ CheckInvite(r) \/ InsertMember(r)
    \/ AnswerSummary(r)
    \/ LockToDelete(r) \/ CommitDelete(r)
    \/ AbortDeadlocked(r)

\* Every request is over.
Quiet ==
    /\ \A r \in REQUESTS : at[r] \in Done
    /\ UNCHANGED vars

Next == (\E r \in REQUESTS : Step(r)) \/ Quiet

Spec == Init /\ [][Next]_vars

\* The database grants a free lock and finds deadlocks, and Node resumes a request
\* whose statement is done: as long as some request can go on, one does.
FairSpec == Spec /\ WF_vars(\E r \in REQUESTS : Step(r))

-----------------------------------------------------------------------------

TypeOK ==
    /\ owner \in USERS \cup {NoOne}
    /\ role \in [USERS -> {"none", "member", "owner"}]
    /\ at \in [REQUESTS -> {"new", "checked", "travel", "demoting", "promoting",
                            "transferring", "ownRow", "leaving", "invited",
                            "deleting", "committed"} \cup Done]
    /\ travelLock \in REQUESTS \cup {NoOne}
    /\ rowLock \in [USERS -> REQUESTS \cup {NoOne}]
    /\ stale \in BOOLEAN

\* A travel has one owner: the only member with the owner's role is the user in
\* owner_id (README.md:137, "the old host becomes a member").
OneOwner == owner # NoOne => \A u \in USERS : role[u] = "owner" <=> u = owner

\* The two records of the owner agree as long as no request acted for a user who
\* had ceased to be the owner after its check: the roles, owner_id and the
\* departures of members never drift apart in any other way (lines 1056-1104,
\* 1253-1292 and 1449-1484).
OwnerAgreed == stale \/ OneOwner

\* A deleted travel has no members, also when one joins while it is being deleted
\* (lines 1003-1026 and 1168-1190).
NoMemberOfNothing == owner = NoOne => \A u \in USERS : role[u] = "none"

\* Who leaves does not own the travel, even if the owner hands it to him at that
\* moment (lines 1257-1291; README.md:138, "not for the host").
OwnerNeverLeaves ==
    [][\A r \in REQUESTS :
          KIND[r] = "leave" /\ at[r] # "answered" /\ at'[r] = "answered"
              => role[CALLER[r]] = "member" /\ owner # CALLER[r]]_vars

\* Every request is answered although transferOwnership and leaveTravel lock the
\* travel and its members in opposite orders (lines 1063-1092 and 1258-1267).
EveryRequestAnswered == \A r \in REQUESTS : <>(at[r] \in Done)

=============================================================================
