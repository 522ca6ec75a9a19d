------------------------ MODULE TravelMembershipProofs ------------------------
(***************************************************************************)
(* Proofs about TravelMembership, for any number of users and requests.    *)
(***************************************************************************)
EXTENDS TravelMembership, TLAPS

USE MembershipAssumption DEF KINDS

\* Where a request is tells what it is, and who takes over or removes somebody does
\* not act on himself.
Roles ==
    \A r \in REQUESTS :
        /\ at[r] = "checked" =>
              /\ KIND[r] \in {"transfer", "remove", "delete"}
              /\ KIND[r] # "delete" => CALLER[r] # TARGET[r]
        /\ at[r] \in {"travel", "demoting", "promoting", "transferring"} =>
              KIND[r] = "transfer" /\ CALLER[r] # TARGET[r]
        /\ at[r] \in {"ownRow", "leaving"} => KIND[r] = "leave"
        /\ at[r] = "invited" => KIND[r] = "join"
        /\ at[r] = "deleting" => KIND[r] = "delete"
        /\ at[r] = "committed" => KIND[r] \in {"transfer", "join"}

\* The row of the travel is locked by whoever is to write it or to leave, and stays
\* there meanwhile.
TravelHeld ==
    \A r \in REQUESTS :
        at[r] \in {"travel", "demoting", "promoting", "transferring", "leaving", "deleting"}
            => travelLock = r /\ owner # NoOne

\* So are the rows of the members.
RowsHeld ==
    \A r \in REQUESTS :
        /\ at[r] \in {"promoting", "transferring", "ownRow", "leaving"} =>
              rowLock[CALLER[r]] = r /\ role[CALLER[r]] # "none"
        /\ at[r] = "transferring" =>
              rowLock[TARGET[r]] = r /\ role[TARGET[r]] # "none"
        /\ at[r] = "leaving" => role[CALLER[r]] = "member" /\ owner # CALLER[r]

IInv ==
    /\ TypeOK
    /\ Roles
    /\ TravelHeld
    /\ RowsHeld
    /\ NoMemberOfNothing
    /\ OwnerAgreed

-----------------------------------------------------------------------------

\* The initial state has the types.
LEMMA TypeInit == Init => TypeOK
<1> SUFFICES ASSUME Init PROVE TypeOK
  OBVIOUS
<1>1. owner \in USERS \cup {NoOne} /\ travelLock \in REQUESTS \cup {NoOne} /\ stale \in BOOLEAN
  BY MembershipAssumption DEF Init
<1>2. role \in [USERS -> {"none", "member", "owner"}]
  BY DEF Init
<1>3. rowLock \in [USERS -> REQUESTS \cup {NoOne}]
  BY DEF Init
<1>4. at \in [REQUESTS -> {"new"}]
  BY DEF Init
<1> QED BY <1>1, <1>2, <1>3, <1>4 DEF TypeOK

\* The end of a transaction leaves locks of the right type, and the locks of the
\* other requests.
LEMMA ReleasedTypes ==
    ASSUME TypeOK, NEW r \in REQUESTS, Released(r)
    PROVE  /\ travelLock' \in REQUESTS \cup {NoOne}
           /\ rowLock' \in [USERS -> REQUESTS \cup {NoOne}]
           /\ \A s \in REQUESTS : s # r /\ travelLock = s => travelLock' = s
           /\ \A u \in USERS, s \in REQUESTS : s # r /\ rowLock[u] = s => rowLock'[u] = s
BY DEF TypeOK, Released

\* Every step of a request keeps the types.
LEMMA TypeStep == TypeOK /\ [Next]_vars => TypeOK'
<1> SUFFICES ASSUME TypeOK, [Next]_vars
             PROVE  TypeOK'
    OBVIOUS
<1> USE DEF TypeOK, Done, Goto, locks, MarkStale
<1>1. CASE UNCHANGED vars
    BY <1>1 DEF vars
<1>2. CASE Quiet
    BY <1>2 DEF Quiet, vars
<1>3. ASSUME NEW r \in REQUESTS, Step(r)
      PROVE  TypeOK'
    <2>0. ASSUME Refuse(r)
          PROVE  TypeOK'
        BY <2>0, ReleasedTypes DEF Refuse
    <2>1. CASE CheckOwner(r)
        BY <2>0, <2>1 DEF CheckOwner
    <2>2. CASE LockTravel(r)
        BY <2>0, <2>2 DEF LockTravel
    <2>3. CASE CheckNewOwner(r)
        BY <2>0, <2>3 DEF CheckNewOwner
    <2>4. CASE DemoteOwner(r)
        BY <2>0, <2>4 DEF DemoteOwner
    <2>5. CASE PromoteNewOwner(r)
        BY <2>0, <2>5 DEF PromoteNewOwner
    <2>6. CASE CommitTransfer(r)
        BY <2>6, ReleasedTypes DEF CommitTransfer
    <2>7. CASE RemoveMember(r)
        <3>1. CASE role[TARGET[r]] = "none"
            BY <2>0, <2>7, <3>1 DEF RemoveMember
        <3>2. CASE role[TARGET[r]] # "none"
            <4>1. stale' \in BOOLEAN
                BY <2>7, <3>2 DEF RemoveMember
            <4> QED
                BY <2>7, <3>2, <4>1 DEF RemoveMember
        <3> QED
            BY <3>1, <3>2
    <2>8. CASE LockOwnRow(r)
        BY <2>0, <2>8 DEF LockOwnRow
    <2>9. CASE LockTravelToo(r)
        BY <2>0, <2>9 DEF LockTravelToo
    <2>10. CASE CommitLeave(r)
        BY <2>10, ReleasedTypes DEF CommitLeave
    <2>11. CASE CheckInvite(r)
        BY <2>0, <2>11 DEF CheckInvite
    <2>12. CASE InsertMember(r)
        BY <2>0, <2>12 DEF InsertMember
    <2>13. CASE AnswerSummary(r)
        BY <2>13 DEF AnswerSummary
    <2>14. CASE LockToDelete(r)
        BY <2>14 DEF LockToDelete
    <2>15. CASE CommitDelete(r)
        BY <2>15, ReleasedTypes DEF CommitDelete
    <2>16. CASE AbortDeadlocked(r)
        BY <2>0, <2>16 DEF AbortDeadlocked
    <2> QED
        BY <1>3, <2>1, <2>2, <2>3, <2>4, <2>5, <2>6, <2>7, <2>8, <2>9, <2>10, <2>11,
           <2>12, <2>13, <2>14, <2>15, <2>16 DEF Step
<1> QED
    BY <1>1, <1>2, <1>3 DEF Next

\* TypeOK holds whatever the requests do.
THEOREM TypeCorrect == Spec => []TypeOK
BY TypeInit, TypeStep, PTL DEF Spec

-----------------------------------------------------------------------------

\* The invariant holds at the start.
LEMMA IInvInit == Init => IInv
<1> SUFFICES ASSUME Init
             PROVE  IInv
    OBVIOUS
<1>1. TypeOK
    BY TypeInit
<1>2. Roles /\ TravelHeld /\ RowsHeld
    BY DEF Init, Roles, TravelHeld, RowsHeld
<1>3. NoMemberOfNothing /\ OwnerAgreed
    BY DEF Init, NoMemberOfNothing, OwnerAgreed, OneOwner
<1> QED
    BY <1>1, <1>2, <1>3 DEF IInv

\* Every step keeps the invariant.
LEMMA IInvStep == IInv /\ [Next]_vars => IInv'
<1> SUFFICES ASSUME IInv, [Next]_vars
             PROVE  IInv'
    OBVIOUS
<1>0. TypeOK /\ TypeOK'
    BY TypeStep DEF IInv
<1>1. CASE UNCHANGED vars
    BY <1>0, <1>1 DEF vars, IInv, Roles, TravelHeld, RowsHeld, NoMemberOfNothing,
                      OwnerAgreed, OneOwner
<1>2. CASE Quiet
    BY <1>0, <1>2 DEF Quiet, vars, IInv, Roles, TravelHeld, RowsHeld, NoMemberOfNothing,
                      OwnerAgreed, OneOwner
<1>3. ASSUME NEW r \in REQUESTS, Step(r)
      PROVE  IInv'
    <2> USE <1>0 DEF TypeOK, IInv, Roles, TravelHeld, RowsHeld, NoMemberOfNothing,
                     OwnerAgreed, OneOwner, Goto, locks, MarkStale, Done
    <2>0. ASSUME Refuse(r)
          PROVE  IInv'
        BY <2>0, ReleasedTypes DEF Refuse
    <2>1. CASE CheckOwner(r)
        BY <2>0, <2>1 DEF CheckOwner
    <2>2. CASE LockTravel(r)
        BY <2>0, <2>2 DEF LockTravel, Clear, WaitsFor, TravelNeeded
    <2>3. CASE CheckNewOwner(r)
        BY <2>0, <2>3 DEF CheckNewOwner
    <2>4. CASE DemoteOwner(r)
        BY <2>0, <2>4 DEF DemoteOwner, Clear, WaitsFor, RowsNeeded
    <2>5. CASE PromoteNewOwner(r)
        BY <2>0, <2>5 DEF PromoteNewOwner, Clear, WaitsFor, RowsNeeded
    <2>6. CASE CommitTransfer(r)
        <3>1. Roles' /\ TravelHeld' /\ NoMemberOfNothing'
            BY <2>6, ReleasedTypes DEF CommitTransfer
        <3>2. RowsHeld'
            BY <2>6, ReleasedTypes DEF CommitTransfer
        <3>3. OwnerAgreed'
            <4>1. CASE stale' = FALSE
                <5>1. owner = CALLER[r] /\ ~stale
                    BY <2>6, <4>1 DEF CommitTransfer
                <5> QED
                    BY <2>6, <5>1 DEF CommitTransfer
            <4> QED
                BY <4>1
        <3> QED
            BY <3>1, <3>2, <3>3
    <2>7. CASE RemoveMember(r)
        BY <2>0, <2>7 DEF RemoveMember, Clear, WaitsFor, RowsNeeded
    <2>8. CASE LockOwnRow(r)
        BY <2>0, <2>8 DEF LockOwnRow, Clear, WaitsFor, RowsNeeded
    <2>9. CASE LockTravelToo(r)
        BY <2>0, <2>9 DEF LockTravelToo, Clear, WaitsFor, TravelNeeded
    <2>10. CASE CommitLeave(r)
        BY <2>10, ReleasedTypes DEF CommitLeave
    <2>11. CASE CheckInvite(r)
        BY <2>0, <2>11 DEF CheckInvite
    <2>12. CASE InsertMember(r)
        BY <2>0, <2>12 DEF InsertMember, Clear, WaitsFor, RowsNeeded
    <2>13. CASE AnswerSummary(r)
        BY <2>13 DEF AnswerSummary
    <2>14. CASE LockToDelete(r)
        BY <2>14 DEF LockToDelete, Clear, WaitsFor, TravelNeeded
    <2>15. CASE CommitDelete(r)
        BY <2>15, ReleasedTypes DEF CommitDelete, Clear, WaitsFor, RowsNeeded
    <2>16. CASE AbortDeadlocked(r)
        BY <2>0, <2>16 DEF AbortDeadlocked
    <2> QED
        BY <1>3, <2>1, <2>2, <2>3, <2>4, <2>5, <2>6, <2>7, <2>8, <2>9, <2>10, <2>11,
           <2>12, <2>13, <2>14, <2>15, <2>16 DEF Step
<1> QED
    BY <1>1, <1>2, <1>3 DEF Next

\* The invariant holds in every reachable state.
LEMMA Inductive == Spec => []IInv
BY IInvInit, IInvStep, PTL DEF Spec

\* Roles, owner_id and departures agree unless a check of the ownership was stale
\* when its request committed.
THEOREM OwnerAgrees == Spec => []OwnerAgreed
<1>1. IInv => OwnerAgreed
    BY DEF IInv
<1> QED
    BY <1>1, Inductive, PTL

\* Nobody is a member of a deleted travel.
THEOREM Emptied == Spec => []NoMemberOfNothing
<1>1. IInv => NoMemberOfNothing
    BY DEF IInv
<1> QED
    BY <1>1, Inductive, PTL

\* Nobody who leaves owns the travel, stale checks or not.
THEOREM OwnerStays == Spec => OwnerNeverLeaves
<1>1. ASSUME IInv, [Next]_vars
      PROVE  [\A r \in REQUESTS :
                 KIND[r] = "leave" /\ at[r] # "answered" /\ at'[r] = "answered"
                     => role[CALLER[r]] = "member" /\ owner # CALLER[r]]_vars
    <2> SUFFICES ASSUME Next, NEW r \in REQUESTS,
                        KIND[r] = "leave", at[r] # "answered", at'[r] = "answered"
                 PROVE  role[CALLER[r]] = "member" /\ owner # CALLER[r]
        BY <1>1
    <2>1. ~Quiet
        BY DEF Quiet, vars
    <2>2. PICK s \in REQUESTS : Step(s)
        BY <2>1 DEF Next
    <2>3. at[r] = "leaving"
        BY <1>1, <2>2 DEF Step, IInv, TypeOK, Roles, Refuse, Goto, CheckOwner, LockTravel,
            CheckNewOwner, DemoteOwner, PromoteNewOwner, CommitTransfer, RemoveMember,
            LockOwnRow, LockTravelToo, CommitLeave, CheckInvite, InsertMember,
            AnswerSummary, LockToDelete, CommitDelete, AbortDeadlocked
    <2> QED
        BY <1>1, <2>3 DEF IInv, RowsHeld
<1> QED
    BY <1>1, Inductive, PTL DEF Spec, OwnerNeverLeaves

=============================================================================
