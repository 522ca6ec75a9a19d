----------------------------- MODULE TravelCaches -----------------------------
(***************************************************************************)
(* What TravelService shows of one travel, from its caches: the travel's   *)
(* detail, each user's list of travels, the list of the members, and who   *)
(* is a member, in the memory of each process and in the shared cache.     *)
(* The transactions that change the members are one step here; module      *)
(* TravelMembership has their statements.                                  *)
(*                                                                         *)
(* A process sends its commands to the shared cache on one connection:     *)
(* writes that nobody waits for arrive together and in order, and before   *)
(* any later command of that process.                                      *)
(***************************************************************************)
EXTENDS Integers, Sequences, FiniteSets

CONSTANTS
    USERS, PROCESSES, REQUESTS,
    PLANS,          \* the jobs that are done together, functions REQUESTS -> Job
    FOUNDER, MEMBERS,       \* the owner and the members at the start
    DETAIL_TTL, LIST_TTL, ROSTER_TTL, MEMORY_TTL, MEMBER_TTL,
    LATENCY, HORIZON,       \* bounds of the model
    NoOne

KINDS == {"detail", "list", "join", "leave", "remove", "transfer", "delete", "none"}
Job == [kind : KINDS, user : USERS, target : USERS, process : PROCESSES]

\* MEMBER_LIST_REDIS_TTL and TRAVEL_DETAIL_CACHE_TTL are half a minute each (travel.service.ts:92
\* and :102), and a request takes less than half of that.
ASSUME TravelCachesAssumption ==
    /\ FOUNDER \in MEMBERS /\ MEMBERS \subseteq USERS /\ NoOne \notin USERS
    /\ PLANS \subseteq [REQUESTS -> Job]
    /\ {DETAIL_TTL, LIST_TTL, ROSTER_TTL, MEMORY_TTL, MEMBER_TTL, LATENCY, HORIZON} \subseteq Nat
    /\ ROSTER_TTL <= DETAIL_TTL /\ 2 * LATENCY <= DETAIL_TTL

VARIABLES
    now, job, at, began,
    got,        \* what a request carries: what it has read, and whether from the cached detail
    table,      \* travels.owner_id and travel_members, a Roster
    detail,     \* travel_detail:<id> and travel:detail:<id>, written and deleted together
    travels,    \* travel_list:<user>:...
    roster,     \* travel:members:<id>
    memory,     \* TRAVEL_MEMBER_CACHE of each process
    shared,     \* travel:member:<id>:<user>
    late,       \* what each process has sent to the shared cache and does not wait for
    since,      \* history: when a change was last made, and one of each user's part in the travel
    admitted,   \* history: when each user was last taken for a member
    apart       \* history: no two requests were ever under way together

requests == <<job, at, began, got>>
views == <<detail, travels, roster>>
members == <<memory, shared>>
caches == <<views, members, late>>
history == <<since, admitted, apart>>
vars == <<now, requests, table, caches, history>>

Kind(r) == job[r].kind
Caller(r) == job[r].user
\* The user whose membership the request is about.
Who(r) == IF Kind(r) \in {"remove", "transfer"} THEN job[r].target ELSE Caller(r)
Here(r) == job[r].process
Ends == {"shown", "refused", "done", "over"}
Active(r) == at[r] \notin Ends \cup {"new"}

\* A travel as it is shown: its owner's name, and its members with their roles.
Roster == [in : SUBSET USERS, owner : USERS \cup {NoOne}]
NoRoster == [in |-> {}, owner |-> NoOne]
View(host, list) == [host |-> host, list |-> list]
Absent == View(NoOne, NoRoster)
Nothing == [view |-> Absent, hit |-> FALSE, yes |-> FALSE]
NoView == [view |-> Absent, until |-> -1]
NoAnswer == [yes |-> FALSE, until |-> -1]

Init ==
    /\ now = 0
    /\ job \in PLANS
    /\ at = [r \in REQUESTS |-> "new"]
    /\ began = [r \in REQUESTS |-> 0]
    /\ got = [r \in REQUESTS |-> Nothing]
    /\ table = [in |-> MEMBERS, owner |-> FOUNDER]
    /\ detail = NoView
    /\ travels = [u \in USERS |-> NoView]
    /\ roster = NoView
    /\ memory = [p \in PROCESSES |-> [u \in USERS |-> NoAnswer]]
    /\ shared = [u \in USERS |-> NoAnswer]
    /\ late = [p \in PROCESSES |-> <<>>]
    /\ since = [travel |-> -HORIZON, part |-> [u \in USERS |-> -HORIZON]]
    /\ admitted = [u \in USERS |-> -HORIZON]
    /\ apart = TRUE

Alive(entry, none) == IF entry.until < now + 1 THEN none ELSE entry

\* No request and no write is older than LATENCY, and time has an end when there is
\* nothing left to do.  What has expired is as good as gone.
Tick ==
    /\ now < HORIZON
    /\ \E r \in REQUESTS : at[r] # "new"
    /\ \E r \in REQUESTS : Kind(r) # "none" /\ at[r] \notin Ends
    /\ \A r \in REQUESTS : Active(r) => now - began[r] < LATENCY
    /\ \A p \in PROCESSES : late[p] # <<>> => now - Head(late[p]).sent < LATENCY
    /\ now' = now + 1
    /\ detail' = Alive(detail, NoView) /\ roster' = Alive(roster, NoView)
    /\ travels' = [u \in USERS |-> Alive(travels[u], NoView)]
    /\ memory' = [p \in PROCESSES |-> [u \in USERS |-> Alive(memory[p][u], NoAnswer)]]
    /\ shared' = [u \in USERS |-> Alive(shared[u], NoAnswer)]
    /\ at' = [r \in REQUESTS |-> IF at[r] \in Ends THEN "over" ELSE at[r]]
    /\ got' = [r \in REQUESTS |-> IF at[r] \in Ends THEN Nothing ELSE got[r]]
    /\ UNCHANGED <<job, began, table, late, history>>

\* A request begins with its first step.
Goto(r, place) ==
    /\ UNCHANGED <<now, job>>
    /\ at' = [at EXCEPT ![r] = place]
    /\ began' = [began EXCEPT ![r] = IF place \in Ends THEN 0 ELSE IF at[r] = "new" THEN now ELSE @]
    /\ apart' = (apart /\ (at[r] = "new" => /\ \A s \in REQUESTS : ~Active(s)
                                            /\ \A p \in PROCESSES : late[p] = <<>>))
Go(r, place) == Goto(r, place) /\ UNCHANGED got
Bring(r, place, view, hit) ==
    Goto(r, place) /\ got' = [got EXCEPT ![r] = [view |-> view, hit |-> hit, yes |-> FALSE]]

\* The commands a process sent before have arrived.
InOrder(r) == late[Here(r)] = <<>>

Item(kind, user, view) == [kind |-> kind, user |-> user, view |-> view]
Member(u, yes) == Item(IF yes THEN "yes" ELSE "no", u, Absent)
Send(p, items) == late' = [late EXCEPT ![p] = Append(@, [items |-> items, sent |-> now])]

\* Mutant: the life of a detail is adjusted, as AdaptiveCacheService can.
DetailLifeAdjusted == 10 * DETAIL_TTL

\* It is not adjusted: nothing is read through AdaptiveCacheService, which so has no hits.
DetailLife == DETAIL_TTL

\* What one handler sent without waiting arrives.
Arrive(p) ==
    /\ late[p] # <<>>
    /\ LET sent == Head(late[p]).items
           Of(kind) == {i \in sent : i.kind = kind}
           For(kind, u) == \E i \in Of(kind) : i.user = u IN
       /\ shared' = [u \in USERS |->
             IF For("yes", u) \/ For("no", u)
             THEN [yes |-> For("yes", u), until |-> now + MEMBER_TTL] ELSE shared[u]]
       /\ detail' = IF Of("detail") = {} THEN detail
                    ELSE [view |-> (CHOOSE i \in Of("detail") : TRUE).view, until |-> now + DetailLife]
       /\ roster' = IF Of("roster") = {} THEN roster
                    ELSE [view |-> (CHOOSE i \in Of("roster") : TRUE).view, until |-> now + ROSTER_TTL]
       /\ travels' = [u \in USERS |->
             IF For("drop", u) THEN NoView
             ELSE IF For("travels", u)
             THEN [view |-> (CHOOSE i \in Of("travels") : i.user = u).view, until |-> now + LIST_TTL]
             ELSE travels[u]]
    /\ late' = [late EXCEPT ![p] = Tail(@)]
    /\ UNCHANGED <<now, requests, table, memory, history>>

-----------------------------------------------------------------------------
(* Who is a member: isMemberCached, isMember and setMemberCache.             *)

\* Mutant: a time in milliseconds is multiplied by 1000 once more.
RefillLifeInMs == 1000 * MEMORY_TTL

\* How long this process trusts an answer of the shared cache.
RefillLife == MEMORY_TTL

\* Mutant: the same slip in setMemberCache.
MemoryLifeTwice == 1000 * MEMORY_TTL

MemoryLife == MEMORY_TTL

Remember(mem, r, u, yes) ==
    [mem EXCEPT ![Here(r)][u] = [yes |-> yes, until |-> now + MemoryLife]]
Remembered(r, u) == now <= memory[Here(r)][u].until

\* The caller turns out to be a member or not: mem and items are what memory has become
\* and what is to be written on the way.  A member whose travel was in the cache is shown it,
\* and both caches of members are written anew.
Decide(r, yes, mem, items) ==
    /\ IF Kind(r) = "join"
       THEN IF yes THEN Bring(r, "refused", Absent, FALSE) ELSE Go(r, "joining")
       ELSE IF ~yes THEN Bring(r, "refused", Absent, FALSE)
       ELSE IF got[r].hit THEN Go(r, "shown") ELSE Go(r, "summary")
    /\ LET shown == yes /\ Kind(r) = "detail" /\ got[r].hit
           sent == IF shown THEN items \cup {Member(Caller(r), TRUE)} ELSE items IN
       /\ memory' = IF shown THEN Remember(mem, r, Caller(r), TRUE) ELSE mem
       /\ IF sent = {} THEN UNCHANGED late ELSE Send(Here(r), sent)
    /\ admitted' = IF yes THEN [admitted EXCEPT ![Caller(r)] = now] ELSE admitted
    /\ UNCHANGED <<table, views, shared, since>>

AskMember(r) ==
    /\ at[r] = "asking"
    /\ LET u == Caller(r) IN
       \/ Remembered(r, u) /\ Decide(r, memory[Here(r)][u].yes, memory, {})
       \/ /\ ~Remembered(r, u) /\ InOrder(r) /\ now <= shared[u].until
          /\ Decide(r, shared[u].yes,
                [memory EXCEPT ![Here(r)][u] = [yes |-> shared[u].yes, until |-> now + RefillLife]], {})
       \/ /\ ~Remembered(r, u) /\ InOrder(r) /\ now > shared[u].until
          /\ Go(r, "selecting") /\ UNCHANGED <<table, caches, since, admitted>>

SelectMember(r) ==
    /\ at[r] = "selecting"
    /\ Goto(r, "selected")
    /\ got' = [got EXCEPT ![r].yes = Caller(r) \in table.in]
    /\ UNCHANGED <<table, caches, since, admitted>>

RememberMember(r) ==
    /\ at[r] = "selected"
    /\ LET yes == got[r].yes IN
       Decide(r, yes, Remember(memory, r, Caller(r), yes), {Member(Caller(r), yes)})

-----------------------------------------------------------------------------
(* What is shown: fetchSummaryForMember and loadMembersForTravels.           *)

\* The travel's row, which only a member is shown.
ReadSummary(r) ==
    /\ at[r] = "summary"
    /\ IF Who(r) \in table.in
       THEN Bring(r, "loading", View(table.owner, NoRoster), got[r].hit)
       ELSE Bring(r, "refused", Absent, FALSE)
    /\ UNCHANGED <<table, caches, since, admitted>>

LoadMembers(r) ==
    /\ at[r] = "loading" /\ InOrder(r)
    /\ IF now <= roster.until
       THEN Bring(r, "loaded", View(got[r].view.host, roster.view), got[r].hit)
       ELSE Go(r, "rostering")
    /\ UNCHANGED <<table, caches, since, admitted>>

\* yes marks a list that was read from the table and is therefore cached.
SelectRoster(r) ==
    /\ at[r] = "rostering"
    /\ Goto(r, "loaded")
    /\ got' = [got EXCEPT ![r].view.list = table, ![r].yes = table.in # {}]
    /\ UNCHANGED <<table, caches, since, admitted>>

Loaded(r) == at[r] = "loaded"
Fresh(r) == IF got[r].yes THEN {Item("roster", NoOne, got[r].view.list)} ELSE {}

\* setCachedTravelDetail, which makes members of all it lists.
SetDetail(r, more) ==
    LET view == got[r].view IN
    /\ memory' = [memory EXCEPT ![Here(r)] = [u \in USERS |->
                     IF u \in view.list.in THEN [yes |-> TRUE, until |-> now + MemoryLife] ELSE @[u]]]
    /\ Send(Here(r), {Item("detail", NoOne, view)} \cup more \cup {Member(u, TRUE) : u \in view.list.in})
Both(r) == {Item("roster", NoOne, got[r].view.list)}

\* getTravelDetail and joinByInviteCode end with the new detail and list of members; an
\* empty list is not cached.
ShowDetail(r) ==
    /\ Loaded(r) /\ Kind(r) \in {"detail", "join"} /\ ~got[r].hit
    /\ SetDetail(r, IF got[r].view.list = NoRoster THEN {} ELSE Both(r))
    /\ IF Kind(r) = "join" THEN Bring(r, "done", Absent, FALSE) ELSE Go(r, "shown")
    /\ UNCHANGED <<table, views, shared, since, admitted>>

-----------------------------------------------------------------------------
(* getTravelDetail and listTravels.                                          *)

\* A detail that lists the caller shows it, and makes the caller a member again in both
\* caches; one that lists nobody is filled and cached; otherwise the caller is looked up.
ReadDetail(r) ==
    /\ Kind(r) = "detail" /\ at[r] = "new" /\ InOrder(r)
    /\ LET u == Caller(r) view == detail.view IN
       \/ /\ now <= detail.until /\ u \in view.list.in
          /\ Bring(r, "shown", view, TRUE)
          /\ memory' = Remember(memory, r, u, TRUE)
          /\ Send(Here(r), {Member(u, TRUE)})
          /\ admitted' = [admitted EXCEPT ![u] = now]
       \/ /\ now <= detail.until /\ u \notin view.list.in
          /\ Bring(r, IF view.list.in = {} THEN "loading" ELSE "asking", view, TRUE)
          /\ UNCHANGED <<memory, late, admitted>>
       \/ /\ now > detail.until
          /\ Bring(r, "asking", Absent, FALSE)
          /\ UNCHANGED <<memory, late, admitted>>
    /\ UNCHANGED <<table, views, shared, since>>

FillDetail(r) ==
    /\ Loaded(r) /\ Kind(r) = "detail" /\ got[r].hit
    /\ SetDetail(r, Both(r))
    /\ Go(r, "asking")
    /\ UNCHANGED <<table, views, shared, since, admitted>>

ReadList(r) ==
    /\ Kind(r) = "list" /\ at[r] = "new" /\ InOrder(r)
    /\ LET known == travels[Caller(r)] IN
       IF now <= known.until THEN Bring(r, "shown", known.view, FALSE) ELSE Go(r, "travels")
    /\ UNCHANGED <<table, caches, since, admitted>>

SelectTravels(r) ==
    /\ at[r] = "travels"
    /\ IF Caller(r) \in table.in
       THEN Bring(r, "loading", View(table.owner, NoRoster), FALSE)
       ELSE Bring(r, "loaded", Absent, FALSE)
    /\ UNCHANGED <<table, caches, since, admitted>>

ShowList(r) ==
    /\ Loaded(r) /\ Kind(r) = "list"
    /\ Go(r, "shown")
    /\ Send(Here(r), {Item("travels", Caller(r), got[r].view)} \cup Fresh(r))
    /\ UNCHANGED <<table, views, members, since, admitted>>

-----------------------------------------------------------------------------
(* The changes.  A cached invitation only says which travel: a travel that   *)
(* is gone refuses the new member all the same.                              *)

FindInvite(r) ==
    /\ Kind(r) = "join" /\ at[r] = "new"
    /\ Go(r, IF table.owner # NoOne THEN "asking" ELSE "refused")
    /\ UNCHANGED <<table, caches, since, admitted>>

Allowed(r) ==
    CASE Kind(r) = "join" -> table.owner # NoOne
      [] Kind(r) = "leave" -> Caller(r) \in table.in /\ Caller(r) # table.owner
      [] Kind(r) \in {"remove", "transfer"} ->
            table.owner = Caller(r) /\ Who(r) \in table.in /\ Who(r) # Caller(r)
      [] OTHER -> table.owner = Caller(r)

Changed(r) ==
    CASE Kind(r) = "join" -> [table EXCEPT !.in = @ \cup {Caller(r)}]
      [] Kind(r) \in {"leave", "remove"} -> [table EXCEPT !.in = @ \ {Who(r)}]
      [] Kind(r) = "transfer" -> [table EXCEPT !.owner = Who(r)]
      [] OTHER -> NoRoster

\* The transaction.  A deletion has read the members before.
Change(r) ==
    /\ \/ at[r] = "joining"
       \/ at[r] = "new" /\ Kind(r) \in {"leave", "remove", "transfer", "delete"}
    /\ IF ~Allowed(r) THEN Go(r, "refused") /\ UNCHANGED <<table, since>>
       ELSE /\ Bring(r, IF Kind(r) = "transfer" THEN "clearing" ELSE "dropping",
                     View(NoOne, table), FALSE)
            /\ table' = Changed(r)
            /\ since' = [travel |-> now,
                         part |-> [u \in USERS |-> IF (u \in table.in) # (u \in table'.in)
                                                   THEN now ELSE since.part[u]]]
    /\ UNCHANGED <<caches, admitted>>

DropLists(gone) == travels' = [u \in USERS |-> IF u \in gone THEN NoView ELSE travels[u]]

\* The user's own list and the detail; for one who departs, the answers about that one;
\* for a deletion, the lists of all.
DropDetail(r) ==
    /\ at[r] = "dropping" /\ InOrder(r)
    /\ DropLists(IF Kind(r) = "delete" THEN got[r].view.list.in ELSE {Who(r)})
    /\ detail' = NoView
    /\ IF Kind(r) \in {"leave", "remove"}
       THEN /\ memory' = [memory EXCEPT ![Here(r)][Who(r)] = NoAnswer]
            /\ shared' = [shared EXCEPT ![Who(r)] = NoAnswer]
       ELSE UNCHANGED members
    /\ Go(r, IF Kind(r) = "delete" THEN "clearing" ELSE "listing")
    /\ UNCHANGED <<table, roster, late, since, admitted>>

\* Mutant: only the list of the user who made the change is dropped.
NoMembersLists(r) == {}

\* invalidateTravelCachesForMembers asks who the members are now.
MembersLists(r) == table.in

DropMembersLists(r) ==
    /\ at[r] = "listing"
    /\ IF Kind(r) = "transfer"
       THEN /\ Send(Here(r), {Item("drop", u, Absent) : u \in MembersLists(r)})
            /\ Bring(r, "done", Absent, FALSE) /\ UNCHANGED travels
       ELSE /\ InOrder(r) /\ DropLists(MembersLists(r))
            /\ Go(r, "clearing") /\ UNCHANGED late
    /\ UNCHANGED <<table, detail, roster, members, since, admitted>>

\* invalidateMembersCacheForTravel: the memory of this process, not of the others.  One who
\* joins is then a member at once.
ClearMembers(r) ==
    /\ at[r] = "clearing" /\ InOrder(r)
    /\ LET none == [memory EXCEPT ![Here(r)] = [u \in USERS |-> NoAnswer]] IN
       IF Kind(r) = "join"
       THEN /\ memory' = Remember(none, r, Caller(r), TRUE)
            /\ Send(Here(r), {Member(Caller(r), TRUE)})
       ELSE memory' = none /\ UNCHANGED late
    /\ shared' = [u \in USERS |-> NoAnswer]
    /\ roster' = NoView
    /\ IF Kind(r) = "delete" THEN DropLists(got[r].view.list.in) ELSE UNCHANGED travels
    /\ Bring(r, IF Kind(r) \in {"join", "transfer"} THEN "summary" ELSE "done", Absent, FALSE)
    /\ UNCHANGED <<table, detail, since, admitted>>

\* transferOwnership replaces the detail and then drops the members' lists.
ReplaceDetail(r) ==
    /\ Loaded(r) /\ Kind(r) = "transfer"
    /\ SetDetail(r, Fresh(r))
    /\ Go(r, "listing")
    /\ UNCHANGED <<table, views, shared, since, admitted>>

-----------------------------------------------------------------------------

Next ==
    \/ Tick
    \/ \E p \in PROCESSES : Arrive(p)
    \/ \E r \in REQUESTS :
          \/ AskMember(r) \/ SelectMember(r) \/ RememberMember(r)
          \/ ReadSummary(r) \/ LoadMembers(r) \/ SelectRoster(r)
          \/ ReadDetail(r) \/ FillDetail(r) \/ ShowDetail(r)
          \/ ReadList(r) \/ SelectTravels(r) \/ ShowList(r)
          \/ FindInvite(r) \/ Change(r)
          \/ DropDetail(r) \/ DropMembersLists(r) \/ ClearMembers(r) \/ ReplaceDetail(r)

Spec == Init /\ [][Next]_vars

-----------------------------------------------------------------------------
(* Properties, of the step by which a request ends.                           *)

Comes(r, place) == at[r] # place /\ at'[r] = place
Truth(r) == IF Caller(r) \in table.in THEN View(table.owner, table) ELSE Absent

Larger(a, b) == IF a < b THEN b ELSE a

DETAIL_AGE == 7 * LATENCY + ROSTER_TTL + DETAIL_TTL
LIST_AGE == 8 * LATENCY + 2 * ROSTER_TTL + LIST_TTL

\* A detail or a list of travels that is shown is the one of the tables, unless a change
\* was made lately: every stale copy dies, though the list of the members is cached as it is
\* found in the cache and a detail is made of it.  What a late reader of a list has left of
\* the members is made a detail at most once, by readers of details, and renewed with it;
\* then it dies before the detail, and a list can be made of it in the meantime.
\* travel.service.ts, setCachedTravelDetail, setMemberListCache and loadMembersForTravels.
ViewsSoonTrue ==
    [][\A r \in REQUESTS :
          Comes(r, "shown") /\ (Kind(r) = "list" \/ Caller(r) \in table.in) /\ got'[r].view # Truth(r)
          => now - since.travel <= IF Kind(r) = "list" THEN LIST_AGE ELSE DETAIL_AGE]_vars

\* One who has joined is not turned away from the travel for longer than a "no" lives, in
\* the shared cache and then in the memory of a process.
\* travel.service.ts:366 isMemberCached and :499 isMember.
JoinerAdmitted ==
    [][\A r \in REQUESTS :
          Comes(r, "refused") /\ Kind(r) = "detail" /\ Caller(r) \in table.in
          => now - since.part[Caller(r)] <= 2 * LATENCY + MEMBER_TTL + MEMORY_TTL]_vars

YES_TTL == Larger(MEMORY_TTL, MEMBER_TTL)
DEPARTED_AGE == 6 * LATENCY + ROSTER_TTL + Larger(DETAIL_TTL, YES_TTL)

\* One who has departed from a travel that is still there is taken for a member only for a
\* time, which begins anew each time it happens: it is use that keeps a departed member in
\* the caches, nothing else.
\* travel.service.ts:587 getTravelDetail, which writes the answer it was given again.
DepartedKeptByUse ==
    [][\A u \in USERS :
          admitted'[u] # admitted[u] /\ u \notin table.in /\ table.owner # NoOne
          => \/ now - since.travel <= DEPARTED_AGE
             \/ now - admitted[u] <= LATENCY + YES_TTL]_vars

\* Requests that come one after another see every change at once: a change drops or replaces
\* each copy that it makes wrong.  Within one process this is so for who is a member, too.
\* travel.service.ts:266-304, :393-404 and the handlers that call them.
ChangesSeenAtOnce ==
    [][apart' => \A r \in REQUESTS :
          /\ Comes(r, "shown") /\ (Kind(r) = "list" \/ Caller(r) \in table.in) => got'[r].view = Truth(r)
          /\ (\A s, t \in REQUESTS : Here(s) = Here(t)) =>
                /\ Comes(r, "shown") => got'[r].view = Absent \/ Caller(r) \in table.in
                /\ Comes(r, "refused") /\ Kind(r) = "detail" => Caller(r) \notin table.in]_vars

\* One who is not in the cached detail is looked up in the table before being shown it.
\* travel.service.ts:607, a comment in getTravelDetail.
UnlistedAreLookedUp ==
    [][\A r \in REQUESTS :
          Comes(r, "shown") /\ Kind(r) = "detail" /\ got'[r].hit /\ at[r] # "new"
          => Caller(r) \in table.in \/ now - since.part[Caller(r)] <= LATENCY]_vars

=============================================================================
