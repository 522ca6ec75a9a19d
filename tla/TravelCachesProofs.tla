--------------------------- MODULE TravelCachesProofs ---------------------------
(***************************************************************************)
(* Theorems about module TravelCaches, for any users, requests, processes, *)
(* lifetimes and latency: how long a view may show what is no more, a      *)
(* joiner be turned away and a departed member be let in.                  *)
(*                                                                         *)
(* The argument is about the list of the members that a detail is made of. *)
(* It is cached too, and outlives the change that made it wrong; but it    *)
(* dies before the detail it was cached with, so nobody who misses that    *)
(* detail finds it.  Therefore the errors do not renew each other, and     *)
(* every wrong entry is of a reader who began before Cleared or Made.      *)
(*                                                                         *)
(* Requests that come one after another need no times: of each there is,   *)
(* whatever is wrong in a cache is what the change under way is about to   *)
(* drop, or what a write on its way is about to replace.                   *)
(***************************************************************************)
EXTENDS TravelCaches, TLAPS

-----------------------------------------------------------------------------
(* Types. *)

Views == [host : USERS \cup {NoOne}, list : Roster]
Carried == [view : Views, hit : BOOLEAN, yes : BOOLEAN]
Answer == [yes : BOOLEAN, until : Int]
Places == Ends \cup {"new", "asking", "selecting", "selected", "joining", "travels", "summary",
                     "loading", "rostering", "loaded", "dropping", "listing", "clearing"}
Items ==
    [kind : {"yes", "no"}, user : USERS, view : Views]
    \cup [kind : {"drop", "travels"}, user : USERS, view : Views]
    \cup [kind : {"detail"}, user : {NoOne}, view : Views]
    \cup [kind : {"roster"}, user : {NoOne}, view : Roster]
Batch == [items : SUBSET Items, sent : Nat]

RequestTypes ==
    /\ job \in [REQUESTS -> Job]
    /\ at \in [REQUESTS -> Places]
    /\ began \in [REQUESTS -> Nat]
    /\ got \in [REQUESTS -> Carried]

ViewTypes ==
    /\ detail \in [view : Views, until : Int]
    /\ roster \in [view : Views \cup Roster, until : Int]
    /\ now <= roster.until => roster.view \in Roster
    /\ travels \in [USERS -> [view : Views, until : Int]]

MemberTypes ==
    /\ memory \in [PROCESSES -> [USERS -> Answer]]
    /\ shared \in [USERS -> Answer]
    /\ late \in [PROCESSES -> Seq(Batch)]

HistoryTypes ==
    /\ now \in Nat
    /\ since \in [travel : Int, part : [USERS -> Int]] /\ since.travel <= now
    /\ admitted \in [USERS -> Int] /\ \A u \in USERS : admitted[u] <= now

\* A travel has its owner among its members, or is gone with all of them.
TableTypes == table \in Roster /\ (table.owner \in table.in \/ table = NoRoster)

Types == RequestTypes /\ ViewTypes /\ MemberTypes /\ HistoryTypes /\ TableTypes

-----------------------------------------------------------------------------
(* Times, from the last change on. *)

\* When a list of the members that a late reader of a list has left is gone,
Cleared == since.travel + 2 * LATENCY + ROSTER_TTL
\* the last beginning of a reader that makes a detail of a wrong one,
Made == Cleared + 2 * LATENCY
\* and when the lists of the members that those wrote are gone.
Told == Cleared + 4 * LATENCY + ROSTER_TTL

There == table.owner # NoOne
Right == View(table.owner, table)
Shows(u) == IF u \in table.in THEN Right ELSE Absent

\* How long a departed user's "yes" may last.
Outlived(u, until) ==
    until <= since.travel + DEPARTED_AGE \/ until <= admitted[u] + LATENCY + YES_TTL

-----------------------------------------------------------------------------
(* Requests. *)

Before == {"asking", "selecting", "selected"}
Making == {"summary", "loading", "rostering"}

\* A request is under way for LATENCY at most, and a change is made after it began.
Paced(r) ==
    /\ Active(r) => began[r] <= now /\ now <= began[r] + LATENCY
    /\ at[r] \in Before => Kind(r) \in {"detail", "join"}
    /\ at[r] = "travels" => Kind(r) = "list"
    /\ at[r] = "joining" => Kind(r) = "join"
    /\ at[r] = "summary" => Kind(r) # "list"
    /\ at[r] \in {"dropping", "listing", "clearing"} =>
          Kind(r) \notin {"detail", "list"} /\ began[r] <= since.travel
    /\ at[r] \in Making \cup {"loaded"} => Kind(r) \in {"detail", "list"} \/ began[r] <= since.travel

\* What a request has read of the caller's membership was so when it read it.
Looked(r) ==
    at[r] = "selected" =>
        /\ ~got[r].yes /\ Caller(r) \in table.in => began[r] <= since.part[Caller(r)]
        /\ got[r].yes /\ Caller(r) \notin table.in => began[r] <= since.travel

\* A detail that was found in the cache, and shown to one who had to be looked up.
HitLately(r) ==
    There /\ Kind(r) = "detail" /\ at[r] \in Before /\ got[r].hit /\ got[r].view # Right
        => began[r] <= Cleared + 4 * LATENCY + DETAIL_TTL

\* What is read for a new detail, of which none was in the cache.
MissedBefore(r) == Kind(r) = "detail" /\ ~got[r].hit /\ at[r] \in Before \cup Making
Missed(r) == MissedBefore(r) => detail.until < now \/ began[r] + DETAIL_TTL <= detail.until

DetailRead(r) ==
    There /\ Kind(r) = "detail" /\ at[r] \in Making \cup {"loaded"} =>
        /\ ~got[r].hit
        /\ at[r] # "summary" => got[r].view.host = table.owner \/ began[r] <= since.travel
        /\ at[r] = "loaded" /\ got[r].view.list # table =>
              /\ began[r] <= Made
              /\ began[r] <= Cleared \/ began[r] + DETAIL_TTL <= detail.until

\* What is read for a list of travels, where the members may be of the cache.
ListRead(r) ==
    Kind(r) = "list" =>
        /\ at[r] \in {"loading", "rostering"} =>
              \/ began[r] <= since.travel
              \/ Caller(r) \in table.in /\ got[r].view.host = table.owner
        /\ at[r] = "loaded" /\ got[r].view # Shows(Caller(r)) => began[r] <= Told

\* Members that were read in the table, and are written to the cache.
TableRead(r) ==
    at[r] = "loaded" =>
        /\ got[r].yes /\ got[r].view.list # table => began[r] <= since.travel
        /\ There /\ (Kind(r) # "list" \/ got[r].yes) => got[r].view.list.in # {}

RequestOK(r) ==
    /\ Paced(r) /\ Looked(r) /\ HitLately(r) /\ Missed(r)
    /\ DetailRead(r) /\ ListRead(r) /\ TableRead(r)

-----------------------------------------------------------------------------
(* Writes that are under way, and caches. *)

AnswerSent(i, sent) ==
    /\ i.kind = "no" /\ i.user \in table.in => sent <= since.part[i.user] + LATENCY
    /\ i.kind = "yes" /\ There /\ i.user \notin table.in =>
          sent <= Cleared + 3 * LATENCY \/ sent <= admitted[i.user]

ViewSent(i, sent) ==
    /\ i.kind = "travels" /\ i.view # Shows(i.user) => sent <= Told + LATENCY
    /\ i.kind = "detail" /\ There =>
          i.view.list.in # {} /\ (i.view # Right => sent <= Cleared + 3 * LATENCY)

\* A list of the members that is wrong was read before the change, or comes with a detail.
RosterSent(i, items, sent) ==
    i.kind = "roster" /\ There =>
        /\ i.view.in # {}
        /\ i.view # table =>
              \/ sent <= since.travel + LATENCY
              \/ /\ \E d \in items : d.kind = "detail"
                 /\ sent <= Cleared + 3 * LATENCY
                 /\ sent <= Cleared + LATENCY \/ sent - LATENCY + DETAIL_TTL <= detail.until

SentOK(items, sent) ==
    \A i \in items : AnswerSent(i, sent) /\ ViewSent(i, sent) /\ RosterSent(i, items, sent)

LateOK(p) ==
    /\ \A k \in DOMAIN late[p] :
          /\ late[p][k].sent <= now
          /\ SentOK(late[p][k].items, late[p][k].sent)
    /\ \A k, l \in DOMAIN late[p] : k <= l => late[p][k].sent <= late[p][l].sent
    /\ late[p] # <<>> => now <= Head(late[p]).sent + LATENCY

MemoryOK(p, u) ==
    LET a == memory[p][u] IN
    /\ a.until <= now + MEMORY_TTL
    /\ now <= a.until /\ ~a.yes /\ u \in table.in =>
          a.until <= since.part[u] + 2 * LATENCY + MEMBER_TTL + MEMORY_TTL
    /\ now <= a.until /\ a.yes /\ There /\ u \notin table.in => Outlived(u, a.until)

SharedOK(u) ==
    LET a == shared[u] IN
    /\ a.until <= now + MEMBER_TTL
    /\ now <= a.until /\ ~a.yes /\ u \in table.in =>
          a.until <= since.part[u] + 2 * LATENCY + MEMBER_TTL
    /\ now <= a.until /\ a.yes /\ There /\ u \notin table.in => Outlived(u, a.until)

\* A wrong list of the members dies before the detail it came with.
RosterOK ==
    /\ roster.until <= now + ROSTER_TTL
    /\ now <= roster.until /\ There =>
          /\ roster.view.in # {}
          /\ roster.view # table =>
                /\ roster.until <= Told
                /\ roster.until <= Cleared \/ roster.until <= detail.until

DetailOK ==
    /\ detail.until <= now + DETAIL_TTL
    /\ now <= detail.until /\ There =>
          /\ detail.view.list.in # {}
          /\ detail.view # Right => detail.until <= Cleared + 4 * LATENCY + DETAIL_TTL

ListOK(u) ==
    /\ travels[u].until <= now + LIST_TTL
    /\ now <= travels[u].until /\ travels[u].view # Shows(u) =>
          travels[u].until <= Told + 2 * LATENCY + LIST_TTL

CachesOK ==
    /\ \A p \in PROCESSES : LateOK(p) /\ \A u \in USERS : MemoryOK(p, u)
    /\ \A u \in USERS : SharedOK(u) /\ ListOK(u)
    /\ RosterOK /\ DetailOK

\* No wrong list of the members is left to make a detail of.
Sound ==
    /\ now <= roster.until => roster.view = table
    /\ \A p \in PROCESSES : \A k \in DOMAIN late[p] : \A i \in late[p][k].items :
          i.kind = "roster" => i.view = table
    /\ \A s \in REQUESTS : Kind(s) = "detail" /\ at[s] = "loaded" => got[s].view.list = table

\* Who misses the detail long after the change finds it so.
LateMiss == There => \A r \in REQUESTS : MissedBefore(r) /\ began[r] > Made => Sound

CachesInv == Types /\ (\A r \in REQUESTS : RequestOK(r)) /\ CachesOK /\ LateMiss
-----------------------------------------------------------------------------
(* Constants and times. *)

\* The times to live and the latency are numbers, and a detail lives longer than a list of the
\* members does.
LEMMA Constants ==
    /\ DETAIL_TTL \in Nat /\ LIST_TTL \in Nat /\ ROSTER_TTL \in Nat /\ MEMORY_TTL \in Nat
    /\ MEMBER_TTL \in Nat /\ LATENCY \in Nat /\ HORIZON \in Nat
    /\ ROSTER_TTL <= DETAIL_TTL /\ 2 * LATENCY <= DETAIL_TTL
    /\ YES_TTL \in Nat /\ MEMORY_TTL <= YES_TTL /\ MEMBER_TTL <= YES_TTL
    /\ DEPARTED_AGE \in Nat
    /\ 6 * LATENCY + ROSTER_TTL + DETAIL_TTL <= DEPARTED_AGE
    /\ 6 * LATENCY + ROSTER_TTL + YES_TTL <= DEPARTED_AGE
<1>1. /\ DETAIL_TTL \in Nat /\ LIST_TTL \in Nat /\ ROSTER_TTL \in Nat /\ MEMORY_TTL \in Nat
      /\ MEMBER_TTL \in Nat /\ LATENCY \in Nat /\ HORIZON \in Nat
      /\ ROSTER_TTL <= DETAIL_TTL /\ 2 * LATENCY <= DETAIL_TTL
  BY TravelCachesAssumption
<1>2. YES_TTL \in Nat /\ MEMORY_TTL <= YES_TTL /\ MEMBER_TTL <= YES_TTL
  BY <1>1 DEF YES_TTL, Larger
<1> DEFINE most == Larger(DETAIL_TTL, YES_TTL)
<1>3. most \in Nat /\ DETAIL_TTL <= most /\ YES_TTL <= most
  BY <1>1, <1>2 DEF Larger
<1>5. DEPARTED_AGE = 6 * LATENCY + ROSTER_TTL + most
  BY DEF DEPARTED_AGE
<1> HIDE DEF most
<1>4. /\ DEPARTED_AGE \in Nat
      /\ 6 * LATENCY + ROSTER_TTL + DETAIL_TTL <= DEPARTED_AGE
      /\ 6 * LATENCY + ROSTER_TTL + YES_TTL <= DEPARTED_AGE
  BY <1>1, <1>2, <1>3, <1>5
<1> QED BY <1>1, <1>2, <1>4

\* The times that are counted from the last change.
LEMMA Times ==
    ASSUME HistoryTypes
    PROVE  /\ now \in Nat /\ since.travel \in Int /\ since.travel <= now
           /\ \A u \in USERS : since.part[u] \in Int /\ admitted[u] \in Int /\ admitted[u] <= now
           /\ Cleared \in Int /\ Cleared = since.travel + 2 * LATENCY + ROSTER_TTL
           /\ Made \in Int /\ Made = Cleared + 2 * LATENCY
           /\ Told \in Int /\ Told = Cleared + 4 * LATENCY + ROSTER_TTL
BY Constants DEF HistoryTypes, Cleared, Made, Told

\* What a step of request r leaves of the times and of the tables, and of the other requests.
Steady(r) ==
    /\ UNCHANGED <<now, job, table, since>>
    /\ at' \in [REQUESTS -> Places] /\ began' \in [REQUESTS -> Nat] /\ got' \in [REQUESTS -> Carried]
    /\ \A s \in REQUESTS \ {r} : at'[s] = at[s] /\ began'[s] = began[s] /\ got'[s] = got[s]

\* It may drop what is cached; the detail, only in a change.
Drops ==
    /\ detail' = detail \/ (detail' = NoView /\ now <= since.travel + LATENCY)
    /\ roster' \in {roster, NoView}
    /\ travels' \in [USERS -> [view : Views, until : Int]]
    /\ \A u \in USERS : travels'[u] \in {travels[u], NoView}
    /\ shared' \in [USERS -> Answer]
    /\ \A u \in USERS : shared'[u] \in {shared[u], NoAnswer}

\* It takes users for members now, and has its process remember who is one.
Remembers ==
    /\ admitted' \in [USERS -> Int]
    /\ \A u \in USERS : admitted'[u] \in {admitted[u], now}
    /\ memory' \in [PROCESSES -> [USERS -> Answer]]
    /\ \A p \in PROCESSES, u \in USERS : memory'[p][u] = memory[p][u] \/ MemoryOK(p, u)'

RightRosters(items) == \A i \in items : i.kind = "roster" => i.view = table

Sends ==
    \/ late' = late
    \/ \E p \in PROCESSES : \E items \in SUBSET Items :
          /\ late' = [late EXCEPT ![p] = Append(@, [items |-> items, sent |-> now])]
          /\ SentOK(items, now)'
          /\ There /\ Sound /\ now > Made => RightRosters(items)

\* It makes no wrong list of the members where none is left.
StaysSound(r) ==
    There =>
        /\ Sound /\ now > Made /\ Kind(r) = "detail" /\ at'[r] = "loaded" => got'[r].view.list = table
        /\ MissedBefore(r)' /\ began'[r] > Made =>
              Sound \/ (MissedBefore(r) /\ began'[r] = began[r])

RequestStep(r) ==
    /\ Steady(r) /\ Drops /\ Remembers /\ Sends /\ StaysSound(r)
    /\ RequestOK(r)'

\* The tables and times are the same after a request's step.
LEMMA SameTimes ==
    ASSUME UNCHANGED <<now, table, since>>
    PROVE  /\ Cleared' = Cleared /\ Made' = Made /\ Told' = Told
           /\ There' = There /\ Right' = Right /\ \A u : Shows(u)' = Shows(u)
BY DEF Cleared, Made, Told, There, Right, Shows, View

\* What has been sent stays in order when more is sent now.
LEMMA SentLater ==
    ASSUME Types, CachesOK, NEW p \in PROCESSES, NEW items \in SUBSET Items, now' = now,
           late' = [late EXCEPT ![p] = Append(@, [items |-> items, sent |-> now])]
    PROVE  /\ late' \in [PROCESSES -> Seq(Batch)]
           /\ \A q \in PROCESSES : \A k \in DOMAIN late'[q] :
                 \/ k \in DOMAIN late[q] /\ late'[q][k] = late[q][k]
                 \/ late'[q][k] = [items |-> items, sent |-> now]
           /\ \A q \in PROCESSES : \A k, l \in DOMAIN late'[q] :
                 k <= l => late'[q][k].sent <= late'[q][l].sent
           /\ \A q \in PROCESSES : late'[q] # <<>> => now <= Head(late'[q]).sent + LATENCY
<1> DEFINE b == [items |-> items, sent |-> now]
<1>1. b \in Batch /\ b.sent = now /\ now \in Nat /\ LATENCY \in Nat
  BY Constants DEF Types, HistoryTypes, Batch
<1>2. late \in [PROCESSES -> Seq(Batch)]
  BY DEF Types, MemberTypes
<1> HIDE DEF b
<1>3. late'[p] = Append(late[p], b) /\ \A q \in PROCESSES \ {p} : late'[q] = late[q]
  BY <1>2 DEF b
<1>4. late' \in [PROCESSES -> Seq(Batch)]
  BY <1>1, <1>2 DEF b
<1>5. \A q \in PROCESSES : LateOK(q)
  BY DEF CachesOK
<1>6. ASSUME NEW q \in PROCESSES
      PROVE  /\ \A k \in DOMAIN late'[q] :
                   \/ k \in DOMAIN late[q] /\ late'[q][k] = late[q][k]
                   \/ late'[q][k] = b
             /\ \A k, l \in DOMAIN late'[q] : k <= l => late'[q][k].sent <= late'[q][l].sent
             /\ late'[q] # <<>> => now <= Head(late'[q]).sent + LATENCY
  <2>1. CASE q # p
    BY <1>3, <1>5, <2>1 DEF LateOK
  <2>2. CASE q = p
    <3> DEFINE s == late[p]
    <3>1. s \in Seq(Batch) /\ late'[q] = Append(s, b)
      BY <1>2, <1>3, <2>2
    <3>2. /\ \A k \in DOMAIN s : s[k].sent <= now /\ s[k].sent \in Nat
          /\ \A k, l \in DOMAIN s : k <= l => s[k].sent <= s[l].sent
          /\ s # <<>> => now <= Head(s).sent + LATENCY
      <4>1. LateOK(p)
        BY <1>5
      <4>2. \A k \in DOMAIN s : s[k] \in Batch
        BY <3>1
      <4>3. \A k \in DOMAIN s : s[k].sent \in Nat
        BY <4>2 DEF Batch
      <4> QED BY <4>1, <4>3 DEF LateOK
    <3> HIDE DEF s
    <3>3. /\ Len(s) \in Nat /\ DOMAIN s = 1 .. Len(s)
          /\ DOMAIN Append(s, b) = 1 .. Len(s) + 1
          /\ \A k \in 1 .. Len(s) : Append(s, b)[k] = s[k]
          /\ Append(s, b)[Len(s) + 1] = b
      BY <1>1, <3>1
    <3>4. \A k \in DOMAIN late'[q] :
              \/ k \in DOMAIN late[q] /\ late'[q][k] = late[q][k]
              \/ late'[q][k] = b
      BY <2>2, <3>1, <3>3 DEF s
    <3>5. ASSUME NEW k \in DOMAIN late'[q], NEW l \in DOMAIN late'[q], k <= l
          PROVE  late'[q][k].sent <= late'[q][l].sent
      <4>1. k \in 1 .. Len(s) + 1 /\ l \in 1 .. Len(s) + 1
        BY <3>1, <3>3
      <4>2. CASE l = Len(s) + 1
        <5>1. late'[q][k].sent <= now
          BY <1>1, <3>1, <3>2, <3>3, <4>1
        <5> QED BY <1>1, <3>1, <3>3, <4>2, <5>1
      <4>3. CASE l # Len(s) + 1
        <5>1. k \in 1 .. Len(s) /\ l \in 1 .. Len(s)
          BY <3>3, <3>5, <4>1, <4>3
        <5> QED BY <3>1, <3>2, <3>3, <3>5, <5>1
      <4> QED BY <4>2, <4>3
    <3>6. now <= Head(late'[q]).sent + LATENCY
      <4>1. Head(late'[q]) = late'[q][1]
        BY <3>1
      <4>2. CASE s = <<>>
        BY <1>1, <3>1, <3>3, <4>1, <4>2
      <4>3. CASE s # <<>>
        <5>1. Len(s) >= 1 /\ Head(s) = s[1]
          BY <3>1, <3>3, <4>3
        <5> QED BY <3>1, <3>2, <3>3, <4>1, <4>3, <5>1
      <4> QED BY <4>2, <4>3
    <3> QED BY <3>4, <3>5, <3>6
  <2> QED BY <2>1, <2>2
<1> QED BY <1>4, <1>6 DEF b

\* The types of what a request's step changes.
LEMMA RequestTyped ==
    ASSUME CachesInv, NEW r \in REQUESTS, RequestStep(r)
    PROVE  Types' /\ \A q \in PROCESSES : \A k \in DOMAIN late'[q] : late'[q][k] \in Batch
<1> USE DEF CachesInv, Types
<1>1. RequestTypes'
  BY DEF RequestStep, Steady, RequestTypes
<1>2. ViewTypes'
  <2>1. NoView \in [view : Views, until : Int]
    BY DEF NoView, Views, Absent, View, NoRoster, Roster
  <2>2. /\ NoView.until = -1 /\ now \in Nat
    BY DEF NoView, HistoryTypes
  <2>3. /\ detail' \in {detail, NoView} /\ roster' \in {roster, NoView} /\ now' = now
        /\ travels' \in [USERS -> [view : Views, until : Int]]
    BY DEF RequestStep, Steady, Drops
  <2>4. NoView \in [view : Views \cup Roster, until : Int]
    BY <2>1
  <2> QED BY <2>1, <2>2, <2>3, <2>4 DEF ViewTypes
<1>3. late' \in [PROCESSES -> Seq(Batch)]
  <2>1. CASE late' = late
    BY <2>1 DEF MemberTypes
  <2>2. ASSUME NEW p \in PROCESSES, NEW items \in SUBSET Items,
               late' = [late EXCEPT ![p] = Append(@, [items |-> items, sent |-> now])]
        PROVE  late' \in [PROCESSES -> Seq(Batch)]
    <3>1. now' = now
      BY DEF RequestStep, Steady
    <3> HIDE DEF CachesInv, Types
    <3>2. Types /\ CachesOK
      BY DEF CachesInv
    <3> QED BY <2>2, <3>1, <3>2, SentLater
  <2> QED BY <2>1, <2>2 DEF RequestStep, Sends
<1>4. MemberTypes'
  BY <1>3 DEF RequestStep, Drops, Remembers, MemberTypes
<1>5. HistoryTypes'
  BY DEF RequestStep, Steady, Remembers, HistoryTypes
<1>6. TableTypes'
  BY DEF RequestStep, Steady, TableTypes
<1>7. \A q \in PROCESSES : \A k \in DOMAIN late'[q] : late'[q][k] \in Batch
  BY <1>3
<1> QED BY <1>1, <1>2, <1>4, <1>5, <1>6, <1>7

\* A detail is dropped only while every request is one of before the change or shortly after.
LEMMA OthersKept ==
    ASSUME CachesInv, NEW r \in REQUESTS, RequestStep(r), NEW s \in REQUESTS \ {r}
    PROVE  RequestOK(s)'
<1> DEFINE S == since.travel
<1>1. /\ at'[s] = at[s] /\ began'[s] = began[s] /\ got'[s] = got[s]
      /\ UNCHANGED <<now, job, table, since>>
      /\ detail' = detail \/ (detail' = NoView /\ now <= S + LATENCY)
  BY DEF RequestStep, Steady, Drops
<1>2. /\ Cleared' = Cleared /\ Made' = Made /\ Told' = Told
      /\ There' = There /\ Right' = Right /\ \A u : Shows(u)' = Shows(u)
  BY <1>1, SameTimes
<1>3. Kind(s)' = Kind(s) /\ Caller(s)' = Caller(s) /\ Active(s)' = Active(s)
  BY <1>1 DEF Kind, Caller, Active
<1>4. RequestOK(s) /\ began[s] \in Nat
  BY DEF CachesInv, Types, RequestTypes
<1>5. Paced(s)' /\ Looked(s)' /\ HitLately(s)' /\ ListRead(s)' /\ TableRead(s)'
  BY <1>1, <1>2, <1>3, <1>4 DEF RequestOK, Paced, Looked, HitLately, ListRead, TableRead
<1>6. /\ detail.until \in Int /\ NoView.until = -1 /\ now \in Nat /\ S \in Int /\ S <= now
      /\ Cleared = S + 2 * LATENCY + ROSTER_TTL
  BY Times DEF CachesInv, Types, ViewTypes, NoView
<1>7. MissedBefore(s)' = MissedBefore(s)
  BY <1>1, <1>3 DEF MissedBefore
<1>8. Missed(s)'
  BY <1>1, <1>4, <1>6, <1>7 DEF RequestOK, Missed
<1>9. ASSUME detail' # detail, at[s] = "loaded" PROVE began[s] <= Cleared
  <2>1. began[s] <= now
    BY <1>4, <1>9 DEF RequestOK, Paced, Active, Ends
  <2> QED BY <1>1, <1>4, <1>6, <1>9, <2>1, Constants
<1>10. DetailRead(s)'
  BY <1>1, <1>2, <1>3, <1>4, <1>9 DEF RequestOK, DetailRead
<1> QED BY <1>5, <1>8, <1>10 DEF RequestOK

\* What is under way and what is cached stay as they are, are dropped, or are as the step
\* says.
LEMMA CachesKept ==
    ASSUME CachesInv, NEW r \in REQUESTS, RequestStep(r)
    PROVE  CachesOK'
<1> DEFINE S == since.travel
<1>1. /\ UNCHANGED <<now, job, table, since>>
      /\ detail' = detail \/ (detail' = NoView /\ now <= S + LATENCY)
      /\ roster' \in {roster, NoView}
      /\ \A u \in USERS : travels'[u] \in {travels[u], NoView} /\ shared'[u] \in {shared[u], NoAnswer}
      /\ \A u \in USERS : admitted'[u] \in {admitted[u], now}
      /\ \A p \in PROCESSES, u \in USERS : memory'[p][u] = memory[p][u] \/ MemoryOK(p, u)'
  BY DEF RequestStep, Steady, Drops, Remembers
<1>2. /\ Cleared' = Cleared /\ Made' = Made /\ Told' = Told
      /\ There' = There /\ Right' = Right /\ \A u : Shows(u)' = Shows(u)
  BY <1>1, SameTimes
<1>3. /\ CachesOK /\ Types /\ Types'
      /\ \A q \in PROCESSES : \A k \in DOMAIN late'[q] : late'[q][k] \in Batch
  BY RequestTyped DEF CachesInv
<1>4. /\ now \in Nat /\ S \in Int /\ S <= now
      /\ \A u \in USERS : since.part[u] \in Int /\ admitted[u] \in Int /\ admitted[u] <= now
      /\ \A u \in USERS : admitted'[u] \in Int /\ admitted[u] <= admitted'[u]
      /\ Cleared \in Int /\ Cleared = S + 2 * LATENCY + ROSTER_TTL
      /\ detail.until \in Int /\ roster.until \in Int
      /\ NoView.until = -1 /\ NoAnswer.until = -1
      /\ LATENCY \in Nat /\ YES_TTL \in Nat /\ ROSTER_TTL \in Nat /\ DETAIL_TTL \in Nat
      /\ LIST_TTL \in Nat /\ MEMORY_TTL \in Nat /\ MEMBER_TTL \in Nat /\ DEPARTED_AGE \in Nat
  BY <1>1, <1>3, Times, Constants DEF Types, ViewTypes, NoView, NoAnswer
<1>5. ASSUME NEW u \in USERS, NEW until \in Int, Outlived(u, until) PROVE Outlived(u, until)'
  <2>1. /\ until <= S + DEPARTED_AGE \/ until <= admitted[u] + LATENCY + YES_TTL
        /\ since'.travel = S
    BY <1>1, <1>5 DEF Outlived
  <2>2. until <= S + DEPARTED_AGE \/ until <= admitted'[u] + LATENCY + YES_TTL
    BY <1>4, <2>1
  <2> QED BY <2>1, <2>2 DEF Outlived
<1>6. ASSUME NEW p \in PROCESSES, NEW u \in USERS PROVE MemoryOK(p, u)'
  <2>1. CASE memory'[p][u] = memory[p][u]
    <3>1. memory[p][u].until \in Int /\ MemoryOK(p, u)
      BY <1>3 DEF Types, MemberTypes, Answer, CachesOK
    <3> QED BY <1>1, <1>2, <1>5, <2>1, <3>1 DEF MemoryOK
  <2> QED BY <1>1, <2>1
<1>7. ASSUME NEW u \in USERS PROVE SharedOK(u)' /\ ListOK(u)'
  <2>1. /\ shared[u].until \in Int /\ SharedOK(u) /\ ListOK(u)
        /\ shared'[u] \in {shared[u], NoAnswer} /\ travels'[u] \in {travels[u], NoView}
    BY <1>1, <1>3 DEF Types, MemberTypes, Answer, CachesOK
  <2>2. SharedOK(u)'
    <3>1. CASE shared'[u] = shared[u]
      BY <1>1, <1>2, <1>5, <2>1, <3>1 DEF SharedOK
    <3>2. CASE shared'[u] = NoAnswer
      BY <1>1, <1>4, <3>2 DEF SharedOK
    <3> QED BY <2>1, <3>1, <3>2
  <2>3. ListOK(u)'
    <3>1. CASE travels'[u] = travels[u]
      BY <1>1, <1>2, <2>1, <3>1 DEF ListOK
    <3>2. CASE travels'[u] = NoView
      BY <1>1, <1>4, <3>2 DEF ListOK
    <3> QED BY <2>1, <3>1, <3>2
  <2> QED BY <2>2, <2>3
<1>8. DetailOK'
  <2>1. CASE detail' = detail
    BY <1>1, <1>2, <1>3, <2>1 DEF CachesOK, DetailOK
  <2>2. CASE detail' = NoView
    BY <1>1, <1>4, <2>2 DEF DetailOK
  <2> QED BY <1>1, <2>1, <2>2
<1>9. RosterOK'
  <2>1. CASE roster' = NoView
    BY <1>1, <1>4, <2>1 DEF RosterOK
  <2>2. CASE roster' = roster /\ detail' = detail
    BY <1>1, <1>2, <1>3, <2>2 DEF CachesOK, RosterOK
  <2>3. CASE roster' = roster /\ now <= S + LATENCY
    <3>1. roster.until <= now + ROSTER_TTL
      BY <1>3 DEF CachesOK, RosterOK
    <3>2. roster.until <= Cleared
      BY <1>4, <2>3, <3>1
    <3> QED BY <1>1, <1>2, <1>3, <2>3, <3>2 DEF CachesOK, RosterOK
  <2> QED BY <1>1, <2>1, <2>2, <2>3
<1>10. ASSUME NEW items \in SUBSET Items, NEW sent \in Nat, sent <= now, SentOK(items, sent)
       PROVE  SentOK(items, sent)'
  <2> SUFFICES ASSUME NEW i \in items
               PROVE  AnswerSent(i, sent)' /\ ViewSent(i, sent)' /\ RosterSent(i, items, sent)'
    BY DEF SentOK
  <2>1. AnswerSent(i, sent) /\ ViewSent(i, sent) /\ RosterSent(i, items, sent)
    BY <1>10 DEF SentOK
  <2>2. AnswerSent(i, sent)'
    <3>1. i.kind = "yes" => i.user \in USERS
      BY DEF Items
    <3>2. i.kind = "yes" /\ sent <= admitted[i.user] => sent <= admitted'[i.user]
      BY <1>4, <3>1
    <3> QED BY <1>1, <1>2, <2>1, <3>2 DEF AnswerSent
  <2>3. ViewSent(i, sent)'
    BY <1>1, <1>2, <2>1 DEF ViewSent
  <2>4. RosterSent(i, items, sent)'
    <3>1. CASE detail' = detail
      BY <1>1, <1>2, <2>1, <3>1 DEF RosterSent
    <3>2. CASE now <= S + LATENCY
      <4>1. sent <= S + LATENCY
        BY <1>4, <1>10, <3>2
      <4> QED BY <1>1, <1>2, <2>1, <4>1 DEF RosterSent
    <3> QED BY <1>1, <3>1, <3>2
  <2> QED BY <2>2, <2>3, <2>4
<1>11. ASSUME NEW q \in PROCESSES, NEW k \in DOMAIN late[q],
              NEW items, NEW sent, items = late[q][k].items, sent = late[q][k].sent
       PROVE  sent <= now /\ SentOK(items, sent)'
  <2>1. late[q][k] \in Batch
    BY <1>3 DEF Types, MemberTypes
  <2>2. items \in SUBSET Items /\ sent \in Nat
    BY <1>11, <2>1 DEF Batch
  <2>3. sent <= now /\ SentOK(items, sent)
    BY <1>3, <1>11 DEF CachesOK, LateOK
  <2> QED BY <1>10, <2>2, <2>3
<1>12. ASSUME NEW q \in PROCESSES PROVE LateOK(q)'
  <2>1. CASE late' = late
    <3>1. LateOK(q)
      BY <1>3 DEF CachesOK
    <3>2. ASSUME NEW k \in DOMAIN late'[q]
          PROVE  late'[q][k].sent <= now /\ SentOK(late[q][k].items, late[q][k].sent)'
      BY <1>11, <2>1
    <3> QED BY <1>1, <2>1, <3>1, <3>2 DEF LateOK
  <2>2. ASSUME NEW p \in PROCESSES, NEW items \in SUBSET Items,
               late' = [late EXCEPT ![p] = Append(@, [items |-> items, sent |-> now])],
               SentOK(items, now)'
        PROVE  LateOK(q)'
    <3>1. /\ \A k \in DOMAIN late'[q] :
                \/ k \in DOMAIN late[q] /\ late'[q][k] = late[q][k]
                \/ late'[q][k] = [items |-> items, sent |-> now]
          /\ \A k, l \in DOMAIN late'[q] : k <= l => late'[q][k].sent <= late'[q][l].sent
          /\ late'[q] # <<>> => now <= Head(late'[q]).sent + LATENCY
      BY <1>1, <1>3, <2>2, SentLater
    <3>2. ASSUME NEW k \in DOMAIN late'[q]
          PROVE  late'[q][k].sent <= now /\ SentOK(late[q][k].items, late[q][k].sent)'
      <4>1. CASE k \in DOMAIN late[q] /\ late'[q][k] = late[q][k]
        BY <1>11, <4>1
      <4>2. CASE late'[q][k] = [items |-> items, sent |-> now]
        <5>1. late'[q][k].items = items /\ late'[q][k].sent = now /\ now' = now
          BY <1>1, <4>2
        <5>2. late'[q][k].sent <= now
          BY <1>4, <5>1
        <5>3. SentOK(late[q][k].items, late[q][k].sent)'
          BY <2>2, <5>1
        <5> QED BY <5>2, <5>3
      <4> QED BY <3>1, <4>1, <4>2
    <3> QED BY <1>1, <3>1, <3>2 DEF LateOK
  <2> QED BY <2>1, <2>2 DEF RequestStep, Sends
<1> QED BY <1>6, <1>7, <1>8, <1>9, <1>12 DEF CachesOK

\* Every step of a request but a change keeps the invariant.
LEMMA RequestKeeps ==
    ASSUME CachesInv, NEW r \in REQUESTS, RequestStep(r)
    PROVE  CachesInv'
<1>1. /\ UNCHANGED <<now, job, table, since>> /\ roster' \in {roster, NoView} /\ now \in Nat
      /\ NoView.until = -1
      /\ \A s \in REQUESTS \ {r} : at'[s] = at[s] /\ began'[s] = began[s] /\ got'[s] = got[s]
  BY DEF RequestStep, Steady, Drops, CachesInv, Types, HistoryTypes, NoView
<1>2. Made' = Made /\ There' = There
  BY <1>1, SameTimes
<1>3. Made \in Int /\ \A s \in REQUESTS : began[s] \in Nat /\ began'[s] \in Nat
  BY Times DEF CachesInv, Types, RequestTypes, RequestStep, Steady
<1>4. \A s \in REQUESTS : RequestOK(s)'
  BY OthersKept DEF RequestStep
<1>5. LateMiss'
  <2> SUFFICES ASSUME There, NEW s \in REQUESTS, MissedBefore(s)', began'[s] > Made PROVE Sound'
    BY <1>2 DEF LateMiss
  <2>1. Paced(s)'
    BY <1>4 DEF RequestOK
  <2>2. now > Made
    <3>1. began'[s] <= now
      BY <1>1, <2>1 DEF Paced, Active, MissedBefore, Ends, Before, Making
    <3> QED BY <1>1, <1>3, <3>1
  <2>3. Sound
    <3>1. CASE s = r
      BY <1>2, <3>1 DEF RequestStep, StaysSound, CachesInv, LateMiss
    <3>2. CASE s # r
      <4>1. MissedBefore(s) /\ began[s] > Made
        BY <1>1, <3>2 DEF MissedBefore, Kind
      <4> QED BY <4>1 DEF CachesInv, LateMiss
    <3> QED BY <3>1, <3>2
  <2>4. now <= roster'.until => roster'.view = table
    BY <1>1, <2>3 DEF Sound
  <2>5. \A s_1 \in REQUESTS : Kind(s_1) = "detail" /\ at'[s_1] = "loaded" => got'[s_1].view.list = table
    BY <1>1, <2>2, <2>3 DEF Sound, RequestStep, StaysSound
  <2>6. \A p \in PROCESSES : \A k \in DOMAIN late'[p] : RightRosters(late'[p][k].items)
    <3>1. CASE late' = late
      BY <2>3, <3>1 DEF Sound, RightRosters
    <3>2. ASSUME NEW p \in PROCESSES, NEW items \in SUBSET Items,
                 late' = [late EXCEPT ![p] = Append(@, [items |-> items, sent |-> now])],
                 RightRosters(items), NEW q \in PROCESSES, NEW k \in DOMAIN late'[q]
          PROVE  RightRosters(late'[q][k].items)
      <4>1. \/ k \in DOMAIN late[q] /\ late'[q][k] = late[q][k]
            \/ late'[q][k] = [items |-> items, sent |-> now]
        BY <1>1, <3>2, SentLater DEF CachesInv
      <4>2. [items |-> items, sent |-> now].items = items
        OBVIOUS
      <4> QED BY <2>3, <3>2, <4>1, <4>2 DEF Sound, RightRosters
    <3>3. Sends
      BY DEF RequestStep
    <3> QED BY <2>2, <2>3, <3>1, <3>2, <3>3 DEF Sends
  <2> QED BY <1>1, <2>4, <2>5, <2>6 DEF Sound, RightRosters, Kind
<1> QED BY <1>4, <1>5, RequestTyped, CachesKept DEF CachesInv

-----------------------------------------------------------------------------
(* One lemma for each action of a request. *)

\* What is known of a request that is under way.
LEMMA Known ==
    ASSUME CachesInv, NEW r \in REQUESTS
    PROVE  /\ Types /\ CachesOK /\ RequestOK(r) /\ HistoryTypes
           /\ job[r] \in Job /\ at[r] \in Places /\ began[r] \in Nat /\ got[r] \in Carried
           /\ Caller(r) \in USERS /\ Here(r) \in PROCESSES /\ Who(r) \in USERS
           /\ at[r] \notin Ends \cup {"new"} => began[r] <= now /\ now <= began[r] + LATENCY
<1>1. Types /\ CachesOK /\ RequestOK(r) /\ HistoryTypes
  BY DEF CachesInv, Types
<1>2. job[r] \in Job /\ at[r] \in Places /\ began[r] \in Nat /\ got[r] \in Carried
  BY <1>1 DEF Types, RequestTypes
<1>3. Caller(r) \in USERS /\ Here(r) \in PROCESSES /\ Who(r) \in USERS
  BY <1>2 DEF Job, Caller, Here, Who
<1>4. at[r] \notin Ends \cup {"new"} => began[r] <= now /\ now <= began[r] + LATENCY
  BY <1>1 DEF RequestOK, Paced, Active
<1> QED BY <1>1, <1>2, <1>3, <1>4

\* A step takes its request to a place.
LEMMA Goes ==
    ASSUME CachesInv, NEW r \in REQUESTS, NEW place \in Places, Goto(r, place),
           UNCHANGED <<table, since>>, NEW g \in Carried, got' = [got EXCEPT ![r] = g]
    PROVE  /\ Steady(r) /\ at'[r] = place /\ got'[r] = g
           /\ began'[r] = IF place \in Ends THEN 0 ELSE IF at[r] = "new" THEN now ELSE began[r]
           /\ UNCHANGED <<now, job, table, since>>
           /\ Kind(r)' = Kind(r) /\ Caller(r)' = Caller(r) /\ now' = now
           /\ Cleared' = Cleared /\ Made' = Made /\ Told' = Told
           /\ There' = There /\ Right' = Right /\ \A u : Shows(u)' = Shows(u)
<1>1. RequestTypes /\ now \in Nat
  BY DEF CachesInv, Types, HistoryTypes
<1>2. UNCHANGED <<now, job, table, since>>
  BY DEF Goto
<1>3. /\ at' = [at EXCEPT ![r] = place]
      /\ began' = [began EXCEPT ![r] = IF place \in Ends THEN 0 ELSE IF at[r] = "new" THEN now ELSE @]
  BY DEF Goto
<1>4. Steady(r)
  BY <1>1, <1>2, <1>3 DEF Steady, RequestTypes
<1>5. /\ at'[r] = place /\ got'[r] = g
      /\ began'[r] = IF place \in Ends THEN 0 ELSE IF at[r] = "new" THEN now ELSE began[r]
  BY <1>1, <1>3 DEF RequestTypes
<1>6. Kind(r)' = Kind(r) /\ Caller(r)' = Caller(r)
  BY <1>2 DEF Kind, Caller
<1> QED BY <1>2, <1>4, <1>5, <1>6, SameTimes

\* It may keep what the request carries.
LEMMA Keeps ==
    ASSUME CachesInv, NEW r \in REQUESTS
    PROVE  /\ got[r] \in Carried
           /\ \A place : Go(r, place) => Goto(r, place) /\ got' = [got EXCEPT ![r] = got[r]]
           /\ \A place : \A view \in Views : \A hit \in BOOLEAN :
                 /\ [view |-> view, hit |-> hit, yes |-> FALSE] \in Carried
                 /\ Bring(r, place, view, hit) =>
                      /\ Goto(r, place)
                      /\ got' = [got EXCEPT ![r] = [view |-> view, hit |-> hit, yes |-> FALSE]]
BY DEF CachesInv, Types, RequestTypes, Go, Bring, Carried

\* A view is made of an owner and a list, and an absent travel has neither.
LEMMA ViewTypesOK ==
    /\ Absent \in Views /\ NoRoster \in Roster /\ Absent.list = NoRoster /\ NoRoster.in = {}
    /\ \A host \in USERS \cup {NoOne}, list \in Roster :
          /\ View(host, list) \in Views
          /\ View(host, list).host = host /\ View(host, list).list = list
    /\ \A view \in Views : /\ view.host \in USERS \cup {NoOne} /\ view.list \in Roster
                           /\ view = View(view.host, view.list)
BY DEF Absent, Views, NoRoster, Roster, View

\* A step that leaves the caches alone.
LEMMA CachesAlone ==
    ASSUME CachesInv, UNCHANGED <<caches, admitted>>
    PROVE  Drops /\ Remembers /\ Sends
<1>1. UNCHANGED <<detail, travels, roster, memory, shared, late, admitted>>
  BY DEF caches, views, members
<1>2. Drops
  <2>1. travels' \in [USERS -> [view : Views, until : Int]]
    BY <1>1 DEF CachesInv, Types, ViewTypes
  <2>2. shared' \in [USERS -> Answer]
    BY <1>1 DEF CachesInv, Types, MemberTypes
  <2> QED BY <1>1, <2>1, <2>2 DEF Drops
<1>3. Remembers
  BY <1>1 DEF CachesInv, Types, MemberTypes, HistoryTypes, Remembers
<1>4. Sends
  BY <1>1 DEF Sends
<1> QED BY <1>2, <1>3, <1>4

\* Nothing is said of a request that has ended.
LEMMA Ended ==
    ASSUME NEW r \in REQUESTS, at'[r] \in Ends
    PROVE  RequestOK(r)' /\ StaysSound(r)
<1>1. at'[r] \notin Before \cup Making \cup
                     {"loaded", "travels", "dropping", "listing", "clearing", "selected", "joining"}
  BY DEF Ends, Before, Making
<1>2. ~Active(r)'
  BY DEF Active, Ends
<1>3. Paced(r)' /\ Looked(r)' /\ HitLately(r)' /\ Missed(r)'
  BY <1>1, <1>2 DEF Paced, Looked, HitLately, Missed, MissedBefore, Making
<1>4. DetailRead(r)' /\ ListRead(r)' /\ TableRead(r)'
  BY <1>1 DEF DetailRead, ListRead, TableRead, Making
<1> QED BY <1>1, <1>3, <1>4 DEF RequestOK, StaysSound, MissedBefore

\* getMemberRole's select tells whether the caller is a member now.
LEMMA SelectMemberStep == ASSUME CachesInv, NEW r \in REQUESTS, SelectMember(r) PROVE RequestStep(r)
<1> DEFINE g == [got[r] EXCEPT !.yes = Caller(r) \in table.in]
<1>1. /\ g \in Carried /\ g.view = got[r].view /\ g.hit = got[r].hit /\ g.yes = (Caller(r) \in table.in)
      /\ got' = [got EXCEPT ![r] = g] /\ at[r] = "selecting" /\ RequestOK(r)
      /\ Goto(r, "selected") /\ UNCHANGED <<table, since, caches, admitted>>
  <2> DEFINE found == Caller(r) \in table.in
  <2>1. got' = [got EXCEPT ![r].yes = found] /\ found \in BOOLEAN
    BY DEF SelectMember
  <2>2. got[r] \in Carried /\ RequestOK(r)
    BY Known
  <2>3. g = [got[r] EXCEPT !.yes = found]
    OBVIOUS
  <2> HIDE DEF found
  <2>4. got' = [got EXCEPT ![r] = g]
    BY <2>1, <2>3
  <2> HIDE DEF g
  <2>5. g \in Carried /\ g.view = got[r].view /\ g.hit = got[r].hit /\ g.yes = found
    BY <2>1, <2>2, <2>3 DEF Carried
  <2> QED BY <2>2, <2>4, <2>5 DEF SelectMember, found
<1> HIDE DEF g
<1>2. /\ Steady(r) /\ at'[r] = "selected" /\ got'[r] = g /\ began'[r] = began[r]
      /\ UNCHANGED <<now, job, table, since>> /\ detail' = detail
      /\ Kind(r)' = Kind(r) /\ Caller(r)' = Caller(r)
      /\ Cleared' = Cleared /\ There' = There /\ Right' = Right
  <2>1. "selected" \in Places /\ "selected" \notin Ends
    BY DEF Places, Ends
  <2> QED BY <1>1, <2>1, Goes DEF caches, views
<1>3. Paced(r)' /\ Looked(r)' /\ HitLately(r)'
  BY <1>1, <1>2 DEF RequestOK, Paced, Active, Looked, HitLately, Before, Making, Ends
<1>4. MissedBefore(r)' = MissedBefore(r)
  BY <1>1, <1>2 DEF MissedBefore, Before
<1>5. Missed(r)'
  BY <1>1, <1>2, <1>4 DEF RequestOK, Missed
<1>6. DetailRead(r)' /\ ListRead(r)' /\ TableRead(r)'
  BY <1>2 DEF DetailRead, ListRead, TableRead, Making
<1>7. StaysSound(r)
  BY <1>2, <1>4 DEF StaysSound
<1> QED BY <1>1, <1>2, <1>3, <1>5, <1>6, <1>7, CachesAlone DEF RequestStep, RequestOK

\* Whose membership no cache knows is looked up in the table.
LEMMA AskTableStep ==
    ASSUME CachesInv, NEW r \in REQUESTS, at[r] = "asking", Go(r, "selecting"),
           UNCHANGED <<table, caches, since, admitted>>
    PROVE  RequestStep(r)
<1>1. RequestOK(r) /\ got[r] \in Carried
  BY Known
<1>2. /\ Steady(r) /\ at'[r] = "selecting" /\ got'[r] = got[r] /\ began'[r] = began[r]
      /\ UNCHANGED <<now, job, table, since>> /\ detail' = detail
      /\ Kind(r)' = Kind(r) /\ Caller(r)' = Caller(r)
      /\ Cleared' = Cleared /\ There' = There /\ Right' = Right
  <2>1. "selecting" \in Places /\ "selecting" \notin Ends
    BY DEF Places, Ends
  <2> QED BY <1>1, <2>1, Goes, Keeps DEF caches, views
<1>3. Paced(r)' /\ Looked(r)' /\ HitLately(r)'
  BY <1>1, <1>2 DEF RequestOK, Paced, Active, Looked, HitLately, Before, Making, Ends
<1>4. MissedBefore(r)' = MissedBefore(r)
  BY <1>1, <1>2 DEF MissedBefore, Before
<1>5. Missed(r)'
  BY <1>1, <1>2, <1>4 DEF RequestOK, Missed
<1>6. DetailRead(r)' /\ ListRead(r)' /\ TableRead(r)'
  BY <1>2 DEF DetailRead, ListRead, TableRead, Making
<1>7. StaysSound(r)
  BY <1>2, <1>4 DEF StaysSound
<1> QED BY <1>1, <1>2, <1>3, <1>5, <1>6, <1>7, CachesAlone DEF RequestStep, RequestOK

\* Who has asked is a member or not: the answer is remembered, perhaps sent, and acted upon.
LEMMA DecideStep ==
    ASSUME CachesInv, NEW r \in REQUESTS, at[r] \in {"asking", "selected"},
           NEW yes \in BOOLEAN, NEW mem, NEW items \in SUBSET {Member(Caller(r), yes)},
           Decide(r, yes, mem, items),
           \/ mem = memory
           \/ \E until \in Int :
                 /\ mem = [memory EXCEPT ![Here(r)][Caller(r)] = [yes |-> yes, until |-> until]]
                 /\ until = now + MEMORY_TTL
                 /\ ~yes /\ Caller(r) \in table.in =>
                       now <= since.part[Caller(r)] + 2 * LATENCY + MEMBER_TTL,
           ~yes /\ Caller(r) \in table.in /\ items # {} => now <= since.part[Caller(r)] + LATENCY
    PROVE  RequestStep(r)
<1> DEFINE u == Caller(r)
           place == IF Kind(r) = "join" THEN IF yes THEN "refused" ELSE "joining"
                    ELSE IF ~yes THEN "refused" ELSE IF got[r].hit THEN "shown" ELSE "summary"
           g == IF place = "refused" THEN [view |-> Absent, hit |-> FALSE, yes |-> FALSE] ELSE got[r]
           shown == yes /\ Kind(r) = "detail" /\ got[r].hit
           sent == IF shown THEN items \cup {Member(u, TRUE)} ELSE items
           soon == ~yes /\ u \in table.in => now <= since.part[u] + 2 * LATENCY + MEMBER_TTL
<1>1. /\ RequestOK(r) /\ got[r] \in Carried /\ began[r] \in Nat /\ u \in USERS /\ Here(r) \in PROCESSES
      /\ Types /\ HistoryTypes /\ CachesOK
  BY Known
<1>2. place \in Places /\ g \in Carried
  BY <1>1, Keeps, ViewTypesOK DEF Places, Ends
<1>3. /\ Goto(r, place) /\ got' = [got EXCEPT ![r] = g]
      /\ memory' = IF shown THEN Remember(mem, r, u, TRUE) ELSE mem
      /\ IF sent = {} THEN UNCHANGED late ELSE Send(Here(r), sent)
      /\ admitted' = IF yes THEN [admitted EXCEPT ![u] = now] ELSE admitted
      /\ UNCHANGED <<table, detail, travels, roster, shared, since>>
  <2> DEFINE to == /\ Goto(r, place) /\ got' = [got EXCEPT ![r] = g]
  <2>1. ASSUME place = "refused" PROVE to
    <3>1. Bring(r, "refused", Absent, FALSE)
      BY <2>1 DEF Decide
    <3>2. g = [view |-> Absent, hit |-> FALSE, yes |-> FALSE] /\ Absent \in Views /\ FALSE \in BOOLEAN
      BY <2>1, ViewTypesOK
    <3>3. Goto(r, "refused") /\ got' = [got EXCEPT ![r] = [view |-> Absent, hit |-> FALSE, yes |-> FALSE]]
      BY <3>1 DEF Bring
    <3> QED BY <2>1, <3>2, <3>3
  <2>2. ASSUME place # "refused" PROVE to
    <3>1. Go(r, place) /\ g = got[r]
      BY <2>2 DEF Decide
    <3>2. Goto(r, place) /\ got' = [got EXCEPT ![r] = got[r]]
      <4>1. got \in [REQUESTS -> Carried]
        BY <1>1 DEF Types, RequestTypes
      <4> HIDE DEF place
      <4> QED BY <3>1, <4>1 DEF Go
    <3> QED BY <3>1, <3>2
  <2>3. to
    BY <2>1, <2>2
  <2>4. /\ memory' = IF shown THEN Remember(mem, r, u, TRUE) ELSE mem
        /\ IF sent = {} THEN UNCHANGED late ELSE Send(Here(r), sent)
        /\ admitted' = IF yes THEN [admitted EXCEPT ![u] = now] ELSE admitted
    BY DEF Decide
  <2>5. UNCHANGED <<table, detail, travels, roster, shared, since>>
    BY DEF Decide, views
  <2> QED BY <2>3, <2>4, <2>5
<1>4. Kind(r) \in {"detail", "join"}
  BY <1>1 DEF RequestOK, Paced, Before
<1>5. /\ Steady(r) /\ at'[r] = place /\ got'[r] = g
      /\ began'[r] = IF place \in Ends THEN 0 ELSE began[r]
      /\ UNCHANGED <<now, job, table, since>>
      /\ Kind(r)' = Kind(r) /\ Caller(r)' = u
      /\ Cleared' = Cleared /\ Made' = Made /\ There' = There /\ Right' = Right
  <2> HIDE DEF place, g
  <2> QED BY <1>1, <1>2, <1>3, Goes
<1>6. /\ now \in Nat /\ since.part[u] \in Int /\ admitted[u] <= now
      /\ admitted' \in [USERS -> Int] /\ \A v \in USERS : admitted'[v] \in {admitted[v], now}
      /\ yes => admitted'[u] = now
  BY <1>1, <1>3 DEF HistoryTypes
<1>7. ASSUME NEW v \in USERS, NEW p \in PROCESSES, NEW answer \in Answer,
             memory'[p][v] = answer, answer.until = now + MEMORY_TTL, v = u, answer.yes = yes, soon
      PROVE  MemoryOK(p, v)'
  <2>1. /\ now' = now /\ since' = since /\ table' = table /\ answer.until \in Int
    BY <1>5, <1>7 DEF Answer
  <2>2. ~yes /\ u \in table.in => answer.until <= since.part[u] + 2 * LATENCY + MEMBER_TTL + MEMORY_TTL
    BY <1>6, <1>7, Constants
  <2>3. yes => answer.until <= admitted'[u] + LATENCY + YES_TTL
    BY <1>6, <1>7, Constants
  <2> QED BY <1>6, <1>7, <2>1, <2>2, <2>3, Constants DEF MemoryOK, Outlived
<1>8. Remembers
  <2> DEFINE Sets(m, answer) == m = [memory EXCEPT ![Here(r)][u] = answer]
  <2>1. memory \in [PROCESSES -> [USERS -> Answer]]
    BY <1>1 DEF Types, MemberTypes
  <2>2. \/ memory' = memory
        \/ \E answer \in Answer : /\ Sets(memory', answer)
                                  /\ answer.until = now + MEMORY_TTL /\ answer.yes = yes /\ soon
    <3>1. \A until \in Int : /\ [yes |-> yes, until |-> until] \in Answer
                             /\ [yes |-> yes, until |-> until].until = until
                             /\ [yes |-> yes, until |-> until].yes = yes
      BY DEF Answer
    <3>2. now + MEMORY_TTL \in Int /\ MemoryLife = MEMORY_TTL
      BY <1>6, Constants DEF MemoryLife
    <3>3. CASE shown
      <4>1. memory' = [mem EXCEPT ![Here(r)][u] = [yes |-> yes, until |-> now + MEMORY_TTL]]
        BY <1>3, <3>2, <3>3 DEF Remember
      <4>2. [mem EXCEPT ![Here(r)][u] = [yes |-> yes, until |-> now + MEMORY_TTL]]
          = [memory EXCEPT ![Here(r)][u] = [yes |-> yes, until |-> now + MEMORY_TTL]]
        BY <1>1, <2>1
      <4> QED BY <3>1, <3>2, <3>3, <4>1, <4>2
    <3>4. CASE ~shown
      BY <1>3, <3>1, <3>2, <3>4
    <3> QED BY <3>3, <3>4
  <2>3. CASE memory' = memory
    BY <1>6, <2>1, <2>3 DEF Remembers
  <2>4. ASSUME NEW answer \in Answer, Sets(memory', answer), answer.until = now + MEMORY_TTL,
               answer.yes = yes, soon
        PROVE  Remembers
    <3>1. /\ memory' \in [PROCESSES -> [USERS -> Answer]] /\ memory'[Here(r)][u] = answer
          /\ \A p \in PROCESSES, v \in USERS : p # Here(r) \/ v # u => memory'[p][v] = memory[p][v]
      <4>1. memory' = [memory EXCEPT ![Here(r)][u] = answer]
        BY <2>4
      <4>2. PICK h \in PROCESSES : h = Here(r)
        BY <1>1
      <4>3. PICK w \in USERS : w = u
        BY <1>1
      <4>4. memory' = [memory EXCEPT ![h] = [memory[h] EXCEPT ![w] = answer]]
        BY <4>1, <4>2, <4>3
      <4>5. [memory[h] EXCEPT ![w] = answer] \in [USERS -> Answer]
        BY <2>1, <2>4
      <4>6. /\ memory' \in [PROCESSES -> [USERS -> Answer]] /\ memory'[h][w] = answer
            /\ \A p \in PROCESSES, v \in USERS : p # h \/ v # w => memory'[p][v] = memory[p][v]
        BY <2>1, <4>4, <4>5
      <4> QED BY <4>2, <4>3, <4>6
    <3>3. ASSUME NEW p \in PROCESSES, NEW v \in USERS
          PROVE  memory'[p][v] = memory[p][v] \/ MemoryOK(p, v)'
      <4>1. CASE p = Here(r) /\ v = u
        <5>2. MemoryOK(p, v)'
          BY <1>7, <2>4, <3>1, <4>1
        <5> QED BY <5>2
      <4>2. CASE ~(p = Here(r) /\ v = u)
        BY <3>1, <4>2
      <4> QED BY <4>1, <4>2
    <3> QED BY <1>6, <3>1, <3>3 DEF Remembers
  <2> QED BY <2>2, <2>3, <2>4
<1>9. Sends
  <2> DEFINE both == {Member(u, FALSE), Member(u, TRUE)}
  <2>1. CASE sent = {}
    BY <1>3, <2>1 DEF Sends
  <2>2. CASE sent # {}
    <3>1. \A i \in sent :
             /\ i \in Items /\ i.user = u
             /\ (i.kind = "yes" /\ yes) \/ (i.kind = "no" /\ ~yes /\ items # {})
      BY <1>1, ViewTypesOK DEF Member, Item, Items
    <3>2. PICK all \in SUBSET Items : all = sent
      BY <3>1
    <3>3. PICK v \in USERS : v = u
      BY <1>1
    <3>4. late' = [late EXCEPT ![Here(r)] = Append(@, [items |-> all, sent |-> now])]
      BY <1>3, <2>2, <3>2 DEF Send
    <3>5. ASSUME NEW i \in all
          PROVE  AnswerSent(i, now)' /\ ViewSent(i, now)' /\ RosterSent(i, all, now)'
      <4>1. /\ now' = now /\ since' = since /\ table' = table
            /\ i.user = v /\ ((i.kind = "yes" /\ yes) \/ (i.kind = "no" /\ ~yes /\ items # {}))
        BY <1>5, <3>1, <3>2, <3>3
      <4>2. AnswerSent(i, now)'
        BY <1>6, <3>3, <4>1 DEF AnswerSent
      <4>3. i.kind \notin {"travels", "detail", "roster"}
        BY <4>1
      <4> QED BY <4>2, <4>3 DEF ViewSent, RosterSent
    <3>6. SentOK(all, now)'
      BY <3>5 DEF SentOK
    <3>7. RightRosters(all)
      BY <3>1, <3>2 DEF RightRosters
    <3> HIDE DEF sent
    <3> QED BY <1>1, <3>4, <3>6, <3>7 DEF Sends
  <2> QED BY <2>1, <2>2
<1>10. Drops
  BY <1>1, <1>3 DEF Drops, Types, ViewTypes, MemberTypes
<1>11. RequestOK(r)' /\ StaysSound(r)
  <2>1. CASE place \in Ends
    BY <1>5, <2>1, Ended
  <2>2. CASE place = "joining"
    <3>1. at'[r] = "joining" /\ began'[r] = began[r] /\ Kind(r)' = "join" /\ Kind(r) = "join"
      BY <1>5, <2>2 DEF Ends
    <3>2. Paced(r)'
      BY <1>1, <1>5, <3>1 DEF RequestOK, Paced, Active, Before, Making, Ends
    <3>3. Looked(r)' /\ HitLately(r)' /\ DetailRead(r)' /\ ListRead(r)' /\ TableRead(r)'
      BY <3>1 DEF Looked, HitLately, DetailRead, ListRead, TableRead, Before, Making
    <3>4. ~MissedBefore(r)'
      BY <3>1 DEF MissedBefore
    <3> QED BY <3>1, <3>2, <3>3, <3>4 DEF RequestOK, Missed, StaysSound
  <2>3. CASE place = "summary"
    <3>1. /\ at'[r] = "summary" /\ began'[r] = began[r] /\ Kind(r) = "detail" /\ ~got[r].hit
          /\ got'[r] = got[r]
      BY <1>4, <1>5, <2>3 DEF Ends
    <3>2. Paced(r)'
      BY <1>1, <1>5, <3>1 DEF RequestOK, Paced, Active, Before, Making, Ends
    <3>3. Looked(r)' /\ HitLately(r)' /\ DetailRead(r)' /\ ListRead(r)' /\ TableRead(r)'
      BY <1>5, <3>1 DEF Looked, HitLately, DetailRead, ListRead, TableRead, Before, Making
    <3>4. MissedBefore(r)
      BY <3>1 DEF MissedBefore, Before
    <3>5. Missed(r)'
      BY <1>1, <1>3, <1>5, <3>1, <3>4 DEF RequestOK, Missed
    <3> QED BY <3>1, <3>2, <3>3, <3>4, <3>5 DEF RequestOK, StaysSound
  <2> QED BY <1>2, <2>1, <2>2, <2>3 DEF Ends
<1> QED BY <1>5, <1>8, <1>9, <1>10, <1>11 DEF RequestStep

\* What a process remembers decides, or else the shared cache, or else the table is asked.
LEMMA AskMemberStep == ASSUME CachesInv, NEW r \in REQUESTS, AskMember(r) PROVE RequestStep(r)
<1> DEFINE u == Caller(r)
<1>1. /\ at[r] = "asking" /\ u \in USERS /\ Here(r) \in PROCESSES
      /\ Types /\ HistoryTypes /\ CachesOK
  BY Known DEF AskMember
<1>2. CASE Decide(r, memory[Here(r)][u].yes, memory, {})
  <2>1. PICK yes \in BOOLEAN : yes = memory[Here(r)][u].yes
    BY <1>1 DEF Types, MemberTypes, Answer
  <2>2. Decide(r, yes, memory, {})
    BY <1>2, <2>1
  <2>3. {} \in SUBSET {Member(u, yes)}
    OBVIOUS
  <2> QED BY <1>1, <2>2, <2>3, DecideStep
<1>3. CASE /\ now <= shared[u].until
           /\ Decide(r, shared[u].yes,
                 [memory EXCEPT ![Here(r)][u] = [yes |-> shared[u].yes, until |-> now + RefillLife]], {})
  <2>1. PICK yes \in BOOLEAN : yes = shared[u].yes
    BY <1>1 DEF Types, MemberTypes, Answer
  <2>2. PICK until \in Int : until = now + MEMORY_TTL
    BY <1>1, Constants DEF HistoryTypes
  <2>3. PICK mem : mem = [memory EXCEPT ![Here(r)][u] = [yes |-> yes, until |-> until]]
    OBVIOUS
  <2>4. Decide(r, yes, mem, {})
    BY <1>3, <2>1, <2>2, <2>3 DEF RefillLife
  <2>5. ~yes /\ u \in table.in => now <= since.part[u] + 2 * LATENCY + MEMBER_TTL
    <3>1. SharedOK(u) /\ shared[u].until \in Int /\ now \in Nat /\ since.part[u] \in Int
      BY <1>1 DEF CachesOK, Types, MemberTypes, Answer, HistoryTypes
    <3> QED BY <1>3, <2>1, <3>1, Constants DEF SharedOK
  <2>6. {} \in SUBSET {Member(u, yes)}
    OBVIOUS
  <2> QED BY <1>1, <2>2, <2>3, <2>4, <2>5, <2>6, DecideStep
<1>4. CASE Go(r, "selecting") /\ UNCHANGED <<table, caches, since, admitted>>
  BY <1>1, <1>4, AskTableStep
<1> QED BY <1>2, <1>3, <1>4 DEF AskMember

\* What the table said is remembered, and sent.
LEMMA RememberMemberStep ==
    ASSUME CachesInv, NEW r \in REQUESTS, RememberMember(r) PROVE RequestStep(r)
<1> DEFINE u == Caller(r)
<1>1. /\ at[r] = "selected" /\ u \in USERS /\ got[r] \in Carried /\ RequestOK(r)
      /\ HistoryTypes /\ began[r] \in Nat
  BY Known DEF RememberMember
<1>2. PICK yes \in BOOLEAN : yes = got[r].yes
  BY <1>1 DEF Carried
<1>3. PICK until \in Int : until = now + MEMORY_TTL
  BY <1>1, Constants DEF HistoryTypes
<1>4. PICK mem : mem = [memory EXCEPT ![Here(r)][u] = [yes |-> yes, until |-> until]]
  OBVIOUS
<1>5. PICK items : items = {Member(u, yes)}
  OBVIOUS
<1>6. Decide(r, yes, mem, items)
  BY <1>2, <1>3, <1>4, <1>5 DEF RememberMember, Remember, MemoryLife
<1>7. ~yes /\ u \in table.in => now <= since.part[u] + LATENCY
  <2>1. now <= began[r] + LATENCY
    BY <1>1 DEF RequestOK, Paced, Active, Ends
  <2>2. ~yes /\ u \in table.in => began[r] <= since.part[u]
    BY <1>1, <1>2 DEF RequestOK, Looked
  <2> QED BY <1>1, <2>1, <2>2, Constants DEF HistoryTypes
<1>8. ~yes /\ u \in table.in => now <= since.part[u] + 2 * LATENCY + MEMBER_TTL
  BY <1>1, <1>7, Constants DEF HistoryTypes
<1> QED BY <1>1, <1>3, <1>4, <1>5, <1>6, <1>7, <1>8, DecideStep

\* fetchSummaryForMember reads the owner, for a member.
LEMMA ReadSummaryStep == ASSUME CachesInv, NEW r \in REQUESTS, ReadSummary(r) PROVE RequestStep(r)
<1>1. /\ at[r] = "summary" /\ RequestOK(r) /\ got[r] \in Carried /\ began[r] \in Nat
      /\ UNCHANGED <<table, caches, since, admitted>>
      /\ Types /\ TableTypes
  BY Known DEF ReadSummary, Types
<1>2. Drops /\ Remembers /\ Sends /\ detail' = detail
  BY <1>1, CachesAlone DEF caches, views
<1>3. CASE Bring(r, "refused", Absent, FALSE)
  <2>1. /\ Goto(r, "refused") /\ [view |-> Absent, hit |-> FALSE, yes |-> FALSE] \in Carried
        /\ got' = [got EXCEPT ![r] = [view |-> Absent, hit |-> FALSE, yes |-> FALSE]]
        /\ "refused" \in Ends /\ "refused" \in Places
    BY <1>3, ViewTypesOK DEF Bring, Carried, Places, Ends
  <2>2. Steady(r) /\ at'[r] = "refused"
    BY <1>1, <2>1, Goes
  <2> QED BY <1>2, <2>1, <2>2, Ended DEF RequestStep
<1>4. CASE Bring(r, "loading", View(table.owner, NoRoster), got[r].hit)
  <2>1. PICK view \in Views : view = View(table.owner, NoRoster)
    BY <1>1, ViewTypesOK DEF TableTypes, Roster
  <2>2. PICK g \in Carried : g = [view |-> view, hit |-> got[r].hit, yes |-> FALSE]
    BY <1>1, <2>1 DEF Carried
  <2>3. Goto(r, "loading") /\ got' = [got EXCEPT ![r] = g] /\ "loading" \in Places /\ "loading" \notin Ends
    BY <1>4, <2>1, <2>2 DEF Bring, Places, Ends
  <2>4. /\ Steady(r) /\ at'[r] = "loading" /\ got'[r] = g /\ began'[r] = began[r]
        /\ UNCHANGED <<now, job, table, since>>
        /\ Kind(r)' = Kind(r) /\ Caller(r)' = Caller(r) /\ now' = now
        /\ Cleared' = Cleared /\ Made' = Made /\ There' = There
    BY <1>1, <2>3, Goes
  <2>5. g.hit = got[r].hit /\ g.view.host = table.owner
    BY <2>1, <2>2 DEF View
  <2>6. Paced(r)'
    BY <1>1, <2>4 DEF RequestOK, Paced, Active, Before, Making, Ends
  <2>7. Looked(r)' /\ HitLately(r)' /\ TableRead(r)'
    BY <2>4 DEF Looked, HitLately, TableRead, Before
  <2>8. MissedBefore(r)' = MissedBefore(r)
    BY <1>1, <2>4, <2>5 DEF MissedBefore, Before, Making
  <2>9. Missed(r)'
    BY <1>1, <1>2, <2>4, <2>8 DEF RequestOK, Missed
  <2>10. DetailRead(r)'
    BY <1>1, <2>4, <2>5 DEF RequestOK, DetailRead, Making
  <2>11. ListRead(r)'
    BY <1>1, <2>4 DEF RequestOK, ListRead, Paced, Making
  <2>12. StaysSound(r)
    BY <2>4, <2>8 DEF StaysSound
  <2> QED BY <1>2, <2>4, <2>6, <2>7, <2>9, <2>10, <2>11, <2>12 DEF RequestStep, RequestOK
<1> QED BY <1>3, <1>4 DEF ReadSummary

\* Somebody is a member of a travel that is there.
LEMMA ThereIsOwner ==
    ASSUME TableTypes
    PROVE  /\ table \in Roster /\ table.in \subseteq USERS /\ table.owner \in USERS \cup {NoOne}
           /\ There <=> table.in # {}
           /\ \A u \in table.in : Shows(u) = Right
           /\ Right \in Views /\ Right.host = table.owner /\ Right.list = table
BY TravelCachesAssumption, ViewTypesOK DEF TableTypes, There, Roster, NoRoster, Shows, Right

\* loadMembersForTravels takes the members of the cache, or goes on to the table.
LEMMA LoadMembersStep == ASSUME CachesInv, NEW r \in REQUESTS, LoadMembers(r) PROVE RequestStep(r)
<1>1. /\ at[r] = "loading" /\ RequestOK(r) /\ got[r] \in Carried /\ began[r] \in Nat
      /\ UNCHANGED <<table, caches, since, admitted>>
      /\ Types /\ TableTypes /\ HistoryTypes /\ ViewTypes /\ CachesOK /\ LateMiss
  BY Known DEF LoadMembers, Types, CachesInv
<1>2. Drops /\ Remembers /\ Sends /\ detail' = detail
  BY <1>1, CachesAlone DEF caches, views
<1>3. CASE Go(r, "rostering")
  <2>1. "rostering" \in Places /\ "rostering" \notin Ends
    BY DEF Places, Ends
  <2>2. /\ Steady(r) /\ at'[r] = "rostering" /\ got'[r] = got[r] /\ began'[r] = began[r]
        /\ UNCHANGED <<now, job, table, since>>
        /\ Kind(r)' = Kind(r) /\ Caller(r)' = Caller(r) /\ now' = now
        /\ Cleared' = Cleared /\ Made' = Made /\ There' = There
    BY <1>1, <1>3, <2>1, Goes, Keeps
  <2>3. Paced(r)'
    BY <1>1, <2>2 DEF RequestOK, Paced, Active, Before, Making, Ends
  <2>4. Looked(r)' /\ HitLately(r)' /\ TableRead(r)'
    BY <2>2 DEF Looked, HitLately, TableRead, Before
  <2>5. MissedBefore(r)' = MissedBefore(r)
    BY <1>1, <2>2 DEF MissedBefore, Before, Making
  <2>6. Missed(r)'
    BY <1>1, <1>2, <2>2, <2>5 DEF RequestOK, Missed
  <2>7. DetailRead(r)' /\ ListRead(r)'
    BY <1>1, <2>2 DEF RequestOK, DetailRead, ListRead, Making
  <2>8. StaysSound(r)
    BY <2>2, <2>5 DEF StaysSound
  <2> QED BY <1>2, <2>2, <2>3, <2>4, <2>6, <2>7, <2>8 DEF RequestStep, RequestOK
<1>4. CASE now <= roster.until /\ Bring(r, "loaded", View(got[r].view.host, roster.view), got[r].hit)
  <2>1. /\ roster.view \in Roster /\ got[r].view \in Views
        /\ got[r].view.host \in USERS \cup {NoOne} /\ got[r].hit \in BOOLEAN
    BY <1>1, <1>4 DEF ViewTypes, Carried, Views
  <2>2. PICK view \in Views : view = View(got[r].view.host, roster.view)
    BY <2>1, ViewTypesOK
  <2>3. view.host = got[r].view.host /\ view.list = roster.view
    BY <2>1, <2>2, ViewTypesOK
  <2>4. PICK g \in Carried : g = [view |-> view, hit |-> got[r].hit, yes |-> FALSE]
    BY <2>1 DEF Carried
  <2>5. Goto(r, "loaded") /\ got' = [got EXCEPT ![r] = g] /\ "loaded" \in Places /\ "loaded" \notin Ends
    BY <1>4, <2>2, <2>4 DEF Bring, Places, Ends
  <2>6. /\ Steady(r) /\ at'[r] = "loaded" /\ got'[r] = g /\ began'[r] = began[r]
        /\ UNCHANGED <<now, job, table, since>>
        /\ Kind(r)' = Kind(r) /\ Caller(r)' = Caller(r) /\ now' = now
        /\ Cleared' = Cleared /\ Made' = Made /\ Told' = Told /\ There' = There /\ Right' = Right
        /\ \A u : Shows(u)' = Shows(u)
    BY <1>1, <2>5, Goes
  <2>7. g.hit = got[r].hit /\ ~g.yes /\ g.view = view
    BY <2>4
  <2>8. /\ began[r] <= now
        /\ now \in Nat /\ since.travel \in Int /\ Cleared \in Int /\ Made \in Int /\ Told \in Int
        /\ roster.until \in Int /\ detail.until \in Int
        /\ since.travel <= Told
    <3>1. began[r] <= now
      BY <1>1 DEF RequestOK, Paced, Active, Ends
    <3> QED BY <1>1, <3>1, Times, Constants DEF ViewTypes
  <2>9. There => /\ roster.view.in # {}
                 /\ roster.view # table => now <= Told /\ (now <= Cleared \/ now <= detail.until)
    BY <1>1, <1>4, <2>8 DEF CachesOK, RosterOK
  <2>10. Paced(r)'
    BY <1>1, <2>6 DEF RequestOK, Paced, Active, Before, Making, Ends
  <2>11. Looked(r)' /\ HitLately(r)' /\ ~MissedBefore(r)'
    BY <2>6 DEF Looked, HitLately, MissedBefore, Before, Making
  <2>12. ASSUME There, Kind(r) = "detail"
         PROVE  /\ ~got[r].hit /\ MissedBefore(r)
                /\ view.host = table.owner \/ began[r] <= since.travel
                /\ roster.view # table => began[r] <= Cleared \/ began[r] + DETAIL_TTL <= detail.until
                /\ began[r] > Made => Sound
    <3>1. ~got[r].hit /\ (view.host = table.owner \/ began[r] <= since.travel)
      BY <1>1, <2>3, <2>12 DEF RequestOK, DetailRead, Making
    <3>2. MissedBefore(r)
      BY <1>1, <2>12, <3>1 DEF MissedBefore, Making
    <3>3. detail.until < now \/ began[r] + DETAIL_TTL <= detail.until
      BY <1>1, <3>2 DEF RequestOK, Missed
    <3>4. began[r] > Made => Sound
      BY <1>1, <2>12, <3>2 DEF LateMiss
    <3> QED BY <1>1, <2>8, <2>9, <2>12, <3>1, <3>2, <3>3, <3>4
  <2>13. Sound => roster.view = table
    BY <1>4 DEF Sound
  <2>14. DetailRead(r)'
    <3>1. roster.view # table /\ There /\ Kind(r) = "detail" => began[r] <= Made
      BY <1>1, <2>8, <2>12, <2>13
    <3> QED BY <1>2, <2>3, <2>6, <2>7, <2>12, <3>1 DEF DetailRead
  <2>15. ListRead(r)'
    <3>1. ASSUME Kind(r) = "list", view # Shows(Caller(r)) PROVE began[r] <= Told
      <4>1. CASE began[r] <= since.travel
        BY <1>1, <2>8, <4>1
      <4>2. CASE Caller(r) \in table.in /\ got[r].view.host = table.owner
        <5>1. There /\ Shows(Caller(r)) = View(table.owner, table)
          BY <1>1, <4>2, ThereIsOwner DEF Right
        <5>2. roster.view # table
          BY <2>2, <3>1, <4>2, <5>1
        <5> QED BY <1>1, <2>8, <2>9, <5>1, <5>2
      <4> QED BY <1>1, <3>1, <4>1, <4>2 DEF RequestOK, ListRead
    <3> QED BY <2>6, <2>7, <3>1 DEF ListRead
  <2>16. TableRead(r)'
    BY <2>3, <2>6, <2>7, <2>9 DEF TableRead
  <2>17. StaysSound(r)
    BY <2>3, <2>6, <2>7, <2>11, <2>13 DEF StaysSound
  <2>18. Missed(r)'
    BY <2>11 DEF Missed
  <2> QED BY <1>2, <2>6, <2>10, <2>11, <2>14, <2>15, <2>16, <2>17, <2>18 DEF RequestStep, RequestOK
<1> QED BY <1>3, <1>4 DEF LoadMembers

\* The members that are read in the table are the ones of now.
LEMMA SelectRosterStep ==
    ASSUME CachesInv, NEW r \in REQUESTS, SelectRoster(r) PROVE RequestStep(r)
<1>1. /\ at[r] = "rostering" /\ RequestOK(r) /\ got[r] \in Carried /\ began[r] \in Nat
      /\ UNCHANGED <<table, caches, since, admitted>>
      /\ Types /\ TableTypes /\ HistoryTypes
  BY Known DEF SelectRoster, Types, CachesInv
<1>2. Drops /\ Remembers /\ Sends /\ detail' = detail
  BY <1>1, CachesAlone DEF caches, views
<1>3. PICK some \in BOOLEAN : some = (table.in # {})
  OBVIOUS
<1>4. got[r].view \in Views /\ got[r].hit \in BOOLEAN /\ table \in Roster
      /\ got[r].view.host \in USERS \cup {NoOne}
  BY <1>1, ThereIsOwner DEF Carried, Views
<1>5. PICK view \in Views : view = View(got[r].view.host, table)
  BY <1>4, ViewTypesOK
<1>6. view.host = got[r].view.host /\ view.list = table
  BY <1>4, <1>5, ViewTypesOK
<1>7. PICK g \in Carried : g = [view |-> view, hit |-> got[r].hit, yes |-> some]
  BY <1>4 DEF Carried
<1>8. got' = [got EXCEPT ![r] = g]
  <2>1. got' = [got EXCEPT ![r] = [[got[r] EXCEPT !.view = [got[r].view EXCEPT !.list = table]]
                                      EXCEPT !.yes = some]]
    BY <1>1, <1>3 DEF SelectRoster, CachesInv, Types, RequestTypes, Carried, Views
  <2>2. [got[r].view EXCEPT !.list = table] = view
    <3>1. PICK v \in Views : v = got[r].view
      BY <1>4
    <3>2. [v EXCEPT !.list = table] = [host |-> v.host, list |-> table]
      BY DEF Views
    <3> QED BY <1>5, <3>1, <3>2 DEF View
  <2>3. [[got[r] EXCEPT !.view = view] EXCEPT !.yes = some] = g
    <3>1. PICK c \in Carried : c = got[r]
      BY <1>1
    <3>2. [c EXCEPT !.view = view] = [view |-> view, hit |-> c.hit, yes |-> c.yes]
      BY DEF Carried
    <3>3. PICK d \in Carried : d = [view |-> view, hit |-> c.hit, yes |-> c.yes]
      BY DEF Carried
    <3>4. [d EXCEPT !.yes = some] = [view |-> d.view, hit |-> d.hit, yes |-> some]
      BY DEF Carried
    <3>5. [d EXCEPT !.yes = some] = g
      BY <1>7, <3>1, <3>3, <3>4
    <3> QED BY <3>1, <3>2, <3>3, <3>5
  <2> QED BY <2>1, <2>2, <2>3
<1>9. Goto(r, "loaded") /\ "loaded" \in Places /\ "loaded" \notin Ends
  BY DEF SelectRoster, Places, Ends
<1>10. /\ Steady(r) /\ at'[r] = "loaded" /\ got'[r] = g /\ began'[r] = began[r]
       /\ UNCHANGED <<now, job, table, since>>
       /\ Kind(r)' = Kind(r) /\ Caller(r)' = Caller(r) /\ now' = now
       /\ Cleared' = Cleared /\ Made' = Made /\ Told' = Told /\ There' = There /\ Right' = Right
       /\ \A u : Shows(u)' = Shows(u)
  BY <1>1, <1>8, <1>9, Goes
<1>11. g.hit = got[r].hit /\ g.yes = some /\ g.view = view
  BY <1>7
<1>12. Paced(r)'
  BY <1>1, <1>10 DEF RequestOK, Paced, Active, Before, Making, Ends
<1>13. Looked(r)' /\ HitLately(r)' /\ ~MissedBefore(r)'
  BY <1>10 DEF Looked, HitLately, MissedBefore, Before, Making
<1>14. DetailRead(r)'
  BY <1>1, <1>6, <1>10, <1>11 DEF RequestOK, DetailRead, Making
<1>15. ListRead(r)'
  <2>1. ASSUME Kind(r) = "list", view # Shows(Caller(r)) PROVE began[r] <= Told
    <3>1. CASE began[r] <= since.travel
      BY <1>1, <3>1, Times, Constants
    <3>2. CASE Caller(r) \in table.in /\ got[r].view.host = table.owner
      <4>1. Shows(Caller(r)) = View(table.owner, table)
        BY <1>1, <3>2, ThereIsOwner DEF Right
      <4> QED BY <1>5, <2>1, <3>2, <4>1
    <3> QED BY <1>1, <2>1, <3>1, <3>2 DEF RequestOK, ListRead
  <2> QED BY <1>10, <1>11, <2>1 DEF ListRead
<1>16. TableRead(r)'
  <2>1. There => table.in # {}
    BY <1>1, ThereIsOwner
  <2> QED BY <1>6, <1>10, <1>11, <2>1 DEF TableRead
<1>17. StaysSound(r)
  BY <1>6, <1>10, <1>11, <1>13 DEF StaysSound
<1>18. Missed(r)'
  BY <1>13 DEF Missed
<1> QED BY <1>2, <1>10, <1>12, <1>13, <1>14, <1>15, <1>16, <1>17, <1>18 DEF RequestStep, RequestOK

\* Once the detail is gone, long after the change, nothing wrong is left of the members.
LEMMA NoneLeft ==
    ASSUME CachesInv, There, now > Made, detail.until < now
    PROVE  Sound
<1>1. Types /\ HistoryTypes /\ CachesOK /\ \A r \in REQUESTS : RequestOK(r)
  BY DEF CachesInv, Types
<1>2. /\ now \in Nat /\ since.travel \in Int /\ detail.until \in Int /\ roster.until \in Int
      /\ Cleared \in Int /\ Cleared = since.travel + 2 * LATENCY + ROSTER_TTL
      /\ Made = Cleared + 2 * LATENCY
      /\ LATENCY \in Nat /\ ROSTER_TTL \in Nat /\ DETAIL_TTL \in Nat /\ 2 * LATENCY <= DETAIL_TTL
  BY <1>1, Times, Constants DEF Types, ViewTypes
<1>3. now <= roster.until => roster.view = table
  BY <1>1, <1>2 DEF CachesOK, RosterOK
<1>4. ASSUME NEW p \in PROCESSES, NEW k \in DOMAIN late[p], NEW i \in late[p][k].items,
             i.kind = "roster"
      PROVE  i.view = table
  <2> DEFINE sent == late[p][k].sent
  <2>1. late[p] \in Seq(Batch) /\ late[p] # <<>> /\ LateOK(p)
    BY <1>1 DEF Types, MemberTypes, CachesOK
  <2>2. 1 \in DOMAIN late[p] /\ Head(late[p]) = late[p][1] /\ 1 <= k
    BY <2>1
  <2>3. late[p][1].sent \in Nat /\ sent \in Nat
    <3>1. late[p][1] \in Batch /\ late[p][k] \in Batch
      BY <2>1, <2>2
    <3> QED BY <3>1 DEF Batch
  <2>4. now <= sent + LATENCY
    <3>1. late[p][1].sent <= sent /\ now <= late[p][1].sent + LATENCY
      BY <2>1, <2>2 DEF LateOK
    <3> QED BY <1>2, <2>3, <3>1
  <2>5. RosterSent(i, late[p][k].items, sent)
    BY <2>1 DEF LateOK, SentOK
  <2> HIDE DEF sent
  <2>6. /\ ~(sent <= since.travel + LATENCY) /\ ~(sent <= Cleared + LATENCY)
        /\ ~(sent - LATENCY + DETAIL_TTL <= detail.until)
    BY <1>2, <2>3, <2>4
  <2> QED BY <1>4, <2>5, <2>6 DEF RosterSent
<1>5. ASSUME NEW s \in REQUESTS, Kind(s) = "detail", at[s] = "loaded"
      PROVE  got[s].view.list = table
  <2>1. began[s] \in Nat /\ now <= began[s] + LATENCY
    BY <1>1, <1>5 DEF Types, RequestTypes, RequestOK, Paced, Active, Ends
  <2>2. ~(began[s] <= Cleared) /\ ~(began[s] + DETAIL_TTL <= detail.until)
    BY <1>2, <2>1
  <2> QED BY <1>1, <1>5, <2>2 DEF RequestOK, DetailRead
<1> QED BY <1>3, <1>4, <1>5 DEF Sound

\* Remembering who is taken for a member now.
LEMMA Remembering ==
    ASSUME CachesInv, NEW u \in USERS, NEW h \in PROCESSES, now' = now,
           memory' = [memory EXCEPT ![h][u] = [yes |-> TRUE, until |-> now + MEMORY_TTL]],
           admitted' = [admitted EXCEPT ![u] = now]
    PROVE  Remembers
<1>1. /\ memory \in [PROCESSES -> [USERS -> Answer]] /\ admitted \in [USERS -> Int] /\ now \in Nat
  BY DEF CachesInv, Types, MemberTypes, HistoryTypes
<1> DEFINE answer == [yes |-> TRUE, until |-> now + MEMORY_TTL]
<1>2. answer \in Answer /\ answer.yes /\ answer.until = now + MEMORY_TTL
  BY <1>1, Constants DEF Answer
<1>3. memory' = [memory EXCEPT ![h] = [memory[h] EXCEPT ![u] = answer]]
  OBVIOUS
<1> HIDE DEF answer
<1>4. [memory[h] EXCEPT ![u] = answer] \in [USERS -> Answer]
  BY <1>1, <1>2
<1>5. /\ memory' \in [PROCESSES -> [USERS -> Answer]] /\ memory'[h][u] = answer
      /\ \A p \in PROCESSES, v \in USERS : p # h \/ v # u => memory'[p][v] = memory[p][v]
  <2>1. memory' \in [PROCESSES -> [USERS -> Answer]] /\ \A p \in PROCESSES \ {h} : memory'[p] = memory[p]
    BY <1>1, <1>3, <1>4
  <2>2. memory'[h] = [memory[h] EXCEPT ![u] = answer]
    BY <1>1, <1>3
  <2>3. memory'[h][u] = answer /\ \A v \in USERS \ {u} : memory'[h][v] = memory[h][v]
    BY <1>1, <2>2
  <2> QED BY <2>1, <2>3
<1>6. /\ admitted' \in [USERS -> Int] /\ admitted'[u] = now
      /\ \A v \in USERS : admitted'[v] \in {admitted[v], now}
  BY <1>1
<1>7. MemoryOK(h, u)'
  <2>1. answer.until <= admitted'[u] + LATENCY + YES_TTL
    BY <1>1, <1>2, <1>6, Constants
  <2> QED BY <1>1, <1>2, <1>5, <2>1, Constants DEF MemoryOK, Outlived
<1>8. ASSUME NEW p \in PROCESSES, NEW v \in USERS
      PROVE  memory'[p][v] = memory[p][v] \/ MemoryOK(p, v)'
  <2>1. CASE p = h /\ v = u
    BY <1>7, <2>1 DEF MemoryOK, Outlived
  <2>2. CASE ~(p = h /\ v = u)
    BY <1>5, <2>2
  <2> QED BY <2>1, <2>2
<1> QED BY <1>5, <1>6, <1>8 DEF Remembers

\* What a detail comes with: it is right but shortly after a change, as far as it says who
\* is a member of a travel that is there.
LEMMA SetDetailStep ==
    ASSUME CachesInv, NEW r \in REQUESTS, at[r] = "loaded", Kind(r) \in {"detail", "join", "transfer"},
           NEW more \in SUBSET Both(r), SetDetail(r, more),
           UNCHANGED <<now, table, since, admitted, detail>>
    PROVE  Remembers /\ Sends
<1> DEFINE w == got[r].view
           S == since.travel
<1>1. /\ RequestOK(r) /\ got[r] \in Carried /\ began[r] \in Nat
      /\ Types /\ TableTypes /\ HistoryTypes /\ ViewTypes /\ CachesOK /\ Here(r) \in PROCESSES
      /\ MemberTypes
  BY Known DEF Types, CachesInv
<1>2. PICK view \in Views : view = w
  BY <1>1 DEF Carried
<1>3. PICK h \in PROCESSES : h = Here(r)
  BY <1>1
<1>4. /\ view.list \in Roster /\ view.list.in \subseteq USERS /\ view.host \in USERS \cup {NoOne}
  BY <1>2 DEF Views, Roster
<1>5. /\ now \in Nat /\ S \in Int /\ detail.until \in Int
      /\ Cleared \in Int /\ Cleared = S + 2 * LATENCY + ROSTER_TTL /\ Made = Cleared + 2 * LATENCY
      /\ LATENCY \in Nat /\ ROSTER_TTL \in Nat /\ DETAIL_TTL \in Nat /\ MEMORY_TTL \in Nat
      /\ YES_TTL \in Nat /\ MEMORY_TTL <= YES_TTL
      /\ DEPARTED_AGE \in Nat /\ 6 * LATENCY + ROSTER_TTL + YES_TTL <= DEPARTED_AGE
  BY <1>1, Times, Constants DEF ViewTypes
<1>6. now <= began[r] + LATENCY /\ (Kind(r) # "detail" => began[r] <= S)
  BY <1>1 DEF RequestOK, Paced, Active, Ends
<1>7. There => view.list.in # {}
  BY <1>1, <1>2 DEF RequestOK, TableRead
<1>8. ASSUME There, view # Right PROVE now <= Cleared + 3 * LATENCY
  <2>1. CASE Kind(r) # "detail"
    BY <1>1, <1>5, <1>6, <2>1
  <2>2. CASE Kind(r) = "detail"
    <3>1. view.list # table \/ view.host # table.owner
      BY <1>8 DEF Right, View, Views
    <3>2. began[r] <= Made \/ began[r] <= S
      BY <1>1, <1>2, <1>8, <2>2, <3>1 DEF RequestOK, DetailRead, Making
    <3> QED BY <1>1, <1>5, <1>6, <3>2
  <2> QED BY <2>1, <2>2
<1>9. There /\ view.list # table => view # Right
  BY <1>1, ThereIsOwner
<1>10. ASSUME There, view.list # table
       PROVE  \/ now <= S + LATENCY
              \/ now <= Cleared + LATENCY \/ now - LATENCY + DETAIL_TTL <= detail.until
  <2>1. CASE Kind(r) # "detail"
    BY <1>1, <1>5, <1>6, <2>1
  <2>2. CASE Kind(r) = "detail"
    <3>1. began[r] <= Cleared \/ began[r] + DETAIL_TTL <= detail.until
      BY <1>1, <1>2, <1>10, <2>2 DEF RequestOK, DetailRead
    <3> QED BY <1>1, <1>5, <1>6, <3>1
  <2> QED BY <2>1, <2>2
<1>11. There /\ Sound /\ now > Made => view.list = table
  <2>1. CASE Kind(r) = "detail"
    BY <1>2, <2>1 DEF Sound
  <2>2. CASE Kind(r) # "detail"
    BY <1>1, <1>5, <1>6, <2>2
  <2> QED BY <2>1, <2>2
<1>12. PICK answer \in Answer : answer = [yes |-> TRUE, until |-> now + MEMORY_TTL]
  <2>1. now + MEMORY_TTL \in Int
    BY <1>5
  <2> QED BY <2>1 DEF Answer
<1>13. memory' = [memory EXCEPT ![h] = [u \in USERS |-> IF u \in view.list.in THEN answer ELSE memory[h][u]]]
  BY <1>1, <1>2, <1>3, <1>12 DEF SetDetail, MemoryLife, MemberTypes
<1>14. PICK items \in SUBSET Items :
         /\ late' = [late EXCEPT ![h] = Append(@, [items |-> items, sent |-> now])]
         /\ \A i \in items :
               \/ i = Item("detail", NoOne, view)
               \/ i = Item("roster", NoOne, view.list)
               \/ \E u \in view.list.in : i = Member(u, TRUE)
         /\ \E d \in items : d.kind = "detail"
  <2> DEFINE all == {Item("detail", NoOne, w)} \cup more \cup {Member(u, TRUE) : u \in w.list.in}
  <2>1. \A i \in all : \/ i = Item("detail", NoOne, view)
                       \/ i = Item("roster", NoOne, view.list)
                       \/ \E u \in view.list.in : i = Member(u, TRUE)
    BY <1>2 DEF Both
  <2>2. /\ Item("detail", NoOne, view) \in Items /\ Item("roster", NoOne, view.list) \in Items
        /\ \A u \in USERS : Member(u, TRUE) \in Items
    BY <1>4, ViewTypesOK DEF Item, Items, Member
  <2>3. all \subseteq Items
    BY <1>4, <2>1, <2>2
  <2>4. late' = [late EXCEPT ![h] = Append(@, [items |-> all, sent |-> now])]
    BY <1>3 DEF SetDetail, Send
  <2>5. Item("detail", NoOne, w) \in all /\ Item("detail", NoOne, w).kind = "detail"
    BY DEF Item
  <2> HIDE DEF all
  <2> QED BY <2>1, <2>3, <2>4, <2>5, <1>2
<1>15. Remembers
  <2>1. /\ [u \in USERS |-> IF u \in view.list.in THEN answer ELSE memory[h][u]] \in [USERS -> Answer]
    BY <1>1 DEF MemberTypes
  <2>2. /\ memory' \in [PROCESSES -> [USERS -> Answer]]
        /\ \A p \in PROCESSES, u \in USERS : memory'[p][u] = memory[p][u]
                                             \/ (memory'[p][u] = answer /\ u \in view.list.in)
    BY <1>1, <1>13, <2>1 DEF MemberTypes
  <2>3. ASSUME NEW p \in PROCESSES, NEW u \in view.list.in, memory'[p][u] = answer
        PROVE  MemoryOK(p, u)'
    <3>1. /\ now' = now /\ since' = since /\ table' = table /\ There' = There
          /\ answer.yes /\ answer.until = now + MEMORY_TTL
      BY <1>12 DEF There
    <3>2. There /\ u \notin table.in => now + MEMORY_TTL <= S + DEPARTED_AGE
      <4>1. There /\ u \notin table.in => now <= Cleared + 3 * LATENCY
        BY <1>8, <1>9
      <4> QED BY <1>5, <4>1
    <3> QED BY <1>5, <2>3, <3>1, <3>2 DEF MemoryOK, Outlived
  <2>4. admitted' \in [USERS -> Int] /\ \A u \in USERS : admitted'[u] \in {admitted[u], now}
    BY <1>1 DEF HistoryTypes
  <2> QED BY <1>4, <2>2, <2>3, <2>4 DEF Remembers
<1>16. SentOK(items, now)'
  <2>1. /\ now' = now /\ since' = since /\ table' = table /\ There' = There /\ Right' = Right
        /\ Cleared' = Cleared /\ Told' = Told
    BY SameTimes
  <2>2. detail' = detail
    OBVIOUS
  <2>3. ASSUME NEW i \in items
        PROVE  AnswerSent(i, now)' /\ ViewSent(i, now)' /\ RosterSent(i, items, now)'
    <3>1. CASE i = Item("detail", NoOne, view)
      <4>1. i.kind = "detail" /\ i.view = view
        BY <3>1 DEF Item
      <4> QED BY <1>7, <1>8, <2>1, <4>1 DEF AnswerSent, ViewSent, RosterSent
    <3>2. CASE i = Item("roster", NoOne, view.list)
      <4>1. i.kind = "roster" /\ i.view = view.list
        BY <3>2 DEF Item
      <4> QED BY <1>7, <1>8, <1>9, <1>10, <1>14, <2>1, <2>2, <4>1 DEF AnswerSent, ViewSent, RosterSent
    <3>3. ASSUME NEW u \in view.list.in, i = Member(u, TRUE)
          PROVE  AnswerSent(i, now)' /\ ViewSent(i, now)' /\ RosterSent(i, items, now)'
      <4>1. i.kind = "yes" /\ i.user = u
        BY <3>3 DEF Item, Member
      <4>2. There /\ u \notin table.in => now <= Cleared + 3 * LATENCY
        BY <1>8, <1>9
      <4> QED BY <2>1, <4>1, <4>2 DEF AnswerSent, ViewSent, RosterSent
    <3> QED BY <1>14, <3>1, <3>2, <3>3
  <2> QED BY <2>3 DEF SentOK
<1>17. There /\ Sound /\ now > Made => RightRosters(items)
  <2>2. \A i \in items : i.kind = "roster" => i.view = view.list
    BY <1>14 DEF Item, Member
  <2> QED BY <1>11, <2>2 DEF RightRosters
<1> QED BY <1>3, <1>14, <1>15, <1>16, <1>17 DEF Sends

\* A cached detail is shown to one whom it lists; anyone else is looked up, or the detail filled.
LEMMA ReadDetailStep == ASSUME CachesInv, NEW r \in REQUESTS, ReadDetail(r) PROVE RequestStep(r)
<1> DEFINE u == Caller(r)
<1>1. /\ at[r] = "new" /\ Kind(r) = "detail" /\ RequestOK(r)
      /\ UNCHANGED <<table, detail, travels, roster, shared, since>>
      /\ Types /\ HistoryTypes /\ ViewTypes /\ MemberTypes /\ CachesOK
      /\ u \in USERS /\ Here(r) \in PROCESSES
  BY Known DEF ReadDetail, views, Types, CachesInv
<1>2. Drops
  BY <1>1 DEF Drops, ViewTypes, MemberTypes
<1>3. PICK view \in Views : view = detail.view
  BY <1>1 DEF ViewTypes
<1>4. view.list \in Roster
  BY DEF Views
<1>5. /\ now \in Nat /\ detail.until \in Int /\ since.travel \in Int
      /\ Cleared \in Int /\ Made \in Int
  BY <1>1, Times DEF ViewTypes
<1>6. ASSUME NEW place \in Places \ Ends, NEW g \in Carried,
             Goto(r, place), got' = [got EXCEPT ![r] = g]
      PROVE  /\ Steady(r) /\ at'[r] = place /\ got'[r] = g /\ began'[r] = now
             /\ UNCHANGED <<now, job, table, since>>
             /\ Kind(r)' = Kind(r) /\ Caller(r)' = u /\ now' = now
             /\ Cleared' = Cleared /\ Made' = Made /\ There' = There /\ Right' = Right
  <2>1. place \in Places /\ place \notin Ends
    OBVIOUS
  <2> QED BY <1>1, <1>6, <2>1, Goes
<1>7. CASE /\ Bring(r, "shown", view, TRUE)
           /\ memory' = Remember(memory, r, u, TRUE)
           /\ Send(Here(r), {Member(u, TRUE)})
           /\ admitted' = [admitted EXCEPT ![u] = now]
  <2>1. PICK g \in Carried : g = [view |-> view, hit |-> TRUE, yes |-> FALSE]
    BY DEF Carried
  <2>2. Goto(r, "shown") /\ got' = [got EXCEPT ![r] = g] /\ "shown" \in Ends /\ "shown" \in Places
    BY <1>7, <2>1 DEF Bring, Ends, Places
  <2>3. /\ Steady(r) /\ at'[r] = "shown" /\ now' = now /\ since' = since /\ table' = table
    BY <1>1, <2>2, Goes
  <2>4. Remembers
    <3>1. PICK h \in PROCESSES : h = Here(r)
      BY <1>1
    <3>2. memory' = [memory EXCEPT ![h][u] = [yes |-> TRUE, until |-> now + MEMORY_TTL]]
      BY <1>7, <3>1 DEF Remember, MemoryLife
    <3> QED BY <1>1, <1>7, <2>3, <3>2, Remembering
  <2>5. Sends
    <3>1. PICK v \in USERS : v = u
      BY <1>1
    <3>2. PICK items \in SUBSET Items : items = {Member(v, TRUE)}
      <4>1. Member(v, TRUE) \in Items
        BY ViewTypesOK DEF Member, Item, Items
      <4> QED BY <4>1
    <3>3. late' = [late EXCEPT ![Here(r)] = Append(@, [items |-> items, sent |-> now])]
      BY <1>7, <3>1, <3>2 DEF Send
    <3>4. \A i \in items : i.kind = "yes" /\ i.user = v
      BY <3>2 DEF Member, Item
    <3>5. admitted'[v] = now
      BY <1>1, <1>7, <3>1 DEF HistoryTypes
    <3>6. ASSUME NEW i \in items
          PROVE  AnswerSent(i, now)' /\ ViewSent(i, now)' /\ RosterSent(i, items, now)'
      BY <1>5, <2>3, <3>4, <3>5 DEF AnswerSent, ViewSent, RosterSent
    <3>7. SentOK(items, now)' /\ RightRosters(items)
      BY <3>4, <3>6 DEF SentOK, RightRosters
    <3> QED BY <1>1, <3>3, <3>7 DEF Sends
  <2> QED BY <1>2, <2>2, <2>3, <2>4, <2>5, Ended DEF RequestStep
<1>8. CASE /\ now <= detail.until
           /\ Bring(r, IF view.list.in = {} THEN "loading" ELSE "asking", view, TRUE)
           /\ UNCHANGED <<memory, late, admitted>>
  <2>1. PICK g \in Carried : g = [view |-> view, hit |-> TRUE, yes |-> FALSE]
    BY DEF Carried
  <2>2. PICK place \in Places \ Ends : place = IF view.list.in = {} THEN "loading" ELSE "asking"
    BY DEF Places, Ends
  <2>3. Goto(r, place) /\ got' = [got EXCEPT ![r] = g]
    BY <1>8, <2>1, <2>2 DEF Bring
  <2>4. /\ Steady(r) /\ at'[r] = place /\ got'[r] = g /\ began'[r] = now
        /\ UNCHANGED <<now, job, table, since>>
        /\ Kind(r)' = Kind(r) /\ Caller(r)' = u
        /\ Cleared' = Cleared /\ Made' = Made /\ There' = There /\ Right' = Right
    BY <1>6, <2>3
  <2>5. Remembers /\ Sends
    BY <1>1, <1>8, CachesAlone DEF caches, views, members
  <2>6. g.hit /\ g.view = view /\ ~g.yes /\ place \in {"loading", "asking"}
    BY <2>1, <2>2
  <2>7. There => place = "asking" /\ (view # Right => now <= Cleared + 4 * LATENCY + DETAIL_TTL)
    <3>1. There => /\ view.list.in # {}
                   /\ view # Right => detail.until <= Cleared + 4 * LATENCY + DETAIL_TTL
      BY <1>1, <1>3, <1>8 DEF CachesOK, DetailOK
    <3> QED BY <1>5, <1>8, <2>2, <3>1, Constants
  <2>8. Paced(r)'
    BY <1>1, <1>5, <2>4, <2>6, Constants DEF Paced, Before, Making
  <2>9. Looked(r)' /\ ListRead(r)' /\ TableRead(r)' /\ ~MissedBefore(r)'
    BY <1>1, <2>4, <2>6 DEF Looked, ListRead, TableRead, MissedBefore
  <2>10. HitLately(r)' /\ DetailRead(r)'
    BY <2>4, <2>6, <2>7 DEF HitLately, DetailRead, Before, Making
  <2>11. Missed(r)' /\ StaysSound(r)
    BY <2>4, <2>6, <2>9 DEF Missed, StaysSound
  <2> QED BY <1>2, <2>4, <2>5, <2>8, <2>9, <2>10, <2>11 DEF RequestStep, RequestOK
<1>9. CASE /\ now > detail.until
           /\ Bring(r, "asking", Absent, FALSE)
           /\ UNCHANGED <<memory, late, admitted>>
  <2>1. PICK g \in Carried : g = [view |-> Absent, hit |-> FALSE, yes |-> FALSE]
    BY ViewTypesOK DEF Carried
  <2>2. "asking" \in Places \ Ends
    BY DEF Places, Ends
  <2>3. Goto(r, "asking") /\ got' = [got EXCEPT ![r] = g]
    BY <1>9, <2>1 DEF Bring
  <2>4. /\ Steady(r) /\ at'[r] = "asking" /\ got'[r] = g /\ began'[r] = now
        /\ UNCHANGED <<now, job, table, since>>
        /\ Kind(r)' = Kind(r) /\ Caller(r)' = u
        /\ Cleared' = Cleared /\ Made' = Made /\ There' = There /\ Right' = Right
    BY <1>6, <2>2, <2>3
  <2>5. Remembers /\ Sends
    BY <1>1, <1>9, CachesAlone DEF caches, views, members
  <2>6. ~g.hit
    BY <2>1
  <2>7. Paced(r)'
    BY <1>1, <1>5, <2>4, Constants DEF Paced, Before, Making
  <2>8. Looked(r)' /\ ListRead(r)' /\ TableRead(r)' /\ HitLately(r)' /\ DetailRead(r)'
    BY <1>1, <2>4, <2>6 DEF Looked, ListRead, TableRead, HitLately, DetailRead, Making
  <2>9. Missed(r)'
    BY <1>1, <1>5, <1>9, <2>4 DEF Missed
  <2>10. StaysSound(r)
    <3>1. There /\ now > Made => Sound
      BY <1>5, <1>9, NoneLeft
    <3> QED BY <2>4, <3>1 DEF StaysSound
  <2> QED BY <1>2, <2>4, <2>5, <2>7, <2>8, <2>9, <2>10 DEF RequestStep, RequestOK
<1> QED BY <1>3, <1>7, <1>8, <1>9 DEF ReadDetail

\* Little is said of a request that is for neither a detail nor a list of travels.
LEMMA OtherKinds ==
    ASSUME NEW r \in REQUESTS, Kind(r)' \notin {"detail", "list"}, at'[r] \notin {"loaded", "selected"},
           Paced(r)'
    PROVE  RequestOK(r)' /\ StaysSound(r)
<1>1. ~MissedBefore(r)'
  BY DEF MissedBefore
<1>2. Looked(r)' /\ HitLately(r)' /\ Missed(r)' /\ DetailRead(r)' /\ ListRead(r)' /\ TableRead(r)'
  BY <1>1 DEF Looked, HitLately, Missed, DetailRead, ListRead, TableRead
<1> QED BY <1>1, <1>2 DEF RequestOK, StaysSound

\* A cached detail that lists nobody is filled, which only one of a deleted travel is.
LEMMA FillDetailStep == ASSUME CachesInv, NEW r \in REQUESTS, FillDetail(r) PROVE RequestStep(r)
<1>1. /\ at[r] = "loaded" /\ Kind(r) = "detail" /\ got[r].hit /\ RequestOK(r) /\ got[r] \in Carried
      /\ UNCHANGED <<table, detail, travels, roster, shared, since, admitted>>
      /\ ViewTypes /\ MemberTypes /\ Go(r, "asking") /\ SetDetail(r, Both(r))
      /\ "asking" \in Places /\ "asking" \notin Ends
  BY Known DEF FillDetail, Loaded, views, Types, CachesInv, Places, Ends
<1>2. Drops
  BY <1>1 DEF Drops, ViewTypes, MemberTypes
<1>3. /\ Steady(r) /\ at'[r] = "asking" /\ got'[r] = got[r] /\ began'[r] = began[r]
      /\ UNCHANGED <<now, job, table, since>>
      /\ Kind(r)' = Kind(r) /\ now' = now /\ There' = There
  BY <1>1, Goes, Keeps
<1>4. ~There
  BY <1>1 DEF RequestOK, DetailRead
<1>5. Remembers /\ Sends
  BY <1>1, <1>3, SetDetailStep
<1>6. Paced(r)'
  BY <1>1, <1>3 DEF RequestOK, Paced, Active, Before, Making, Ends
<1>7. Looked(r)' /\ HitLately(r)' /\ DetailRead(r)' /\ ListRead(r)' /\ TableRead(r)' /\ ~MissedBefore(r)'
  BY <1>1, <1>3, <1>4 DEF Looked, HitLately, DetailRead, ListRead, TableRead, MissedBefore
<1>8. Missed(r)' /\ StaysSound(r)
  BY <1>4, <1>7 DEF Missed, StaysSound
<1> QED BY <1>2, <1>3, <1>5, <1>6, <1>7, <1>8 DEF RequestStep, RequestOK

\* A request ends here.
LEMMA Finishes ==
    ASSUME CachesInv, NEW r \in REQUESTS, NEW place \in Ends, UNCHANGED <<table, since>>,
           \/ Go(r, place)
           \/ \E view \in Views, hit \in BOOLEAN : Bring(r, place, view, hit)
    PROVE  Steady(r) /\ RequestOK(r)' /\ StaysSound(r)
<1>1. \E g \in Carried : Goto(r, place) /\ got' = [got EXCEPT ![r] = g]
  <2>1. CASE Go(r, place)
    <3>1. got[r] \in Carried /\ got \in [REQUESTS -> Carried]
      BY DEF CachesInv, Types, RequestTypes
    <3> QED BY <2>1, <3>1 DEF Go
  <2>2. ASSUME NEW view \in Views, NEW hit \in BOOLEAN, Bring(r, place, view, hit)
        PROVE  \E g \in Carried : Goto(r, place) /\ got' = [got EXCEPT ![r] = g]
    <3>1. [view |-> view, hit |-> hit, yes |-> FALSE] \in Carried
      BY DEF Carried
    <3> QED BY <2>2, <3>1 DEF Bring
  <2> QED BY <2>1, <2>2
<1>2. place \in Places
  BY DEF Places
<1>3. Steady(r) /\ at'[r] = place
  BY <1>1, <1>2, Goes
<1> QED BY <1>3, Ended

\* What was read is cached as the new detail, with its list of members.
LEMMA ShowDetailStep == ASSUME CachesInv, NEW r \in REQUESTS, ShowDetail(r) PROVE RequestStep(r)
<1>1. /\ at[r] = "loaded" /\ Kind(r) \in {"detail", "join"}
      /\ UNCHANGED <<now, table, detail, travels, roster, shared, since, admitted>>
      /\ ViewTypes /\ MemberTypes
  BY DEF ShowDetail, Loaded, views, Types, CachesInv, Go, Bring, Goto
<1>2. Drops
  BY <1>1 DEF Drops, ViewTypes, MemberTypes
<1>3. PICK more \in SUBSET Both(r) : SetDetail(r, more)
  BY DEF ShowDetail
<1>4. Remembers /\ Sends
  BY <1>1, <1>3, SetDetailStep
<1>5. "done" \in Ends /\ "shown" \in Ends /\ Absent \in Views /\ FALSE \in BOOLEAN
  BY ViewTypesOK DEF Ends
<1>6. Steady(r) /\ RequestOK(r)' /\ StaysSound(r)
  BY <1>1, <1>5, Finishes DEF ShowDetail
<1> QED BY <1>2, <1>4, <1>6 DEF RequestStep

\* A handover reads the travel again and replaces the detail.
LEMMA ReplaceDetailStep ==
    ASSUME CachesInv, NEW r \in REQUESTS, ReplaceDetail(r) PROVE RequestStep(r)
<1>1. /\ at[r] = "loaded" /\ Kind(r) = "transfer" /\ RequestOK(r) /\ got[r] \in Carried
      /\ UNCHANGED <<table, detail, travels, roster, shared, since, admitted>>
      /\ ViewTypes /\ MemberTypes /\ Go(r, "listing") /\ SetDetail(r, Fresh(r))
      /\ "listing" \in Places /\ "listing" \notin Ends
  BY Known DEF ReplaceDetail, Loaded, views, Types, CachesInv, Places, Ends
<1>2. Drops
  BY <1>1 DEF Drops, ViewTypes, MemberTypes
<1>3. /\ Steady(r) /\ at'[r] = "listing" /\ began'[r] = began[r]
      /\ UNCHANGED <<now, job, table, since>> /\ Kind(r)' = Kind(r) /\ now' = now
  BY <1>1, Goes, Keeps
<1>4. Remembers /\ Sends
  <2>1. Fresh(r) \in SUBSET Both(r)
    BY DEF Fresh, Both
  <2> QED BY <1>1, <1>3, <2>1, SetDetailStep
<1>5. Paced(r)'
  BY <1>1, <1>3 DEF RequestOK, Paced, Active, Before, Making, Ends
<1> QED BY <1>1, <1>2, <1>3, <1>4, <1>5, OtherKinds DEF RequestStep

\* listTravels shows the cached list or looks for the travels of the caller.
LEMMA ReadListStep == ASSUME CachesInv, NEW r \in REQUESTS, ReadList(r) PROVE RequestStep(r)
<1>1. /\ at[r] = "new" /\ Kind(r) = "list" /\ got[r] \in Carried /\ Caller(r) \in USERS
      /\ UNCHANGED <<table, caches, since, admitted>>
      /\ ViewTypes /\ HistoryTypes
  BY Known DEF ReadList, Types, CachesInv
<1>2. Drops /\ Remembers /\ Sends
  BY <1>1, CachesAlone
<1>3. CASE Bring(r, "shown", travels[Caller(r)].view, FALSE)
  <2>1. travels[Caller(r)].view \in Views /\ "shown" \in Ends /\ FALSE \in BOOLEAN
    BY <1>1 DEF ViewTypes, Ends
  <2> QED BY <1>1, <1>2, <1>3, <2>1, Finishes DEF RequestStep
<1>4. CASE Go(r, "travels")
  <2>1. "travels" \in Places /\ "travels" \notin Ends
    BY DEF Places, Ends
  <2>2. /\ Steady(r) /\ at'[r] = "travels" /\ began'[r] = now
        /\ Kind(r)' = Kind(r) /\ now' = now /\ now \in Nat
    BY <1>1, <1>4, <2>1, Goes, Keeps DEF HistoryTypes
  <2>3. Paced(r)'
    BY <1>1, <2>2, Constants DEF Paced, Before, Making
  <2>4. Looked(r)' /\ HitLately(r)' /\ DetailRead(r)' /\ ListRead(r)' /\ TableRead(r)' /\ ~MissedBefore(r)'
    BY <1>1, <2>2 DEF Looked, HitLately, DetailRead, ListRead, TableRead, MissedBefore
  <2>5. Missed(r)' /\ StaysSound(r)
    BY <2>2, <2>4 DEF Missed, StaysSound
  <2> QED BY <1>2, <2>2, <2>3, <2>4, <2>5 DEF RequestStep, RequestOK
<1> QED BY <1>3, <1>4 DEF ReadList

\* The travels of the caller are read with their owners.
LEMMA SelectTravelsStep ==
    ASSUME CachesInv, NEW r \in REQUESTS, SelectTravels(r) PROVE RequestStep(r)
<1>1. /\ at[r] = "travels" /\ RequestOK(r) /\ got[r] \in Carried /\ began[r] \in Nat
      /\ UNCHANGED <<table, caches, since, admitted>>
      /\ TableTypes
  BY Known DEF SelectTravels, Types, CachesInv
<1>2. Drops /\ Remembers /\ Sends
  BY <1>1, CachesAlone
<1>3. PICK view \in Views, place \in Places \ Ends :
         /\ Bring(r, place, view, FALSE)
         /\ \/ place = "loading" /\ Caller(r) \in table.in /\ view.host = table.owner
            \/ place = "loaded" /\ Caller(r) \notin table.in /\ view = Absent
  <2>1. "loading" \in Places \ Ends /\ "loaded" \in Places \ Ends
    BY DEF Places, Ends
  <2>2. CASE Caller(r) \in table.in
    <3>1. View(table.owner, NoRoster) \in Views /\ View(table.owner, NoRoster).host = table.owner
      BY <1>1, ThereIsOwner, ViewTypesOK
    <3> QED BY <2>1, <2>2, <3>1 DEF SelectTravels
  <2>3. CASE Caller(r) \notin table.in
    BY <2>1, <2>3, ViewTypesOK DEF SelectTravels
  <2> QED BY <2>2, <2>3
<1>4. PICK g \in Carried : g = [view |-> view, hit |-> FALSE, yes |-> FALSE]
  BY DEF Carried
<1>5. Goto(r, place) /\ got' = [got EXCEPT ![r] = g] /\ place \in Places /\ place \notin Ends
  BY <1>3, <1>4 DEF Bring
<1>6. /\ Steady(r) /\ at'[r] = place /\ got'[r] = g /\ began'[r] = began[r]
      /\ UNCHANGED <<now, job, table, since>>
      /\ Kind(r)' = Kind(r) /\ Caller(r)' = Caller(r) /\ now' = now
      /\ \A u : Shows(u)' = Shows(u)
  BY <1>1, <1>5, Goes
<1>7. g.view = view /\ ~g.yes /\ Kind(r) = "list" /\ place \in {"loading", "loaded"}
  BY <1>1, <1>3, <1>4 DEF RequestOK, Paced
<1>8. Paced(r)'
  BY <1>1, <1>6, <1>7 DEF RequestOK, Paced, Active, Before, Making, Ends
<1>9. ListRead(r)'
  BY <1>3, <1>6, <1>7 DEF ListRead, Shows
<1>10. Looked(r)' /\ HitLately(r)' /\ DetailRead(r)' /\ TableRead(r)' /\ ~MissedBefore(r)'
  BY <1>6, <1>7 DEF Looked, HitLately, DetailRead, TableRead, MissedBefore
<1>11. Missed(r)' /\ StaysSound(r)
  BY <1>6, <1>7, <1>10 DEF Missed, StaysSound
<1> QED BY <1>2, <1>6, <1>8, <1>9, <1>10, <1>11 DEF RequestStep, RequestOK

\* A list of travels is shown, and cached for LIST_TTL.
LEMMA ShowListStep == ASSUME CachesInv, NEW r \in REQUESTS, ShowList(r) PROVE RequestStep(r)
<1>1. /\ at[r] = "loaded" /\ Kind(r) = "list" /\ RequestOK(r) /\ got[r] \in Carried
      /\ began[r] \in Nat /\ Caller(r) \in USERS /\ Here(r) \in PROCESSES
      /\ UNCHANGED <<table, detail, travels, roster, memory, shared, since, admitted>>
      /\ Types /\ ViewTypes /\ MemberTypes /\ HistoryTypes /\ Go(r, "shown")
  BY Known DEF ShowList, Loaded, views, members, Types, CachesInv
<1>2. Drops
  BY <1>1 DEF Drops, ViewTypes, MemberTypes
<1>3. Remembers
  BY <1>1 DEF Remembers, MemberTypes, HistoryTypes
<1>4. "shown" \in Ends
  BY DEF Ends
<1>5. Steady(r) /\ RequestOK(r)' /\ StaysSound(r)
  BY <1>1, <1>4, Finishes
<1>6. /\ now' = now /\ table' = table /\ since' = since /\ There' = There
      /\ Told' = Told /\ \A u : Shows(u)' = Shows(u)
  BY <1>5, SameTimes DEF Steady
<1>7. PICK view \in Views, u \in USERS, h \in PROCESSES :
         view = got[r].view /\ u = Caller(r) /\ h = Here(r)
  BY <1>1 DEF Carried
<1>8. view.list \in Roster /\ view.list.in \subseteq USERS
  BY DEF Views, Roster
<1>9. /\ now \in Nat /\ since.travel \in Int /\ Told \in Int /\ LATENCY \in Nat
      /\ now <= began[r] + LATENCY
      /\ since.travel + LATENCY <= Made /\ Made \in Int
  <2>1. now <= began[r] + LATENCY
    BY <1>1 DEF RequestOK, Paced, Active, Ends
  <2> QED BY <1>1, <2>1, Times, Constants
<1>10. view # Shows(u) => now <= Told + LATENCY
  BY <1>1, <1>7, <1>9 DEF RequestOK, ListRead
<1>11. got[r].yes => /\ There => view.list.in # {}
                     /\ view.list # table => now <= since.travel + LATENCY
  BY <1>1, <1>7, <1>9 DEF RequestOK, TableRead
<1>12. PICK items \in SUBSET Items :
         /\ late' = [late EXCEPT ![h] = Append(@, [items |-> items, sent |-> now])]
         /\ \A i \in items : \/ i = Item("travels", u, view)
                             \/ got[r].yes /\ i = Item("roster", NoOne, view.list)
  <2> DEFINE all == {Item("travels", Caller(r), got[r].view)} \cup Fresh(r)
  <2>1. \A i \in all : \/ i = Item("travels", u, view)
                       \/ got[r].yes /\ i = Item("roster", NoOne, view.list)
    BY <1>7 DEF Fresh
  <2>2. Item("travels", u, view) \in Items /\ Item("roster", NoOne, view.list) \in Items
    BY <1>8 DEF Item, Items
  <2>3. all \subseteq Items
    BY <2>1, <2>2
  <2>4. late' = [late EXCEPT ![h] = Append(@, [items |-> all, sent |-> now])]
    BY <1>7 DEF ShowList, Send
  <2> HIDE DEF all
  <2> QED BY <2>1, <2>3, <2>4
<1>13. ASSUME NEW i \in items
       PROVE  AnswerSent(i, now)' /\ ViewSent(i, now)' /\ RosterSent(i, items, now)'
  <2>1. CASE i = Item("travels", u, view)
    <3>1. i.kind = "travels" /\ i.user = u /\ i.view = view
      BY <2>1 DEF Item
    <3> QED BY <1>6, <1>10, <3>1 DEF AnswerSent, ViewSent, RosterSent
  <2>2. CASE got[r].yes /\ i = Item("roster", NoOne, view.list)
    <3>1. i.kind = "roster" /\ i.view = view.list
      BY <2>2 DEF Item
    <3> QED BY <1>6, <1>11, <2>2, <3>1 DEF AnswerSent, ViewSent, RosterSent
  <2> QED BY <1>12, <2>1, <2>2
<1>14. now > Made => RightRosters(items)
  BY <1>9, <1>11, <1>12 DEF RightRosters, Item
<1>15. Sends
  BY <1>12, <1>13, <1>14 DEF Sends, SentOK
<1> QED BY <1>2, <1>3, <1>5, <1>15 DEF RequestStep

\* A join finds the invitation first.
LEMMA FindInviteStep ==
    ASSUME CachesInv, NEW r \in REQUESTS, FindInvite(r) PROVE RequestStep(r)
<1>1. /\ at[r] = "new" /\ Kind(r) = "join" /\ got[r] \in Carried
      /\ UNCHANGED <<table, caches, since, admitted>> /\ HistoryTypes
  BY Known DEF FindInvite, Types, CachesInv
<1>2. Drops /\ Remembers /\ Sends
  BY <1>1, CachesAlone
<1>3. CASE Go(r, "refused")
  <2>1. "refused" \in Ends
    BY DEF Ends
  <2> QED BY <1>1, <1>2, <1>3, <2>1, Finishes DEF RequestStep
<1>4. CASE Go(r, "asking")
  <2>1. "asking" \in Places /\ "asking" \notin Ends
    BY DEF Places, Ends
  <2>2. /\ Steady(r) /\ at'[r] = "asking" /\ began'[r] = now
        /\ Kind(r)' = Kind(r) /\ now' = now /\ now \in Nat
    BY <1>1, <1>4, <2>1, Goes, Keeps DEF HistoryTypes
  <2>3. Paced(r)'
    BY <1>1, <2>2, Constants DEF Paced, Before, Making
  <2> QED BY <1>1, <1>2, <2>2, <2>3, OtherKinds DEF RequestStep
<1> QED BY <1>3, <1>4 DEF FindInvite

\* A change that is not allowed does nothing.
LEMMA RefusedStep ==
    ASSUME CachesInv, NEW r \in REQUESTS, Go(r, "refused"), UNCHANGED <<table, since, caches, admitted>>
    PROVE  RequestStep(r)
<1>1. Drops /\ Remembers /\ Sends
  BY CachesAlone
<1>2. "refused" \in Ends
  BY DEF Ends
<1> QED BY <1>1, <1>2, Finishes DEF RequestStep

\* What is dropped of the answers is as good as never given.
LEMMA Forgets ==
    ASSUME CachesInv, now' = now, admitted' = admitted,
           memory' \in [PROCESSES -> [USERS -> Answer]],
           \A p \in PROCESSES, u \in USERS : memory'[p][u] \in {memory[p][u], NoAnswer}
    PROVE  Remembers
<1>1. admitted \in [USERS -> Int] /\ now \in Nat /\ NoAnswer.until = -1
  BY DEF CachesInv, Types, HistoryTypes, NoAnswer
<1>2. ASSUME NEW p \in PROCESSES, NEW u \in USERS, memory'[p][u] = NoAnswer
      PROVE  MemoryOK(p, u)'
  BY <1>1, <1>2, Constants DEF MemoryOK
<1> QED BY <1>1, <1>2 DEF Remembers

\* Dropped entries are entries, and dropping lists leaves the other users theirs.
LEMMA Nones ==
    /\ NoView \in [view : Views, until : Int] /\ NoAnswer \in Answer
    /\ \A gone : DropLists(gone) /\ ViewTypes =>
          /\ travels' \in [USERS -> [view : Views, until : Int]]
          /\ \A u \in USERS : travels'[u] \in {travels[u], NoView}
<1>1. NoView \in [view : Views, until : Int] /\ NoAnswer \in Answer
  BY ViewTypesOK DEF NoView, NoAnswer, Answer
<1> QED BY <1>1 DEF DropLists, ViewTypes

\* A change's request is under way.
LEMMA Dropping ==
    ASSUME CachesInv, NEW r \in REQUESTS, at[r] \in {"dropping", "listing", "clearing"}
    PROVE  /\ Kind(r) \notin {"detail", "list"} /\ began[r] <= since.travel /\ began[r] \in Nat
           /\ now <= since.travel + LATENCY
<1>1. /\ Kind(r) \notin {"detail", "list"} /\ began[r] <= since.travel /\ began[r] \in Nat
      /\ now <= began[r] + LATENCY /\ HistoryTypes
  BY Known DEF RequestOK, Paced, Active, Ends
<1> QED BY <1>1, Times, Constants

\* The detail, the user's own list and the departed one's answers are dropped.
LEMMA DropDetailStep == ASSUME CachesInv, NEW r \in REQUESTS, DropDetail(r) PROVE RequestStep(r)
<1>1. /\ at[r] = "dropping" /\ RequestOK(r) /\ got[r] \in Carried
      /\ UNCHANGED <<table, roster, late, since, admitted>> /\ detail' = NoView
      /\ Types /\ ViewTypes /\ MemberTypes /\ HistoryTypes /\ Who(r) \in USERS /\ Here(r) \in PROCESSES
  BY Known DEF DropDetail, Types, CachesInv
<1>2. /\ Kind(r) \notin {"detail", "list"} /\ began[r] <= since.travel /\ began[r] \in Nat
      /\ now <= since.travel + LATENCY
  BY <1>1, Dropping
<1>3. PICK place \in {"clearing", "listing"} : Go(r, place)
  BY DEF DropDetail
<1>4. place \in Places /\ place \notin Ends
  BY DEF Places, Ends
<1>5. /\ Steady(r) /\ at'[r] = place /\ began'[r] = began[r]
      /\ UNCHANGED <<now, job, table, since>> /\ Kind(r)' = Kind(r) /\ now' = now
  BY <1>1, <1>3, <1>4, Goes, Keeps
<1>6. Paced(r)'
  BY <1>1, <1>2, <1>5 DEF RequestOK, Paced, Active, Before, Making, Ends
<1>7. /\ travels' \in [USERS -> [view : Views, until : Int]]
      /\ \A u \in USERS : travels'[u] \in {travels[u], NoView}
  BY <1>1, Nones DEF DropDetail
<1>8. /\ shared' \in [USERS -> Answer] /\ memory' \in [PROCESSES -> [USERS -> Answer]]
      /\ \A u \in USERS : shared'[u] \in {shared[u], NoAnswer}
      /\ \A p \in PROCESSES, u \in USERS : memory'[p][u] \in {memory[p][u], NoAnswer}
  <2>1. CASE UNCHANGED members
    BY <1>1, <2>1 DEF members, MemberTypes
  <2>2. CASE /\ memory' = [memory EXCEPT ![Here(r)][Who(r)] = NoAnswer]
             /\ shared' = [shared EXCEPT ![Who(r)] = NoAnswer]
    <3>1. PICK h \in PROCESSES, w \in USERS : h = Here(r) /\ w = Who(r)
      BY <1>1
    <3>2. memory' = [memory EXCEPT ![h] = [memory[h] EXCEPT ![w] = NoAnswer]]
      BY <2>2, <3>1
    <3>3. [memory[h] EXCEPT ![w] = NoAnswer] \in [USERS -> Answer]
      BY <1>1, Nones DEF MemberTypes
    <3>4. /\ memory' \in [PROCESSES -> [USERS -> Answer]] /\ \A p \in PROCESSES \ {h} : memory'[p] = memory[p]
          /\ memory'[h] = [memory[h] EXCEPT ![w] = NoAnswer]
      BY <1>1, <3>2, <3>3 DEF MemberTypes
    <3>5. \A u \in USERS : memory'[h][u] \in {memory[h][u], NoAnswer}
      BY <1>1, <3>4 DEF MemberTypes
    <3>6. shared' \in [USERS -> Answer] /\ \A u \in USERS : shared'[u] \in {shared[u], NoAnswer}
      BY <1>1, <2>2, <3>1, Nones DEF MemberTypes
    <3> QED BY <3>4, <3>5, <3>6
  <2> QED BY <2>1, <2>2 DEF DropDetail
<1>9. Remembers
  BY <1>1, <1>5, <1>8, Forgets
<1>10. Drops
  BY <1>1, <1>2, <1>7, <1>8 DEF Drops
<1>11. Sends
  BY <1>1 DEF Sends
<1> QED BY <1>2, <1>5, <1>6, <1>9, <1>10, <1>11, OtherKinds DEF RequestStep

\* invalidateTravelCachesForMembers drops the lists of those who are members now.
LEMMA DropMembersListsStep ==
    ASSUME CachesInv, NEW r \in REQUESTS, DropMembersLists(r) PROVE RequestStep(r)
<1>1. /\ at[r] = "listing" /\ RequestOK(r) /\ got[r] \in Carried
      /\ UNCHANGED <<table, detail, roster, memory, shared, since, admitted>>
      /\ Types /\ TableTypes /\ ViewTypes /\ MemberTypes /\ HistoryTypes /\ Here(r) \in PROCESSES
  BY Known DEF DropMembersLists, members, Types, CachesInv
<1>2. /\ Kind(r) \notin {"detail", "list"} /\ began[r] <= since.travel /\ began[r] \in Nat
      /\ now <= since.travel + LATENCY
  BY <1>1, Dropping
<1>3. Remembers
  BY <1>1 DEF Remembers, MemberTypes, HistoryTypes
<1>4. CASE /\ Send(Here(r), {Item("drop", u, Absent) : u \in MembersLists(r)})
           /\ Bring(r, "done", Absent, FALSE) /\ UNCHANGED travels
  <2>1. Drops
    BY <1>1, <1>4 DEF Drops, ViewTypes, MemberTypes
  <2>2. "done" \in Ends /\ Absent \in Views /\ FALSE \in BOOLEAN
    BY ViewTypesOK DEF Ends
  <2>3. Steady(r) /\ RequestOK(r)' /\ StaysSound(r)
    BY <1>1, <1>4, <2>2, Finishes
  <2>4. PICK items \in SUBSET Items :
           /\ late' = [late EXCEPT ![Here(r)] = Append(@, [items |-> items, sent |-> now])]
           /\ \A i \in items : i.kind = "drop"
    <3>1. \A u \in USERS : Item("drop", u, Absent) \in Items /\ Item("drop", u, Absent).kind = "drop"
      BY ViewTypesOK DEF Item, Items
    <3>2. MembersLists(r) \subseteq USERS
      BY <1>1, ThereIsOwner DEF MembersLists
    <3> DEFINE all == {Item("drop", u, Absent) : u \in MembersLists(r)}
    <3>3. all \subseteq Items /\ \A i \in all : i.kind = "drop"
      BY <3>1, <3>2
    <3>4. late' = [late EXCEPT ![Here(r)] = Append(@, [items |-> all, sent |-> now])]
      BY <1>4 DEF Send
    <3> HIDE DEF all
    <3> QED BY <3>3, <3>4
  <2>5. SentOK(items, now)' /\ RightRosters(items)
    BY <2>4 DEF SentOK, AnswerSent, ViewSent, RosterSent, RightRosters
  <2>6. Sends
    BY <1>1, <2>4, <2>5 DEF Sends
  <2> QED BY <1>3, <2>1, <2>3, <2>6 DEF RequestStep
<1>5. CASE DropLists(MembersLists(r)) /\ Go(r, "clearing") /\ UNCHANGED late
  <2>1. "clearing" \in Places /\ "clearing" \notin Ends
    BY DEF Places, Ends
  <2>2. /\ Steady(r) /\ at'[r] = "clearing" /\ began'[r] = began[r]
        /\ UNCHANGED <<now, job, table, since>> /\ Kind(r)' = Kind(r) /\ now' = now
    BY <1>1, <1>5, <2>1, Goes, Keeps
  <2>3. Paced(r)'
    BY <1>1, <1>2, <2>2 DEF RequestOK, Paced, Active, Before, Making, Ends
  <2>4. Drops
    BY <1>1, <1>5, Nones DEF Drops, MemberTypes
  <2>5. Sends
    BY <1>5 DEF Sends
  <2> QED BY <1>2, <1>3, <2>2, <2>3, <2>4, <2>5, OtherKinds DEF RequestStep
<1> QED BY <1>4, <1>5 DEF DropMembersLists

\* invalidateMembersCache drops the members and all answers about membership.
LEMMA ClearMembersStep ==
    ASSUME CachesInv, NEW r \in REQUESTS, ClearMembers(r) PROVE RequestStep(r)
<1> DEFINE u == Caller(r)
           none == [memory EXCEPT ![Here(r)] = [v \in USERS |-> NoAnswer]]
<1>1. /\ at[r] = "clearing" /\ RequestOK(r) /\ got[r] \in Carried
      /\ UNCHANGED <<table, detail, since, admitted>> /\ roster' = NoView
      /\ shared' = [v \in USERS |-> NoAnswer]
      /\ Types /\ TableTypes /\ ViewTypes /\ MemberTypes /\ HistoryTypes
      /\ Here(r) \in PROCESSES /\ u \in USERS
  BY Known DEF ClearMembers, Types, CachesInv
<1>2. /\ Kind(r) \notin {"detail", "list"} /\ began[r] <= since.travel /\ began[r] \in Nat
      /\ now <= since.travel + LATENCY
  BY <1>1, Dropping
<1>3. PICK place \in {"summary", "done"} : Bring(r, place, Absent, FALSE)
  BY DEF ClearMembers
<1>4. PICK g \in Carried : g = [view |-> Absent, hit |-> FALSE, yes |-> FALSE]
  BY ViewTypesOK DEF Carried
<1>5. Goto(r, place) /\ got' = [got EXCEPT ![r] = g] /\ place \in Places
  BY <1>3, <1>4 DEF Bring, Places, Ends
<1>6. /\ Steady(r) /\ at'[r] = place /\ (place = "summary" => began'[r] = began[r])
      /\ UNCHANGED <<now, job, table, since>> /\ Kind(r)' = Kind(r) /\ now' = now
      /\ There' = There
  BY <1>1, <1>5, Goes DEF Ends
<1>7. RequestOK(r)' /\ StaysSound(r)
  <2>1. CASE place = "done"
    <3>1. at'[r] \in Ends
      BY <1>6, <2>1 DEF Ends
    <3> QED BY <3>1, Ended
  <2>2. CASE place = "summary"
    <3>1. Paced(r)'
      BY <1>1, <1>2, <1>6, <2>2 DEF RequestOK, Paced, Active, Before, Making, Ends
    <3> QED BY <1>2, <1>6, <2>2, <3>1, OtherKinds
  <2> QED BY <2>1, <2>2
<1>8. Drops
  <2>1. CASE UNCHANGED travels
    BY <1>1, <2>1, Nones DEF Drops, ViewTypes
  <2>2. CASE DropLists(got[r].view.list.in)
    BY <1>1, <2>2, Nones DEF Drops
  <2> QED BY <2>1, <2>2 DEF ClearMembers
<1>9. /\ none \in [PROCESSES -> [USERS -> Answer]]
      /\ \A p \in PROCESSES, v \in USERS : none[p][v] \in {memory[p][v], NoAnswer}
  BY <1>1, Nones DEF MemberTypes
<1>10. CASE memory' = none /\ UNCHANGED late
  <2>1. Remembers
    BY <1>1, <1>6, <1>9, <1>10, Forgets
  <2>2. Sends
    BY <1>10 DEF Sends
  <2> QED BY <1>6, <1>7, <1>8, <2>1, <2>2 DEF RequestStep
<1>11. CASE memory' = Remember(none, r, u, TRUE) /\ Send(Here(r), {Member(u, TRUE)})
  <2>1. /\ now \in Nat /\ since.travel \in Int /\ LATENCY \in Nat /\ ROSTER_TTL \in Nat
        /\ MEMORY_TTL \in Nat /\ YES_TTL \in Nat /\ DEPARTED_AGE \in Nat /\ MEMORY_TTL <= YES_TTL
        /\ 6 * LATENCY + ROSTER_TTL + YES_TTL <= DEPARTED_AGE
        /\ Cleared = since.travel + 2 * LATENCY + ROSTER_TTL
    BY <1>1, Times, Constants
  <2>2. PICK h \in PROCESSES, v \in USERS : h = Here(r) /\ v = u
    BY <1>1
  <2>3. PICK items \in SUBSET Items : items = {Member(v, TRUE)}
    <3>1. Member(v, TRUE) \in Items
      BY ViewTypesOK DEF Member, Item, Items
    <3> QED BY <3>1
  <2>4. \A i \in items : i.kind = "yes" /\ i.user = v
    BY <2>3 DEF Member, Item
  <2>5. Sends
    <3>1. late' = [late EXCEPT ![h] = Append(@, [items |-> items, sent |-> now])]
      BY <1>11, <2>2, <2>3 DEF Send
    <3>2. Cleared' = Cleared /\ now <= Cleared + 3 * LATENCY
      BY <1>1, <1>2, <1>6, <2>1, SameTimes
    <3>3. ASSUME NEW i \in items
          PROVE  AnswerSent(i, now)' /\ ViewSent(i, now)' /\ RosterSent(i, items, now)'
      BY <1>6, <2>4, <3>2 DEF AnswerSent, ViewSent, RosterSent
    <3>4. SentOK(items, now)' /\ RightRosters(items)
      BY <2>4, <3>3 DEF SentOK, RightRosters
    <3> QED BY <3>1, <3>4 DEF Sends
  <2> DEFINE answer == [yes |-> TRUE, until |-> now + MEMORY_TTL]
  <2>6. answer \in Answer /\ answer.yes /\ answer.until = now + MEMORY_TTL
    BY <2>1 DEF Answer
  <2>7. memory' = [none EXCEPT ![h] = [none[h] EXCEPT ![v] = answer]]
    BY <1>11, <2>2 DEF Remember, MemoryLife
  <2> HIDE DEF answer, none
  <2>8. [none[h] EXCEPT ![v] = answer] \in [USERS -> Answer]
    BY <1>9, <2>6
  <2>9. memory' \in [PROCESSES -> [USERS -> Answer]] /\ \A p \in PROCESSES \ {h} : memory'[p] = none[p]
    BY <1>9, <2>7, <2>8
  <2>10. memory'[h] = [none[h] EXCEPT ![v] = answer]
    BY <1>9, <2>7
  <2>11. memory'[h][v] = answer /\ \A w \in USERS \ {v} : memory'[h][w] = none[h][w]
    BY <1>9, <2>10
  <2>12. ASSUME NEW p \in PROCESSES, NEW w \in USERS
         PROVE  memory'[p][w] = memory[p][w] \/ MemoryOK(p, w)'
    <3>1. memory'[p][w] \in {memory[p][w], NoAnswer, answer}
      BY <1>9, <2>9, <2>11
    <3>2. NoAnswer.until = -1 /\ now' = now /\ since' = since /\ admitted' = admitted
      BY <1>1, <1>6 DEF NoAnswer
    <3>3. CASE memory'[p][w] = NoAnswer
      BY <2>1, <3>2, <3>3 DEF MemoryOK
    <3>4. CASE memory'[p][w] = answer
      <4>1. answer.until <= since.travel + DEPARTED_AGE
        BY <1>2, <2>1, <2>6
      <4> QED BY <2>1, <2>6, <3>2, <3>4, <4>1 DEF MemoryOK, Outlived
    <3> QED BY <3>1, <3>3, <3>4
  <2>13. Remembers
    BY <1>1, <2>9, <2>12 DEF Remembers, HistoryTypes
  <2> QED BY <1>6, <1>7, <1>8, <2>5, <2>13 DEF RequestStep
<1> QED BY <1>10, <1>11 DEF ClearMembers

\* Whoever is a member of the travel, so is its owner, unless it is gone.
LEMMA ChangedTable ==
    ASSUME TableTypes, NEW r \in REQUESTS, job[r] \in Job, Allowed(r), table' = Changed(r)
    PROVE  TableTypes' /\ (There' => There)
<1>1. Caller(r) \in USERS /\ Who(r) \in USERS
  BY DEF Caller, Who, Job
<1>2. table \in Roster /\ NoOne \notin USERS /\ table.in \subseteq USERS
  BY TravelCachesAssumption DEF TableTypes, Roster
<1>3. CASE Kind(r) = "join"
  <2>1. There /\ table.owner \in table.in
    BY <1>3 DEF Allowed, There, TableTypes, NoRoster
  <2>2. table' = [table EXCEPT !.in = @ \cup {Caller(r)}]
    BY <1>3 DEF Changed
  <2> QED BY <1>1, <1>2, <2>1, <2>2 DEF TableTypes, There, Roster
<1>4. CASE Kind(r) \in {"leave", "remove"}
  <2>1. There /\ table.owner \in table.in /\ Who(r) # table.owner
    BY <1>1, <1>2, <1>4 DEF Allowed, There, TableTypes, NoRoster, Who
  <2>2. table' = [table EXCEPT !.in = @ \ {Who(r)}]
    BY <1>4 DEF Changed
  <2> QED BY <1>1, <1>2, <2>1, <2>2 DEF TableTypes, There, Roster
<1>5. CASE Kind(r) = "transfer"
  <2>1. There /\ Who(r) \in table.in
    BY <1>1, <1>2, <1>5 DEF Allowed, There
  <2>2. table' = [table EXCEPT !.owner = Who(r)]
    BY <1>5 DEF Changed
  <2> QED BY <1>1, <1>2, <2>1, <2>2 DEF TableTypes, There, Roster
<1>6. CASE Kind(r) \notin {"join", "leave", "remove", "transfer"}
  <2>1. table' = NoRoster
    BY <1>6 DEF Changed
  <2> QED BY <2>1, ViewTypesOK DEF TableTypes, There, NoRoster
<1> QED BY <1>3, <1>4, <1>5, <1>6

\* Whatever is cached and under way when a change is made is allowed for some time.
LEMMA ChangeStep ==
    ASSUME CachesInv, NEW r \in REQUESTS, Change(r), Allowed(r)
    PROVE  CachesInv'
<1>1. /\ at[r] = "joining" \/ (at[r] = "new" /\ Kind(r) \in {"leave", "remove", "transfer", "delete"})
      /\ RequestOK(r) /\ job[r] \in Job
      /\ Types /\ RequestTypes /\ TableTypes /\ ViewTypes /\ MemberTypes /\ HistoryTypes
      /\ CachesOK /\ \A s \in REQUESTS : RequestOK(s)
      /\ UNCHANGED <<now, job, detail, travels, roster, memory, shared, late, admitted>>
  BY Known DEF Change, Types, CachesInv, RequestTypes, Bring, Goto, caches, views, members
<1>2. /\ Bring(r, IF Kind(r) = "transfer" THEN "clearing" ELSE "dropping", View(NoOne, table), FALSE)
      /\ table' = Changed(r)
      /\ since' = [travel |-> now,
                   part |-> [u \in USERS |-> IF (u \in table.in) # (u \in table'.in)
                                             THEN now ELSE since.part[u]]]
  BY DEF Change
<1>3. PICK place \in {"clearing", "dropping"}, view \in Views : Bring(r, place, view, FALSE)
  BY <1>1, <1>2, ViewTypesOK DEF TableTypes
<1>4. PICK g \in Carried : g = [view |-> view, hit |-> FALSE, yes |-> FALSE]
  BY DEF Carried
<1>5. /\ at' = [at EXCEPT ![r] = place] /\ got' = [got EXCEPT ![r] = g]
      /\ began' = [began EXCEPT ![r] = IF at[r] = "new" THEN now ELSE @]
      /\ place \in Places
  BY <1>3, <1>4 DEF Bring, Goto, Places, Ends
<1>6. /\ at' \in [REQUESTS -> Places] /\ got' \in [REQUESTS -> Carried] /\ began' \in [REQUESTS -> Nat]
      /\ at'[r] = place /\ (began'[r] = now \/ (at[r] # "new" /\ began'[r] = began[r]))
      /\ \A s \in REQUESTS \ {r} : at'[s] = at[s] /\ began'[s] = began[s] /\ got'[s] = got[s]
      /\ \A s \in REQUESTS : Kind(s)' = Kind(s) /\ Caller(s)' = Caller(s)
  <2>1. now \in Nat
    BY <1>1 DEF HistoryTypes
  <2> QED BY <1>1, <1>5, <2>1 DEF RequestTypes, Kind, Caller
<1>7. TableTypes' /\ (There' => There)
  BY <1>1, <1>2, ChangedTable
<1>8. /\ since'.travel = now /\ since' \in [travel : Int, part : [USERS -> Int]]
      /\ \A u \in USERS : since'.part[u] \in Int
                          /\ (since'.part[u] = now
                              \/ (since'.part[u] = since.part[u] /\ (u \in table.in <=> u \in table'.in)))
  BY <1>1, <1>2 DEF HistoryTypes
<1>9. HistoryTypes' /\ HistoryTypes
  BY <1>1, <1>8 DEF HistoryTypes
<1>10. /\ now \in Nat /\ now' = now
       /\ LATENCY \in Nat /\ ROSTER_TTL \in Nat /\ DETAIL_TTL \in Nat /\ LIST_TTL \in Nat
       /\ MEMORY_TTL \in Nat /\ MEMBER_TTL \in Nat /\ YES_TTL \in Nat /\ DEPARTED_AGE \in Nat
       /\ MEMORY_TTL <= YES_TTL /\ MEMBER_TTL <= YES_TTL
       /\ 6 * LATENCY + ROSTER_TTL + YES_TTL <= DEPARTED_AGE
       /\ Cleared' \in Int /\ Cleared' = now + 2 * LATENCY + ROSTER_TTL
       /\ Made' \in Int /\ Made' = Cleared' + 2 * LATENCY
       /\ Told' \in Int /\ Told' = Cleared' + 4 * LATENCY + ROSTER_TTL
       /\ detail.until \in Int /\ roster.until \in Int
       /\ \A s \in REQUESTS : began[s] \in Nat /\ began'[s] \in Nat
  BY <1>1, <1>6, <1>8, <1>9, Constants DEF HistoryTypes, Cleared, Made, Told, ViewTypes, RequestTypes
<1>11. Types'
  BY <1>1, <1>6, <1>7, <1>9 DEF Types, RequestTypes, ViewTypes, MemberTypes
<1>12. ASSUME NEW s \in REQUESTS PROVE RequestOK(s)'
  <2>1. CASE s = r
    <3>1. Kind(r) \notin {"detail", "list"}
      BY <1>1 DEF RequestOK, Paced
    <3>2. began'[r] <= now /\ now <= began'[r] + LATENCY
      BY <1>1, <1>6, <1>10 DEF RequestOK, Paced, Active, Ends
    <3>3. Paced(r)'
      BY <1>6, <1>8, <1>10, <3>1, <3>2 DEF Paced, Before, Making
    <3> QED BY <1>6, <2>1, <3>1, <3>3, OtherKinds
  <2>2. CASE s # r
    <3>1. /\ at'[s] = at[s] /\ began'[s] = began[s] /\ got'[s] = got[s] /\ RequestOK(s)
          /\ Kind(s)' = Kind(s) /\ Caller(s)' = Caller(s) /\ Caller(s) \in USERS
          /\ Active(s)' = Active(s) /\ began[s] \in Nat
          /\ MissedBefore(s)' = MissedBefore(s)
      BY <1>1, <1>6, <1>10, <2>2, Known DEF Active, MissedBefore
    <3>2. at[s] \notin Ends \cup {"new"} =>
             /\ began[s] <= now /\ now <= began[s] + LATENCY /\ began[s] <= since'.travel
             /\ began[s] <= Cleared' /\ began[s] <= Made' /\ began[s] <= Told'
             /\ began[s] <= Cleared' + 4 * LATENCY + DETAIL_TTL
      <4>1. at[s] \notin Ends \cup {"new"} => began[s] <= now /\ now <= began[s] + LATENCY
        BY <3>1 DEF RequestOK, Paced, Active
      <4> QED BY <1>8, <1>10, <3>1, <4>1
    <3>3. Paced(s)'
      BY <1>10, <3>1, <3>2 DEF RequestOK, Paced, Active, Before, Making, Ends
    <3>4. Looked(s)'
      <4>1. at[s] = "selected" /\ ~got[s].yes /\ Caller(s) \in table'.in => began[s] <= since'.part[Caller(s)]
        BY <1>8, <3>1, <3>2 DEF RequestOK, Looked, Ends
      <4> QED BY <3>1, <3>2, <4>1 DEF Looked, Ends
    <3>5. HitLately(s)' /\ Missed(s)'
      BY <1>1, <3>1, <3>2 DEF RequestOK, HitLately, Missed, Before, Ends
    <3>6. DetailRead(s)'
      BY <1>7, <3>1, <3>2 DEF RequestOK, DetailRead, Making, Ends
    <3>7. ListRead(s)' /\ TableRead(s)'
      BY <1>7, <3>1, <3>2 DEF RequestOK, ListRead, TableRead, Ends
    <3> QED BY <3>3, <3>4, <3>5, <3>6, <3>7 DEF RequestOK
  <2> QED BY <2>1, <2>2
<1>13. ASSUME NEW p \in PROCESSES PROVE LateOK(p)'
  <2>1. LateOK(p) /\ late' = late /\ late[p] \in Seq(Batch)
    BY <1>1 DEF CachesOK, MemberTypes
  <2>2. ASSUME NEW k \in DOMAIN late[p] PROVE SentOK(late[p][k].items, late[p][k].sent)'
    <3>1. PICK items \in SUBSET Items, sent \in Nat : items = late[p][k].items /\ sent = late[p][k].sent
      <4>1. late[p][k] \in Batch
        BY <2>1
      <4> QED BY <4>1 DEF Batch
    <3>2. sent <= now /\ SentOK(items, sent)
      BY <2>1, <3>1 DEF LateOK
    <3>3. ASSUME NEW i \in items
          PROVE  AnswerSent(i, sent)' /\ ViewSent(i, sent)' /\ RosterSent(i, items, sent)'
      <4>1. AnswerSent(i, sent) /\ ViewSent(i, sent) /\ RosterSent(i, items, sent)
        BY <3>2 DEF SentOK
      <4>2. sent <= since'.travel + LATENCY /\ sent <= Cleared' + 3 * LATENCY /\ sent <= Told' + LATENCY
        BY <1>8, <1>10, <3>2
      <4>3. i.kind = "no" => i.user \in USERS
        BY DEF Items
      <4>4. i.kind = "no" /\ i.user \in table'.in => sent <= since'.part[i.user] + LATENCY
        <5>1. i.kind = "no" => \/ since'.part[i.user] = now
                               \/ since'.part[i.user] = since.part[i.user]
                                  /\ (i.user \in table.in <=> i.user \in table'.in)
          BY <1>8, <4>3
        <5> QED BY <1>10, <3>2, <4>1, <5>1 DEF AnswerSent
      <4> QED BY <1>7, <4>1, <4>2, <4>4 DEF AnswerSent, ViewSent, RosterSent
    <3>4. SentOK(items, sent)'
      BY <3>3 DEF SentOK
    <3> QED BY <2>1, <3>1, <3>4
  <2> QED BY <1>10, <2>1, <2>2 DEF LateOK
<1>14. ASSUME NEW u \in USERS, NEW until \in Int, until <= now + YES_TTL PROVE Outlived(u, until)'
  <2>1. until <= since'.travel + DEPARTED_AGE
    BY <1>8, <1>10, <1>14
  <2> QED BY <2>1 DEF Outlived
<1>15. ASSUME NEW p \in PROCESSES, NEW u \in USERS PROVE MemoryOK(p, u)'
  <2>1. MemoryOK(p, u) /\ memory' = memory /\ memory[p][u].until \in Int
    BY <1>1 DEF CachesOK, MemberTypes, Answer
  <2>2. /\ memory[p][u].until <= now + MEMORY_TTL /\ memory[p][u].until <= now + YES_TTL
        /\ memory[p][u].until <= now + 2 * LATENCY + MEMBER_TTL + MEMORY_TTL
    BY <1>10, <2>1 DEF MemoryOK
  <2> QED BY <1>8, <1>10, <1>14, <2>1, <2>2 DEF MemoryOK
<1>16. ASSUME NEW u \in USERS PROVE SharedOK(u)' /\ ListOK(u)'
  <2>1. SharedOK(u) /\ ListOK(u) /\ shared' = shared /\ travels' = travels
        /\ shared[u].until \in Int /\ travels[u].until \in Int
    BY <1>1 DEF CachesOK, MemberTypes, Answer, ViewTypes
  <2>2. /\ shared[u].until <= now + MEMBER_TTL /\ shared[u].until <= now + YES_TTL
        /\ shared[u].until <= now + 2 * LATENCY + MEMBER_TTL
        /\ travels[u].until <= now + LIST_TTL
        /\ travels[u].until <= Told' + 2 * LATENCY + LIST_TTL
    BY <1>10, <2>1 DEF SharedOK, ListOK
  <2>3. SharedOK(u)'
    BY <1>8, <1>10, <1>14, <2>1, <2>2 DEF SharedOK
  <2> QED BY <1>10, <2>1, <2>2, <2>3 DEF ListOK
<1>17. RosterOK' /\ DetailOK'
  <2>1. RosterOK /\ DetailOK /\ roster' = roster /\ detail' = detail
    BY <1>1 DEF CachesOK
  <2>2. /\ roster.until <= now + ROSTER_TTL /\ roster.until <= Cleared' /\ roster.until <= Told'
        /\ detail.until <= now + DETAIL_TTL /\ detail.until <= Cleared' + 4 * LATENCY + DETAIL_TTL
    BY <1>10, <2>1 DEF RosterOK, DetailOK
  <2> QED BY <1>7, <1>10, <2>1, <2>2 DEF RosterOK, DetailOK
<1>18. LateMiss'
  <2>1. ASSUME NEW s \in REQUESTS, MissedBefore(s)' PROVE ~(began'[s] > Made')
    <3>1. at'[s] \notin Ends \cup {"new"}
      BY <2>1 DEF MissedBefore, Before, Making, Ends
    <3>2. began'[s] <= now
      BY <1>10, <1>12, <3>1 DEF RequestOK, Paced, Active
    <3> QED BY <1>10, <3>2
  <2> QED BY <2>1 DEF LateMiss
<1> QED BY <1>11, <1>12, <1>13, <1>15, <1>16, <1>17, <1>18 DEF CachesInv, CachesOK

\* What is written of kinds of which something is sent.
LEMMA SentViews ==
    ASSUME NEW items \in SUBSET Items
    PROVE  /\ \A i \in items : i.kind \in {"detail", "travels"} => i.view \in Views
           /\ \A i \in items : i.kind = "roster" => i.view \in Roster
BY DEF Items

\* What one process sent arrives, within LATENCY, as it was when it was sent.
LEMMA ArriveStep ==
    ASSUME CachesInv, NEW p \in PROCESSES, Arrive(p)
    PROVE  CachesInv'
<1>1. /\ Types /\ RequestTypes /\ TableTypes /\ ViewTypes /\ MemberTypes /\ HistoryTypes
      /\ CachesOK /\ LateMiss /\ \A s \in REQUESTS : RequestOK(s)
      /\ late[p] # <<>> /\ late' = [late EXCEPT ![p] = Tail(@)]
      /\ UNCHANGED <<now, job, at, began, got, table, memory, since, admitted>>
  BY DEF Types, CachesInv, Arrive, requests, history
<1>2. late[p] \in Seq(Batch) /\ LateOK(p) /\ Head(late[p]) = late[p][1] /\ 1 \in DOMAIN late[p]
  BY <1>1 DEF MemberTypes, CachesOK
<1>3. PICK items \in SUBSET Items, sent \in Nat :
         /\ items = Head(late[p]).items /\ sent = Head(late[p]).sent
         /\ sent <= now /\ now <= sent + LATENCY /\ SentOK(items, sent)
  <2>1. late[p][1] \in Batch
    BY <1>2
  <2>2. late[p][1].items \in SUBSET Items /\ late[p][1].sent \in Nat
    BY <2>1 DEF Batch
  <2> QED BY <1>1, <1>2, <2>2 DEF LateOK
<1>4. /\ now \in Nat /\ now' = now /\ since.travel \in Int /\ since.travel <= now
      /\ \A u \in USERS : since.part[u] \in Int /\ admitted[u] \in Int
      /\ LATENCY \in Nat /\ ROSTER_TTL \in Nat /\ DETAIL_TTL \in Nat /\ LIST_TTL \in Nat
      /\ MEMORY_TTL \in Nat /\ MEMBER_TTL \in Nat /\ YES_TTL \in Nat /\ DEPARTED_AGE \in Nat
      /\ ROSTER_TTL <= DETAIL_TTL /\ MEMBER_TTL <= YES_TTL
      /\ 6 * LATENCY + ROSTER_TTL + YES_TTL <= DEPARTED_AGE
      /\ Cleared \in Int /\ Cleared = since.travel + 2 * LATENCY + ROSTER_TTL
      /\ Made \in Int /\ Made = Cleared + 2 * LATENCY
      /\ Told \in Int /\ Told = Cleared + 4 * LATENCY + ROSTER_TTL
      /\ detail.until \in Int /\ roster.until \in Int
  BY <1>1, Times, Constants DEF ViewTypes
<1>5. /\ Cleared' = Cleared /\ Made' = Made /\ Told' = Told
      /\ There' = There /\ Right' = Right /\ \A u : Shows(u)' = Shows(u)
  BY <1>1, SameTimes
<1>6. \A u \in USERS : \/ shared'[u] = shared[u]
                       \/ \E i \in items : /\ i.user = u /\ i.kind \in {"yes", "no"}
                                           /\ shared'[u] = [yes |-> i.kind = "yes", until |-> now + MEMBER_TTL]
  <2> SUFFICES ASSUME NEW u \in USERS
               PROVE  \/ shared'[u] = shared[u]
                      \/ \E i \in items : /\ i.user = u /\ i.kind \in {"yes", "no"}
                                          /\ shared'[u] = [yes |-> i.kind = "yes", until |-> now + MEMBER_TTL]
    OBVIOUS
  <2> DEFINE Tells(kind) == \E i \in {i \in items : i.kind = kind} : i.user = u
  <2>1. shared'[u] = IF Tells("yes") \/ Tells("no")
                     THEN [yes |-> Tells("yes"), until |-> now + MEMBER_TTL] ELSE shared[u]
    BY <1>3 DEF Arrive
  <2>2. CASE Tells("yes")
    <3>1. PICK i \in items : i.kind = "yes" /\ i.user = u
      BY <2>2
    <3>2. shared'[u] = [yes |-> TRUE, until |-> now + MEMBER_TTL]
      BY <2>1, <2>2
    <3> QED BY <3>1, <3>2
  <2>3. CASE ~Tells("yes") /\ Tells("no")
    <3>1. PICK i \in items : i.kind = "no" /\ i.user = u
      BY <2>3
    <3>2. shared'[u] = [yes |-> FALSE, until |-> now + MEMBER_TTL]
      BY <2>1, <2>3
    <3> QED BY <3>1, <3>2
  <2>4. CASE ~Tells("yes") /\ ~Tells("no")
    BY <2>1, <2>4
  <2> QED BY <2>2, <2>3, <2>4
<1>7. \/ detail' = detail /\ \A i \in items : i.kind # "detail"
      \/ \E i \in items : i.kind = "detail" /\ detail' = [view |-> i.view, until |-> now + DETAIL_TTL]
  <2> DEFINE of == {i \in items : i.kind = "detail"}
  <2>1. detail' = IF of = {} THEN detail
                  ELSE [view |-> (CHOOSE i \in of : TRUE).view, until |-> now + DETAIL_TTL]
    BY <1>3 DEF Arrive, DetailLife
  <2>2. CASE of = {}
    BY <2>1, <2>2
  <2>3. CASE of # {}
    <3>1. (CHOOSE i \in of : TRUE) \in of
      BY <2>3
    <3> QED BY <2>1, <2>3, <3>1
  <2> QED BY <2>2, <2>3
<1>8. \/ roster' = roster
      \/ \E i \in items : i.kind = "roster" /\ roster' = [view |-> i.view, until |-> now + ROSTER_TTL]
  <2> DEFINE of == {i \in items : i.kind = "roster"}
  <2>1. roster' = IF of = {} THEN roster
                  ELSE [view |-> (CHOOSE i \in of : TRUE).view, until |-> now + ROSTER_TTL]
    BY <1>3 DEF Arrive
  <2>2. CASE of = {}
    BY <2>1, <2>2
  <2>3. CASE of # {}
    <3>1. (CHOOSE i \in of : TRUE) \in of
      BY <2>3
    <3> QED BY <2>1, <2>3, <3>1
  <2> QED BY <2>2, <2>3
<1>9. \A u \in USERS :
         \/ travels'[u] \in {travels[u], NoView}
         \/ \E i \in items : /\ i.user = u /\ i.kind = "travels"
                             /\ travels'[u] = [view |-> i.view, until |-> now + LIST_TTL]
  <2> SUFFICES ASSUME NEW u \in USERS
               PROVE  \/ travels'[u] \in {travels[u], NoView}
                      \/ \E i \in items : /\ i.user = u /\ i.kind = "travels"
                                          /\ travels'[u] = [view |-> i.view, until |-> now + LIST_TTL]
    OBVIOUS
  <2> DEFINE of == {i \in items : i.kind = "travels"}
  <2>1. \/ travels'[u] \in {travels[u], NoView}
        \/ /\ \E i \in of : i.user = u
           /\ travels'[u] = [view |-> (CHOOSE i \in of : i.user = u).view, until |-> now + LIST_TTL]
    BY <1>3 DEF Arrive
  <2>2. ASSUME \E i \in of : i.user = u
        PROVE  (CHOOSE i \in of : i.user = u) \in of /\ (CHOOSE i \in of : i.user = u).user = u
    BY <2>2
  <2> QED BY <2>1, <2>2
<1>10. /\ DOMAIN shared' = USERS /\ shared' = [u \in USERS |-> shared'[u]]
       /\ travels' = [u \in USERS |-> travels'[u]]
  BY DEF Arrive
<1>11. /\ late' \in [PROCESSES -> Seq(Batch)]
       /\ \A q \in PROCESSES \ {p} : late'[q] = late[q]
       /\ late'[p] = Tail(late[p])
  BY <1>1, <1>2 DEF MemberTypes
<1>12. /\ Len(late[p]) \in Nat \ {0} /\ DOMAIN late[p] = 1 .. Len(late[p])
       /\ \A k \in DOMAIN late'[p] : k + 1 \in DOMAIN late[p] /\ late'[p][k] = late[p][k + 1] /\ k \in Nat
  BY <1>1, <1>2, <1>11
<1>13. Types'
  <2>1. ViewTypes'
    <3>0. /\ now + DETAIL_TTL \in Int /\ now + ROSTER_TTL \in Int /\ now + LIST_TTL \in Int
          /\ \A i \in items : i.kind \in {"detail", "travels"} => i.view \in Views
          /\ \A i \in items : i.kind = "roster" => i.view \in Roster
      BY <1>4, SentViews
    <3>1. detail' \in [view : Views, until : Int]
      BY <1>1, <1>7, <3>0 DEF ViewTypes
    <3>2. roster' \in [view : Views \cup Roster, until : Int]
      BY <1>1, <1>8, <3>0 DEF ViewTypes
    <3>3. now' <= roster'.until => roster'.view \in Roster
      BY <1>1, <1>8, <3>0 DEF ViewTypes
    <3>4. travels' \in [USERS -> [view : Views, until : Int]]
      <4>1. \A u \in USERS : travels'[u] \in [view : Views, until : Int]
        <5>1. \A u \in USERS : travels[u] \in [view : Views, until : Int]
          BY <1>1 DEF ViewTypes
        <5>2. \A i \in items : i.kind = "travels" =>
                 [view |-> i.view, until |-> now + LIST_TTL] \in [view : Views, until : Int]
          BY <3>0
        <5>3. NoView \in [view : Views, until : Int]
          BY Nones
        <5>4. ASSUME NEW u \in USERS PROVE travels'[u] \in [view : Views, until : Int]
          <6>1. CASE travels'[u] \in {travels[u], NoView}
            BY <5>1, <5>3, <6>1
          <6>2. ASSUME NEW i \in items, i.kind = "travels",
                       travels'[u] = [view |-> i.view, until |-> now + LIST_TTL]
                PROVE  travels'[u] \in [view : Views, until : Int]
            BY <5>2, <6>2
          <6> QED BY <1>9, <6>1, <6>2
        <5> QED BY <5>4
      <4> QED BY <1>10, <4>1
    <3> QED BY <3>1, <3>2, <3>3, <3>4 DEF ViewTypes
  <2>2. MemberTypes'
    <3>1. \A u \in USERS : shared'[u] \in Answer
      <4>1. now + MEMBER_TTL \in Int
        BY <1>4
      <4>2. \A i \in items : [yes |-> i.kind = "yes", until |-> now + MEMBER_TTL] \in Answer
        BY <4>1 DEF Answer
      <4>3. \A u \in USERS : shared[u] \in Answer
        BY <1>1 DEF MemberTypes
      <4> QED BY <1>6, <4>2, <4>3
    <3>2. shared' \in [USERS -> Answer]
      BY <1>10, <3>1
    <3> QED BY <1>1, <1>11, <3>2 DEF MemberTypes
  <2> QED BY <1>1, <2>1, <2>2 DEF Types, RequestTypes, HistoryTypes, TableTypes
<1>14. detail'.until \in Int /\ detail.until <= detail'.until
       /\ (detail' # detail => detail'.until = now + DETAIL_TTL)
  <2>1. detail.until <= now + DETAIL_TTL
    BY <1>1 DEF CachesOK, DetailOK
  <2>2. detail' = detail \/ detail'.until = now + DETAIL_TTL
    BY <1>7
  <2> QED BY <1>4, <2>1, <2>2
<1>15. ASSUME NEW s \in REQUESTS PROVE RequestOK(s)'
  <2>1. /\ RequestOK(s) /\ began[s] \in Nat
        /\ Kind(s)' = Kind(s) /\ Caller(s)' = Caller(s) /\ Active(s)' = Active(s)
        /\ MissedBefore(s)' = MissedBefore(s)
    BY <1>1 DEF RequestTypes, Kind, Caller, Active, MissedBefore
  <2>2. Paced(s)' /\ Looked(s)' /\ HitLately(s)' /\ ListRead(s)' /\ TableRead(s)'
    BY <1>1, <1>5, <2>1 DEF RequestOK, Paced, Looked, HitLately, ListRead, TableRead
  <2>3. at[s] \notin Ends \cup {"new"} => began[s] <= now
    BY <2>1 DEF RequestOK, Paced, Active
  <2>4. Missed(s)'
    <3>1. MissedBefore(s) => began[s] <= now
      BY <2>3 DEF MissedBefore, Before, Making, Ends
    <3>2. MissedBefore(s) => detail'.until < now \/ began[s] + DETAIL_TTL <= detail'.until
      <4>1. MissedBefore(s) => detail.until < now \/ began[s] + DETAIL_TTL <= detail.until
        BY <2>1 DEF RequestOK, Missed
      <4>2. CASE detail' = detail
        BY <4>1, <4>2
      <4>3. CASE detail' # detail
        BY <1>4, <1>14, <2>1, <3>1, <4>3
      <4> QED BY <4>2, <4>3
    <3> QED BY <1>1, <2>1, <3>2 DEF Missed
  <2>5. DetailRead(s)'
    <3>1. at[s] = "loaded" => began[s] <= now
      BY <2>3 DEF Ends
    <3>2. at[s] = "loaded" /\ began[s] + DETAIL_TTL <= detail.until => began[s] + DETAIL_TTL <= detail'.until
      BY <1>4, <1>14, <2>1
    <3> QED BY <1>1, <1>5, <2>1, <3>2 DEF RequestOK, DetailRead
  <2> QED BY <2>2, <2>4, <2>5 DEF RequestOK
<1>17. ASSUME NEW some \in SUBSET Items, NEW time \in Nat, SentOK(some, time) PROVE SentOK(some, time)'
  <2>1. ASSUME NEW i \in some
        PROVE  AnswerSent(i, time)' /\ ViewSent(i, time)' /\ RosterSent(i, some, time)'
    <3>1. AnswerSent(i, time) /\ ViewSent(i, time) /\ RosterSent(i, some, time)
      BY <1>17 DEF SentOK
    <3>2. time - LATENCY + DETAIL_TTL <= detail.until => time - LATENCY + DETAIL_TTL <= detail'.until
      BY <1>4, <1>14
    <3> QED BY <1>1, <1>5, <3>1, <3>2 DEF AnswerSent, ViewSent, RosterSent
  <2> QED BY <2>1 DEF SentOK
<1>18. ASSUME NEW q \in PROCESSES PROVE LateOK(q)'
  <2>1. LateOK(q) /\ late[q] \in Seq(Batch) /\ late'[q] \in Seq(Batch)
    BY <1>1, <1>11 DEF CachesOK, MemberTypes
  <2>2. ASSUME NEW b \in Batch, SentOK(b.items, b.sent)
        PROVE  SentOK(b.items, b.sent)'
    <3>1. PICK some \in SUBSET Items, time \in Nat : some = b.items /\ time = b.sent
      BY DEF Batch
    <3>2. SentOK(some, time)'
      BY <1>17, <2>2, <3>1
    <3> QED BY <3>1, <3>2
  <2>3. \A k \in DOMAIN late'[q] : \E l \in DOMAIN late[q] : late'[q][k] = late[q][l]
    BY <1>11, <1>12
  <2>4. ASSUME NEW k \in DOMAIN late'[q]
        PROVE  \E b \in Batch : late'[q][k] = b /\ b.sent <= now' /\ SentOK(b.items, b.sent)'
    <3>1. PICK l \in DOMAIN late[q] : late'[q][k] = late[q][l]
      BY <2>3
    <3>2. PICK b \in Batch : b = late[q][l]
      BY <2>1
    <3>3. b.sent <= now /\ SentOK(b.items, b.sent)
      BY <2>1, <3>2 DEF LateOK
    <3>4. SentOK(b.items, b.sent)'
      BY <2>2, <3>3
    <3> QED BY <1>1, <3>1, <3>2, <3>3, <3>4
  <2>5. \A k, l \in DOMAIN late'[q] : k <= l => late'[q][k].sent <= late'[q][l].sent
    <3>1. CASE q = p
      <4>1. \A k, l \in DOMAIN late'[p] :
               /\ k + 1 \in DOMAIN late[p] /\ l + 1 \in DOMAIN late[p]
               /\ late'[p][k] = late[p][k + 1] /\ late'[p][l] = late[p][l + 1]
               /\ k <= l => k + 1 <= l + 1
        BY <1>12
      <4>2. \A k, l \in DOMAIN late[p] : k <= l => late[p][k].sent <= late[p][l].sent
        BY <1>2 DEF LateOK
      <4> QED BY <3>1, <4>1, <4>2
    <3>2. CASE q # p
      BY <1>11, <2>1, <3>2 DEF LateOK
    <3> QED BY <3>1, <3>2
  <2>6. late'[q] # <<>> => now' <= Head(late'[q]).sent + LATENCY
    <3>1. CASE q # p
      BY <1>1, <1>11, <2>1, <3>1 DEF LateOK
    <3>2. CASE q = p /\ late'[q] # <<>>
      <4>1. 1 \in DOMAIN late'[p] /\ Head(late'[p]) = late'[p][1]
        BY <2>1, <3>2
      <4>2. 2 \in DOMAIN late[p] /\ late'[p][1] = late[p][2]
        BY <1>12, <4>1
      <4>3. late[p][1].sent <= late[p][2].sent
        BY <1>2, <4>2 DEF LateOK
      <4>4. late[p][2].sent \in Nat
        <5>1. late[p][2] \in Batch
          BY <1>2, <4>2
        <5> QED BY <5>1 DEF Batch
      <4>5. now <= late[p][2].sent + LATENCY
        <5>1. late[p][1].sent = sent
          BY <1>2, <1>3
        <5> QED BY <1>3, <1>4, <4>3, <4>4, <5>1
      <4> QED BY <1>4, <3>2, <4>1, <4>2, <4>5
    <3> QED BY <3>1, <3>2
  <2> QED BY <2>4, <2>5, <2>6 DEF LateOK
<1>19. ASSUME NEW i \in items
       PROVE  AnswerSent(i, sent) /\ ViewSent(i, sent) /\ RosterSent(i, items, sent)
  BY <1>3 DEF SentOK
<1>20. ASSUME NEW q \in PROCESSES, NEW u \in USERS PROVE MemoryOK(q, u)'
  BY <1>1, <1>5 DEF CachesOK, MemoryOK, Outlived
<1>21. ASSUME NEW u \in USERS PROVE SharedOK(u)'
  <2>1. CASE shared'[u] = shared[u]
    BY <1>1, <1>5, <2>1 DEF CachesOK, SharedOK, Outlived
  <2>2. ASSUME NEW i \in items, i.user = u, i.kind \in {"yes", "no"},
               shared'[u] = [yes |-> i.kind = "yes", until |-> now + MEMBER_TTL]
        PROVE  SharedOK(u)'
    <3>1. shared'[u].yes = (i.kind = "yes") /\ shared'[u].until = now + MEMBER_TTL
      BY <2>2
    <3>2. i.kind = "no" /\ u \in table.in => now + MEMBER_TTL <= since.part[u] + 2 * LATENCY + MEMBER_TTL
      <4>1. i.kind = "no" /\ u \in table.in => sent <= since.part[u] + LATENCY
        BY <1>19, <2>2 DEF AnswerSent
      <4> QED BY <1>3, <1>4, <4>1
    <3>3. i.kind = "yes" /\ There /\ u \notin table.in => Outlived(u, now + MEMBER_TTL)
      <4>1. i.kind = "yes" /\ There /\ u \notin table.in =>
               sent <= Cleared + 3 * LATENCY \/ sent <= admitted[u]
        BY <1>19, <2>2 DEF AnswerSent
      <4>2. sent <= Cleared + 3 * LATENCY => now + MEMBER_TTL <= since.travel + DEPARTED_AGE
        BY <1>3, <1>4
      <4>3. sent <= admitted[u] => now + MEMBER_TTL <= admitted[u] + LATENCY + YES_TTL
        BY <1>3, <1>4
      <4> QED BY <4>1, <4>2, <4>3 DEF Outlived
    <3>4. PICK t \in Int : t = now + MEMBER_TTL
      BY <1>4
    <3>5. (i.kind = "yes" /\ There /\ u \notin table.in => Outlived(u, t)) /\ Outlived(u, t)' = Outlived(u, t)
      BY <1>1, <3>3, <3>4 DEF Outlived
    <3>6. /\ shared'[u].until = t /\ t <= now' + MEMBER_TTL /\ shared'[u].yes = (i.kind = "yes")
          /\ i.kind = "no" /\ u \in table'.in => t <= since'.part[u] + 2 * LATENCY + MEMBER_TTL
      BY <1>1, <1>4, <3>1, <3>2, <3>4
    <3> QED BY <1>1, <1>5, <2>2, <3>5, <3>6 DEF SharedOK
  <2> QED BY <1>6, <2>1, <2>2
<1>22. ASSUME NEW u \in USERS PROVE ListOK(u)'
  <2>1. CASE travels'[u] = travels[u]
    BY <1>1, <1>5, <2>1 DEF CachesOK, ListOK
  <2>2. CASE travels'[u] = NoView
    BY <1>4, <2>2 DEF ListOK, NoView
  <2>3. ASSUME NEW i \in items, i.user = u, i.kind = "travels",
               travels'[u] = [view |-> i.view, until |-> now + LIST_TTL]
        PROVE  ListOK(u)'
    <3>1. i.view # Shows(u) => sent <= Told + LATENCY
      BY <1>19, <2>3 DEF ViewSent
    <3>2. i.view # Shows(u) => now + LIST_TTL <= Told + 2 * LATENCY + LIST_TTL
      BY <1>3, <1>4, <3>1
    <3> QED BY <1>4, <1>5, <2>3, <3>2 DEF ListOK
  <2> QED BY <1>9, <2>1, <2>2, <2>3
<1>23. DetailOK'
  <2>1. CASE detail' = detail
    BY <1>1, <1>5, <2>1 DEF CachesOK, DetailOK
  <2>2. ASSUME NEW i \in items, i.kind = "detail", detail' = [view |-> i.view, until |-> now + DETAIL_TTL]
        PROVE  DetailOK'
    <3>1. There => i.view.list.in # {} /\ (i.view # Right => sent <= Cleared + 3 * LATENCY)
      BY <1>19, <2>2 DEF ViewSent
    <3>2. There /\ i.view # Right => now + DETAIL_TTL <= Cleared + 4 * LATENCY + DETAIL_TTL
      BY <1>3, <1>4, <3>1
    <3> QED BY <1>4, <1>5, <2>2, <3>1, <3>2 DEF DetailOK
  <2> QED BY <1>7, <2>1, <2>2
<1>24. RosterOK'
  <2>1. CASE roster' = roster
    <3>1. roster.until <= detail.until => roster.until <= detail'.until
      BY <1>4, <1>14
    <3> QED BY <1>1, <1>5, <2>1, <3>1 DEF CachesOK, RosterOK
  <2>2. ASSUME NEW i \in items, i.kind = "roster", roster' = [view |-> i.view, until |-> now + ROSTER_TTL]
        PROVE  RosterOK'
    <3>1. There => /\ i.view.in # {}
                   /\ i.view # table =>
                        \/ sent <= since.travel + LATENCY
                        \/ (\E d \in items : d.kind = "detail") /\ sent <= Cleared + 3 * LATENCY
      BY <1>19, <2>2 DEF RosterSent
    <3>2. sent <= since.travel + LATENCY => now + ROSTER_TTL <= Cleared /\ now + ROSTER_TTL <= Told
      BY <1>3, <1>4
    <3>3. sent <= Cleared + 3 * LATENCY => now + ROSTER_TTL <= Told
      BY <1>3, <1>4
    <3>4. (\E d \in items : d.kind = "detail") => now + ROSTER_TTL <= detail'.until
      BY <1>4, <1>7
    <3> QED BY <1>1, <1>4, <1>5, <2>2, <3>1, <3>2, <3>3, <3>4 DEF RosterOK
  <2> QED BY <1>8, <2>1, <2>2
<1>25. LateMiss'
  <2>1. ASSUME There', NEW r \in REQUESTS, MissedBefore(r)', began'[r] > Made' PROVE Sound'
    <3>1. MissedBefore(r)' = MissedBefore(r)
      BY <1>1 DEF MissedBefore, Kind
    <3>2. Sound
      BY <1>1, <1>5, <2>1, <3>1 DEF LateMiss
    <3>3. \A i \in items : i.kind = "roster" => i.view = table
      BY <1>2, <1>3, <3>2 DEF Sound
    <3>4. now' <= roster'.until => roster'.view = table'
      BY <1>1, <1>8, <3>2, <3>3 DEF Sound
    <3>5. ASSUME NEW q \in PROCESSES, NEW k \in DOMAIN late'[q], NEW i \in late'[q][k].items,
                 i.kind = "roster"
          PROVE  i.view = table'
      <4>1. PICK l \in DOMAIN late[q] : late'[q][k] = late[q][l]
        BY <1>11, <1>12
      <4> QED BY <1>1, <3>2, <3>5, <4>1 DEF Sound
    <3>6. ASSUME NEW s \in REQUESTS, Kind(s)' = "detail", at'[s] = "loaded" PROVE got'[s].view.list = table'
      BY <1>1, <3>2, <3>6 DEF Sound, Kind
    <3> QED BY <3>4, <3>5, <3>6 DEF Sound
  <2> QED BY <2>1 DEF LateMiss
<1> QED BY <1>13, <1>15, <1>18, <1>20, <1>21, <1>22, <1>23, <1>24, <1>25 DEF CachesInv, CachesOK

\* Time passes, and what has expired goes: while a wrong list of the members is left, on its
\* way or in a new detail, its detail is still there.
LEMMA TickStep == ASSUME CachesInv, Tick PROVE CachesInv'
<1>1. /\ Types /\ RequestTypes /\ TableTypes /\ ViewTypes /\ MemberTypes /\ HistoryTypes
      /\ CachesOK /\ LateMiss /\ \A s \in REQUESTS : RequestOK(s)
      /\ now' = now + 1
      /\ UNCHANGED <<job, began, table, late, since, admitted>>
      /\ detail' = Alive(detail, NoView) /\ roster' = Alive(roster, NoView)
      /\ travels' = [u \in USERS |-> Alive(travels[u], NoView)]
      /\ memory' = [p \in PROCESSES |-> [u \in USERS |-> Alive(memory[p][u], NoAnswer)]]
      /\ shared' = [u \in USERS |-> Alive(shared[u], NoAnswer)]
      /\ at' = [r \in REQUESTS |-> IF at[r] \in Ends THEN "over" ELSE at[r]]
      /\ got' = [r \in REQUESTS |-> IF at[r] \in Ends THEN Nothing ELSE got[r]]
      /\ \A r \in REQUESTS : Active(r) => now - began[r] < LATENCY
      /\ \A p \in PROCESSES : late[p] # <<>> => now - Head(late[p]).sent < LATENCY
  BY DEF Types, CachesInv, Tick, history
<1>2. /\ now \in Nat /\ since.travel \in Int /\ since.travel <= now
      /\ \A u \in USERS : since.part[u] \in Int /\ admitted[u] \in Int
      /\ LATENCY \in Nat /\ ROSTER_TTL \in Nat /\ DETAIL_TTL \in Nat /\ LIST_TTL \in Nat
      /\ MEMORY_TTL \in Nat /\ MEMBER_TTL \in Nat /\ 2 * LATENCY <= DETAIL_TTL
      /\ Cleared \in Int /\ Cleared = since.travel + 2 * LATENCY + ROSTER_TTL
      /\ detail.until \in Int /\ roster.until \in Int
      /\ NoView.until = -1 /\ NoAnswer.until = -1
  BY <1>1, Times, Constants DEF ViewTypes, NoView, NoAnswer
<1>3. /\ Cleared' = Cleared /\ Made' = Made /\ Told' = Told
      /\ There' = There /\ Right' = Right /\ \A u : Shows(u)' = Shows(u)
  BY <1>1 DEF Cleared, Made, Told, There, Right, Shows, View
<1>4. \A entry, none : \/ Alive(entry, none) = entry /\ ~(entry.until < now + 1)
                       \/ Alive(entry, none) = none /\ entry.until < now + 1
  BY DEF Alive
<1>5. /\ detail' = detail \/ (detail' = NoView /\ detail.until <= now)
      /\ (roster' = roster /\ now + 1 <= roster.until) \/ roster' = NoView
      /\ detail'.until \in Int
  BY <1>1, <1>2, <1>4
<1>6. /\ at' \in [REQUESTS -> Places] /\ got' \in [REQUESTS -> Carried]
      /\ \A s \in REQUESTS : (at[s] \in Ends /\ at'[s] = "over")
                             \/ (at[s] \notin Ends /\ at'[s] = at[s] /\ got'[s] = got[s])
  <2>1. Nothing \in Carried /\ "over" \in Places
    BY ViewTypesOK DEF Nothing, Carried, Places, Ends
  <2> QED BY <1>1, <2>1 DEF RequestTypes
<1>7. Types'
  <2>1. ViewTypes'
    <3>1. detail' \in [view : Views, until : Int] /\ roster' \in [view : Views \cup Roster, until : Int]
      BY <1>1, <1>5, Nones DEF ViewTypes
    <3>2. now' <= roster'.until => roster'.view \in Roster
      BY <1>1, <1>2, <1>5 DEF ViewTypes
    <3>3. \A u \in USERS : Alive(travels[u], NoView) \in [view : Views, until : Int]
      BY <1>1, Nones DEF ViewTypes, Alive
    <3>4. travels' \in [USERS -> [view : Views, until : Int]]
      BY <1>1, <3>3
    <3> QED BY <3>1, <3>2, <3>4 DEF ViewTypes
  <2>2. MemberTypes'
    <3>1. \A u \in USERS : /\ Alive(shared[u], NoAnswer) \in Answer
                           /\ \A p \in PROCESSES : Alive(memory[p][u], NoAnswer) \in Answer
      BY <1>1, Nones DEF MemberTypes, Alive
    <3>2. shared' \in [USERS -> Answer] /\ memory' \in [PROCESSES -> [USERS -> Answer]]
      BY <1>1, <3>1
    <3> QED BY <1>1, <3>2 DEF MemberTypes
  <2>3. HistoryTypes'
    BY <1>1, <1>2 DEF HistoryTypes
  <2> QED BY <1>1, <1>6, <2>1, <2>2, <2>3 DEF Types, RequestTypes, TableTypes
<1>8. ASSUME NEW s \in REQUESTS PROVE RequestOK(s)'
  <2>1. CASE at[s] \in Ends
    <3>1. at'[s] \in Ends
      BY <1>6, <2>1 DEF Ends
    <3> QED BY <3>1, Ended
  <2>2. CASE at[s] \notin Ends
    <3>1. /\ at'[s] = at[s] /\ got'[s] = got[s] /\ began'[s] = began[s] /\ RequestOK(s)
          /\ began[s] \in Nat
          /\ Kind(s)' = Kind(s) /\ Caller(s)' = Caller(s) /\ Active(s)' = Active(s)
          /\ MissedBefore(s)' = MissedBefore(s)
      BY <1>1, <1>6, <2>2 DEF RequestTypes, Kind, Caller, Active, MissedBefore
    <3>2. Active(s) => began[s] <= now' /\ now' <= began[s] + LATENCY
      <4>1. Active(s) => began[s] <= now /\ now - began[s] < LATENCY
        BY <1>1, <3>1 DEF RequestOK, Paced
      <4> QED BY <1>1, <1>2, <3>1, <4>1
    <3>3. Paced(s)' /\ Looked(s)' /\ HitLately(s)' /\ ListRead(s)' /\ TableRead(s)'
      BY <1>1, <1>3, <3>1, <3>2 DEF RequestOK, Paced, Looked, HitLately, ListRead, TableRead
    <3>4. Missed(s)'
      <4>1. MissedBefore(s) => detail'.until < now + 1 \/ began[s] + DETAIL_TTL <= detail'.until
        <5>1. MissedBefore(s) => detail.until < now \/ began[s] + DETAIL_TTL <= detail.until
          BY <3>1 DEF RequestOK, Missed
        <5>2. CASE detail' = detail
          BY <1>2, <5>1, <5>2
        <5>3. CASE detail' = NoView
          BY <1>2, <5>3
        <5> QED BY <1>5, <5>2, <5>3
      <4> QED BY <1>1, <3>1, <4>1 DEF Missed
    <3>5. DetailRead(s)'
      <4>1. at[s] = "loaded" /\ began[s] + DETAIL_TTL <= detail.until => detail' = detail
        <5>1. at[s] = "loaded" => now + 1 <= began[s] + LATENCY
          BY <1>1, <3>2 DEF Active, Ends
        <5> QED BY <1>2, <1>5, <3>1, <5>1
      <4> QED BY <1>1, <1>3, <3>1, <4>1 DEF RequestOK, DetailRead
    <3> QED BY <3>3, <3>4, <3>5 DEF RequestOK
  <2> QED BY <2>1, <2>2
<1>9. ASSUME NEW p \in PROCESSES PROVE LateOK(p)'
  <2>1. LateOK(p) /\ late' = late /\ late[p] \in Seq(Batch)
    BY <1>1 DEF CachesOK, MemberTypes
  <2>2. late[p] # <<>> => Head(late[p]).sent \in Nat /\ Head(late[p]) = late[p][1] /\ 1 \in DOMAIN late[p]
    <3>1. late[p] # <<>> => Head(late[p]) \in Batch /\ Head(late[p]) = late[p][1] /\ 1 \in DOMAIN late[p]
      BY <2>1
    <3> QED BY <3>1 DEF Batch
  <2>3. late[p] # <<>> => now + 1 <= Head(late[p]).sent + LATENCY
    <3>1. late[p] # <<>> => now - Head(late[p]).sent < LATENCY
      BY <1>1
    <3> QED BY <1>2, <2>2, <3>1
  <2>4. ASSUME NEW k \in DOMAIN late[p]
        PROVE  \E b \in Batch : late[p][k] = b /\ b.sent <= now + 1 /\ SentOK(b.items, b.sent)'
    <3>1. PICK items \in SUBSET Items, sent \in Nat :
             /\ late[p][k] \in Batch /\ late[p][k].items = items /\ late[p][k].sent = sent
      <4>1. late[p][k] \in Batch
        BY <2>1
      <4> QED BY <4>1 DEF Batch
    <3>2. sent <= now /\ SentOK(items, sent) /\ now + 1 <= sent + LATENCY
      <4>1. sent <= now /\ SentOK(items, sent)
        BY <2>1, <3>1 DEF LateOK
      <4>2. late[p] # <<>> /\ 1 <= k
        BY <2>1
      <4>3. late[p][1].sent <= sent
        BY <2>1, <2>2, <3>1, <4>2 DEF LateOK
      <4> QED BY <1>2, <2>2, <2>3, <4>1, <4>2, <4>3
    <3>3. sent - LATENCY + DETAIL_TTL <= detail.until => detail' = detail
      BY <1>2, <1>5, <3>2
    <3>4. ASSUME NEW i \in items
          PROVE  AnswerSent(i, sent)' /\ ViewSent(i, sent)' /\ RosterSent(i, items, sent)'
      <4>1. AnswerSent(i, sent) /\ ViewSent(i, sent) /\ RosterSent(i, items, sent)
        BY <3>2 DEF SentOK
      <4> QED BY <1>1, <1>3, <3>3, <4>1 DEF AnswerSent, ViewSent, RosterSent
    <3>5. SentOK(items, sent)' /\ sent <= now + 1
      BY <1>2, <3>2, <3>4 DEF SentOK
    <3>6. PICK b \in Batch : b = late[p][k]
      BY <3>1
    <3> QED BY <3>1, <3>5, <3>6
  <2>5. ASSUME NEW k \in DOMAIN late'[p]
        PROVE  late'[p][k].sent <= now' /\ SentOK(late[p][k].items, late[p][k].sent)'
    BY <1>1, <2>1, <2>4
  <2> QED BY <1>1, <2>1, <2>3, <2>5 DEF LateOK
<1>10. ASSUME NEW p \in PROCESSES, NEW u \in USERS PROVE MemoryOK(p, u)'
  <2>1. MemoryOK(p, u) /\ memory[p][u].until \in Int /\ memory'[p][u] = Alive(memory[p][u], NoAnswer)
    BY <1>1 DEF CachesOK, MemberTypes, Answer
  <2>2. CASE memory'[p][u] = memory[p][u] /\ now <= memory[p][u].until
    BY <1>1, <1>2, <1>3, <2>1, <2>2 DEF MemoryOK, Outlived
  <2>3. CASE memory'[p][u] = NoAnswer
    BY <1>1, <1>2, <2>3 DEF MemoryOK
  <2> QED BY <1>2, <1>4, <2>1, <2>2, <2>3
<1>11. ASSUME NEW u \in USERS PROVE SharedOK(u)'
  <2>1. SharedOK(u) /\ shared[u].until \in Int /\ shared'[u] = Alive(shared[u], NoAnswer)
    BY <1>1 DEF CachesOK, MemberTypes, Answer
  <2>2. CASE shared'[u] = shared[u] /\ now <= shared[u].until
    BY <1>1, <1>2, <1>3, <2>1, <2>2 DEF SharedOK, Outlived
  <2>3. CASE shared'[u] = NoAnswer
    BY <1>1, <1>2, <2>3 DEF SharedOK
  <2> QED BY <1>2, <1>4, <2>1, <2>2, <2>3
<1>12. ASSUME NEW u \in USERS PROVE ListOK(u)'
  <2>1. ListOK(u) /\ travels[u].until \in Int /\ travels'[u] = Alive(travels[u], NoView)
    BY <1>1 DEF CachesOK, ViewTypes
  <2>2. CASE travels'[u] = travels[u] /\ now <= travels[u].until
    BY <1>1, <1>2, <1>3, <2>1, <2>2 DEF ListOK
  <2>3. CASE travels'[u] = NoView
    BY <1>1, <1>2, <2>3 DEF ListOK
  <2> QED BY <1>2, <1>4, <2>1, <2>2, <2>3
<1>13. DetailOK'
  <2>1. CASE detail' = detail /\ now <= detail.until
    BY <1>1, <1>2, <1>3, <2>1 DEF CachesOK, DetailOK
  <2>2. CASE detail' = NoView
    BY <1>1, <1>2, <2>2 DEF DetailOK
  <2> QED BY <1>1, <1>2, <1>4, <2>1, <2>2
<1>14. RosterOK'
  <2>1. CASE roster' = NoView
    BY <1>1, <1>2, <2>1 DEF RosterOK
  <2>2. CASE roster' = roster /\ now + 1 <= roster.until
    <3>1. RosterOK /\ now <= roster.until
      BY <1>1, <1>2, <2>2 DEF CachesOK
    <3>2. roster.until <= detail.until => detail' = detail
      BY <1>2, <1>5, <2>2
    <3> QED BY <1>1, <1>2, <1>3, <2>2, <3>1, <3>2 DEF RosterOK
  <2> QED BY <1>5, <2>1, <2>2
<1>15. LateMiss'
  <2>1. ASSUME There', NEW r \in REQUESTS, MissedBefore(r)', began'[r] > Made' PROVE Sound'
    <3>1. at[r] \notin Ends /\ MissedBefore(r)
      BY <1>1, <1>6, <2>1 DEF MissedBefore, Kind, Before, Making, Ends
    <3>2. Sound
      BY <1>1, <1>3, <2>1, <3>1 DEF LateMiss
    <3>3. now' <= roster'.until => roster'.view = table'
      <4>1. now' <= roster'.until => roster' = roster /\ now <= roster.until
        BY <1>1, <1>2, <1>5
      <4> QED BY <1>1, <3>2, <4>1 DEF Sound
    <3>4. ASSUME NEW s \in REQUESTS, Kind(s)' = "detail", at'[s] = "loaded" PROVE got'[s].view.list = table'
      BY <1>1, <1>6, <3>2, <3>4 DEF Sound, Kind
    <3> QED BY <1>1, <3>2, <3>3, <3>4 DEF Sound
  <2> QED BY <2>1 DEF LateMiss
<1> QED BY <1>7, <1>8, <1>9, <1>10, <1>11, <1>12, <1>13, <1>14, <1>15 DEF CachesInv, CachesOK

\* Nothing happens to the invariant where nothing happens.
LEMMA CachesStutter == ASSUME CachesInv, UNCHANGED vars PROVE CachesInv'
<1>1. UNCHANGED <<now, job, at, began, got, table, detail, travels, roster, memory, shared, late,
                  since, admitted>>
  BY DEF vars, requests, caches, views, members, history
<1>2. /\ Cleared' = Cleared /\ Made' = Made /\ Told' = Told
      /\ There' = There /\ Right' = Right /\ \A u : Shows(u)' = Shows(u)
  BY <1>1, SameTimes
<1>3. Types'
  BY <1>1 DEF CachesInv, Types, RequestTypes, ViewTypes, MemberTypes, HistoryTypes, TableTypes
<1>4. ASSUME NEW s \in REQUESTS PROVE RequestOK(s)' /\ MissedBefore(s)' = MissedBefore(s)
  BY <1>1, <1>2 DEF CachesInv, RequestOK, Paced, Looked, HitLately, MissedBefore, Missed, DetailRead,
                    ListRead, TableRead, Kind, Caller, Active
<1>5. Sound' = Sound
  BY <1>1 DEF Sound, Kind
<1>6. LateMiss'
  BY <1>1, <1>2, <1>4, <1>5 DEF CachesInv, LateMiss
<1>7. \A items, sent : SentOK(items, sent)' = SentOK(items, sent)
  BY <1>1, <1>2 DEF SentOK, AnswerSent, ViewSent, RosterSent
<1>8. CachesOK'
  BY <1>1, <1>2, <1>7 DEF CachesInv, CachesOK, LateOK, MemoryOK, SharedOK, Outlived, ListOK, RosterOK,
                          DetailOK
<1> QED BY <1>3, <1>4, <1>6, <1>8 DEF CachesInv

\* The caches are empty at first.
LEMMA CachesInit == Init => CachesInv
<1> SUFFICES ASSUME Init PROVE CachesInv
  OBVIOUS
<1>1. /\ now = 0 /\ job \in [REQUESTS -> Job]
      /\ at = [r \in REQUESTS |-> "new"] /\ began = [r \in REQUESTS |-> 0]
      /\ got = [r \in REQUESTS |-> Nothing]
      /\ table = [in |-> MEMBERS, owner |-> FOUNDER]
      /\ detail = NoView /\ travels = [u \in USERS |-> NoView] /\ roster = NoView
      /\ memory = [p \in PROCESSES |-> [u \in USERS |-> NoAnswer]]
      /\ shared = [u \in USERS |-> NoAnswer] /\ late = [p \in PROCESSES |-> <<>>]
      /\ since = [travel |-> -HORIZON, part |-> [u \in USERS |-> -HORIZON]]
      /\ admitted = [u \in USERS |-> -HORIZON]
  BY TravelCachesAssumption DEF Init
<1>2. NoView.until = -1 /\ NoAnswer.until = -1 /\ -HORIZON \in Int /\ -HORIZON <= 0
  BY Constants DEF NoView, NoAnswer
<1>3. Types
  <2>1. RequestTypes
    BY <1>1, ViewTypesOK DEF RequestTypes, Nothing, Carried, Places
  <2>2. ViewTypes
    BY <1>1, <1>2, Nones DEF ViewTypes
  <2>3. MemberTypes
    BY <1>1, Nones DEF MemberTypes
  <2>4. HistoryTypes
    BY <1>1, <1>2 DEF HistoryTypes
  <2>5. TableTypes
    BY <1>1, TravelCachesAssumption DEF TableTypes, Roster
  <2> QED BY <2>1, <2>2, <2>3, <2>4, <2>5 DEF Types
<1>4. ASSUME NEW r \in REQUESTS PROVE RequestOK(r) /\ ~MissedBefore(r)
  <2>1. at[r] = "new"
    BY <1>1
  <2>2. ~MissedBefore(r)
    BY <2>1 DEF MissedBefore, Before, Making
  <2>3. Paced(r) /\ Looked(r) /\ HitLately(r) /\ DetailRead(r) /\ ListRead(r) /\ TableRead(r)
    BY <2>1 DEF Paced, Looked, HitLately, DetailRead, ListRead, TableRead, Active, Before, Making
  <2> QED BY <2>2, <2>3 DEF RequestOK, Missed
<1>5. LateMiss
  BY <1>4 DEF LateMiss
<1>6. CachesOK
  <2>1. \A p \in PROCESSES : LateOK(p) /\ \A u \in USERS : MemoryOK(p, u)
    BY <1>1, <1>2, Constants DEF LateOK, MemoryOK
  <2>2. \A u \in USERS : SharedOK(u) /\ ListOK(u)
    BY <1>1, <1>2, Constants DEF SharedOK, ListOK
  <2>3. RosterOK /\ DetailOK
    BY <1>1, <1>2, Constants DEF RosterOK, DetailOK
  <2> QED BY <2>1, <2>2, <2>3 DEF CachesOK
<1> QED BY <1>3, <1>4, <1>5, <1>6 DEF CachesInv

\* Of the steps of requests, only a change that is allowed changes the tables.
LEMMA RequestSteps ==
    ASSUME CachesInv, NEW r \in REQUESTS,
           \/ AskMember(r) \/ SelectMember(r) \/ RememberMember(r)
           \/ ReadSummary(r) \/ LoadMembers(r) \/ SelectRoster(r)
           \/ ReadDetail(r) \/ FillDetail(r) \/ ShowDetail(r)
           \/ ReadList(r) \/ SelectTravels(r) \/ ShowList(r)
           \/ FindInvite(r) \/ Change(r)
           \/ DropDetail(r) \/ DropMembersLists(r) \/ ClearMembers(r) \/ ReplaceDetail(r)
    PROVE  RequestStep(r) \/ (Change(r) /\ Allowed(r))
<1>1. Change(r) /\ ~Allowed(r) => RequestStep(r)
  BY RefusedStep DEF Change
<1> QED BY <1>1, AskMemberStep, SelectMemberStep, RememberMemberStep, ReadSummaryStep, LoadMembersStep,
           SelectRosterStep, ReadDetailStep, FillDetailStep, ShowDetailStep, ReadListStep,
           SelectTravelsStep, ShowListStep, FindInviteStep, DropDetailStep, DropMembersListsStep,
           ClearMembersStep, ReplaceDetailStep

\* CachesInv is inductive.
LEMMA CachesNext == CachesInv /\ [Next]_vars => CachesInv'
<1> SUFFICES ASSUME CachesInv, [Next]_vars PROVE CachesInv'
  OBVIOUS
<1>1. CASE Tick
  BY <1>1, TickStep
<1>2. CASE \E p \in PROCESSES : Arrive(p)
  BY <1>2, ArriveStep
<1>3. ASSUME NEW r \in REQUESTS,
             \/ AskMember(r) \/ SelectMember(r) \/ RememberMember(r)
             \/ ReadSummary(r) \/ LoadMembers(r) \/ SelectRoster(r)
             \/ ReadDetail(r) \/ FillDetail(r) \/ ShowDetail(r)
             \/ ReadList(r) \/ SelectTravels(r) \/ ShowList(r)
             \/ FindInvite(r) \/ Change(r)
             \/ DropDetail(r) \/ DropMembersLists(r) \/ ClearMembers(r) \/ ReplaceDetail(r)
      PROVE  CachesInv'
  BY <1>3, RequestSteps, RequestKeeps, ChangeStep
<1>4. CASE UNCHANGED vars
  BY <1>4, CachesStutter
<1> QED BY <1>1, <1>2, <1>3, <1>4 DEF Next

\* Whatever is cached, written late or read, a wrong view or answer is of a time that the last
\* change bounds (every read and write of the caches in TravelService).
THEOREM CachesBounded == Spec => []CachesInv
<1> QED BY CachesInit, CachesNext, PTL DEF Spec

-----------------------------------------------------------------------------
(* How requests end. *)

OwnStep(r) ==
    \/ AskMember(r) \/ SelectMember(r) \/ RememberMember(r)
    \/ ReadSummary(r) \/ LoadMembers(r) \/ SelectRoster(r)
    \/ ReadDetail(r) \/ FillDetail(r) \/ ShowDetail(r)
    \/ ReadList(r) \/ SelectTravels(r) \/ ShowList(r)
    \/ FindInvite(r) \/ Change(r)
    \/ DropDetail(r) \/ DropMembersLists(r) \/ ClearMembers(r) \/ ReplaceDetail(r)

\* Where a request stands after a step, and what it carries.
LEMMA Lands ==
    ASSUME CachesInv, NEW r \in REQUESTS
    PROVE  /\ \A place : Goto(r, place) => at'[r] = place /\ now' = now
           /\ \A place : Go(r, place) => at'[r] = place /\ got'[r] = got[r]
           /\ \A place, view, hit : Bring(r, place, view, hit) => at'[r] = place /\ got'[r].view = view
<1>1. at \in [REQUESTS -> Places] /\ got \in [REQUESTS -> Carried]
  BY DEF CachesInv, Types, RequestTypes
<1> QED BY <1>1 DEF Goto, Go, Bring

\* It is by a step of its own that a request ends.
LEMMA EndsItself ==
    ASSUME CachesInv, Next, NEW r \in REQUESTS, at'[r] # at[r], at'[r] \in {"shown", "refused"}
    PROVE  OwnStep(r)
<1>1. at \in [REQUESTS -> Places] /\ "over" \notin {"shown", "refused"}
  BY DEF CachesInv, Types, RequestTypes
<1>2. CASE Tick
  BY <1>1, <1>2 DEF Tick
<1>3. ASSUME NEW p \in PROCESSES, Arrive(p) PROVE FALSE
  BY <1>3 DEF Arrive, requests
<1>4. ASSUME NEW s \in REQUESTS, OwnStep(s), s # r PROVE FALSE
  <2>1. RequestStep(s) \/ (Change(s) /\ Allowed(s))
    BY <1>4, RequestSteps DEF OwnStep
  <2>2. CASE RequestStep(s)
    BY <1>4, <2>2 DEF RequestStep, Steady
  <2>3. CASE Change(s) /\ Allowed(s)
    <3>1. \E place : at' = [at EXCEPT ![s] = place]
      BY <2>3 DEF Change, Bring, Goto
    <3> QED BY <1>1, <1>4, <3>1
  <2> QED BY <2>1, <2>2, <2>3
<1> QED BY <1>2, <1>3, <1>4 DEF Next, OwnStep

\* The steps that show something, and those that turn away who asks for the detail.
LEMMA WhichEnds ==
    ASSUME CachesInv, NEW r \in REQUESTS, OwnStep(r)
    PROVE  /\ at'[r] = "shown" => \/ AskMember(r) \/ RememberMember(r) \/ ReadDetail(r)
                                  \/ ShowDetail(r) \/ ReadList(r) \/ ShowList(r)
           /\ at'[r] = "refused" /\ Kind(r) = "detail" => \/ AskMember(r) \/ RememberMember(r)
                                                          \/ ReadSummary(r)
<1> USE Lands
<1>1. SelectMember(r) \/ SelectRoster(r) => at'[r] \in {"selected", "loaded"}
  BY DEF SelectMember, SelectRoster
<1>2. FillDetail(r) \/ ReplaceDetail(r) \/ DropDetail(r) => at'[r] \in {"asking", "listing", "clearing"}
  BY DEF FillDetail, ReplaceDetail, DropDetail
<1>3. ReadSummary(r) \/ LoadMembers(r) => at'[r] \in {"loading", "refused", "loaded", "rostering"}
                                          /\ (LoadMembers(r) => at'[r] # "refused")
  <2>1. ReadSummary(r) => \E place \in {"loading", "refused"} : \E view, hit : Bring(r, place, view, hit)
    BY DEF ReadSummary
  <2>2. LoadMembers(r) => (\E view, hit : Bring(r, "loaded", view, hit)) \/ Go(r, "rostering")
    BY DEF LoadMembers
  <2> QED BY <2>1, <2>2
<1>4. SelectTravels(r) \/ DropMembersLists(r) \/ ClearMembers(r) =>
         at'[r] \in {"loading", "loaded", "done", "clearing", "summary"}
  BY DEF SelectTravels, DropMembersLists, ClearMembers
<1>5. FindInvite(r) => at'[r] \in {"asking", "refused"} /\ Kind(r) = "join"
  BY DEF FindInvite
<1>6. Change(r) => at'[r] \in {"refused", "clearing", "dropping"} /\ Kind(r) # "detail"
  <2>1. at[r] = "joining" => Kind(r) = "join"
    BY DEF CachesInv, RequestOK, Paced
  <2> QED BY <2>1 DEF Change
<1>7. ReadDetail(r) => at'[r] # "refused"
  BY DEF ReadDetail
<1>8. ReadList(r) \/ ShowList(r) => Kind(r) = "list"
  BY DEF ReadList, ShowList
<1>9. ShowDetail(r) => at'[r] # "refused"
  <2>1. ShowDetail(r) => Bring(r, "done", Absent, FALSE) \/ Go(r, "shown")
    BY DEF ShowDetail
  <2>2. (Go(r, "shown") => at'[r] = "shown") /\ (Bring(r, "done", Absent, FALSE) => at'[r] = "done")
    OBVIOUS
  <2> QED BY <2>1, <2>2
<1> QED BY <1>1, <1>2, <1>3, <1>4, <1>5, <1>6, <1>7, <1>8, <1>9 DEF OwnStep

\* What is decided of a caller.
LEMMA Decided ==
    ASSUME CachesInv, NEW r \in REQUESTS, NEW yes, NEW mem, NEW items, Decide(r, yes, mem, items),
           at[r] \in {"asking", "selected"}
    PROVE  /\ Kind(r) \in {"detail", "join"}
           /\ at'[r] = "shown" => yes /\ Kind(r) = "detail" /\ got[r].hit /\ got'[r] = got[r]
           /\ at'[r] = "refused" /\ Kind(r) = "detail" => ~yes
           /\ admitted' = IF yes THEN [admitted EXCEPT ![Caller(r)] = now] ELSE admitted
<1>1. Kind(r) \in {"detail", "join"}
  BY DEF CachesInv, RequestOK, Paced, Before
<1>2. /\ IF Kind(r) = "join"
         THEN IF yes THEN Bring(r, "refused", Absent, FALSE) ELSE Go(r, "joining")
         ELSE IF ~yes THEN Bring(r, "refused", Absent, FALSE)
         ELSE IF got[r].hit THEN Go(r, "shown") ELSE Go(r, "summary")
      /\ admitted' = IF yes THEN [admitted EXCEPT ![Caller(r)] = now] ELSE admitted
  BY DEF Decide
<1>3. /\ \A place : Go(r, place) => at'[r] = place /\ got'[r] = got[r]
      /\ \A place, view, hit : Bring(r, place, view, hit) => at'[r] = place
  BY Lands
<1>4. CASE Bring(r, "refused", Absent, FALSE)
  BY <1>1, <1>2, <1>3, <1>4
<1>5. CASE Go(r, "joining") \/ Go(r, "summary")
  BY <1>1, <1>2, <1>3, <1>5
<1>6. CASE Kind(r) # "join" /\ yes /\ got[r].hit /\ Go(r, "shown")
  BY <1>1, <1>2, <1>3, <1>6
<1> QED BY <1>2, <1>4, <1>5, <1>6

\* The answer that decides, and how good it is.
LEMMA Answered ==
    ASSUME CachesInv, NEW r \in REQUESTS, AskMember(r) \/ RememberMember(r),
           at'[r] \in {"shown", "refused"} \/ admitted' # admitted
    PROVE  \E yes, mem, items :
              /\ Decide(r, yes, mem, items) /\ at[r] \in {"asking", "selected"}
              /\ ~yes /\ Caller(r) \in table.in =>
                    now <= since.part[Caller(r)] + 2 * LATENCY + MEMBER_TTL + MEMORY_TTL
              /\ yes /\ There /\ Caller(r) \notin table.in => Outlived(Caller(r), now)
<1> DEFINE u == Caller(r)
           Good(yes) == /\ ~yes /\ u \in table.in =>
                              now <= since.part[u] + 2 * LATENCY + MEMBER_TTL + MEMORY_TTL
                        /\ yes /\ There /\ u \notin table.in => Outlived(u, now)
<1>1. /\ RequestOK(r) /\ u \in USERS /\ Here(r) \in PROCESSES /\ began[r] \in Nat
      /\ MemoryOK(Here(r), u) /\ SharedOK(u)
      /\ memory[Here(r)][u].until \in Int /\ shared[u].until \in Int
  <2>1. /\ RequestOK(r) /\ u \in USERS /\ Here(r) \in PROCESSES /\ began[r] \in Nat
    BY Known
  <2> QED BY <2>1 DEF CachesInv, CachesOK, Types, MemberTypes, Answer
<1>2. /\ now \in Nat /\ since.part[u] \in Int /\ since.travel \in Int /\ admitted[u] \in Int
      /\ LATENCY \in Nat /\ MEMBER_TTL \in Nat /\ MEMORY_TTL \in Nat /\ YES_TTL \in Nat
      /\ DEPARTED_AGE \in Nat /\ ROSTER_TTL \in Nat
      /\ 6 * LATENCY + ROSTER_TTL + YES_TTL <= DEPARTED_AGE
  BY <1>1, Times, Constants DEF CachesInv, Types
<1>3. \A until \in Int : now <= until /\ Outlived(u, until) => Outlived(u, now)
  BY <1>2 DEF Outlived
<1>4. CASE RememberMember(r)
  <2>1. at[r] = "selected" /\ \E mem, items : Decide(r, got[r].yes, mem, items)
    BY <1>4 DEF RememberMember
  <2>2. now <= began[r] + LATENCY
    BY <1>1, <2>1 DEF RequestOK, Paced, Active, Ends
  <2>3. ~got[r].yes /\ u \in table.in => now <= since.part[u] + 2 * LATENCY + MEMBER_TTL + MEMORY_TTL
    <3>1. ~got[r].yes /\ u \in table.in => began[r] <= since.part[u]
      BY <1>1, <2>1 DEF RequestOK, Looked
    <3> QED BY <1>1, <1>2, <2>2, <3>1
  <2>4. got[r].yes /\ u \notin table.in => Outlived(u, now)
    <3>1. got[r].yes /\ u \notin table.in => began[r] <= since.travel
      BY <1>1, <2>1 DEF RequestOK, Looked
    <3> QED BY <1>1, <1>2, <2>2, <3>1 DEF Outlived
  <2> QED BY <2>1, <2>3, <2>4
<1>5. CASE AskMember(r)
  <2>1. at[r] = "asking"
    BY <1>5 DEF AskMember
  <2>2. CASE Remembered(r, u) /\ Decide(r, memory[Here(r)][u].yes, memory, {})
    <3>1. Good(memory[Here(r)][u].yes)
      BY <1>1, <1>2, <1>3, <2>2 DEF Remembered, MemoryOK
    <3> QED BY <2>1, <2>2, <3>1
  <2>3. CASE now <= shared[u].until /\ \E mem, items : Decide(r, shared[u].yes, mem, items)
    <3>1. Good(shared[u].yes)
      BY <1>1, <1>2, <1>3, <2>3 DEF SharedOK
    <3> QED BY <2>1, <2>3, <3>1
  <2>4. CASE Go(r, "selecting") /\ UNCHANGED <<table, caches, since, admitted>>
    BY <2>4, Lands
  <2> QED BY <1>5, <2>2, <2>3, <2>4 DEF AskMember
<1> QED BY <1>4, <1>5

\* The ages of what is shown, in full.
LEMMA Ages ==
    /\ DETAIL_AGE \in Nat /\ DETAIL_AGE = 7 * LATENCY + ROSTER_TTL + DETAIL_TTL
    /\ LIST_AGE \in Nat /\ LIST_AGE = 8 * LATENCY + 2 * ROSTER_TTL + LIST_TTL
BY Constants DEF DETAIL_AGE, LIST_AGE

\* A detail or a list of travels that is shown is the one of the tables, unless a change
\* was made lately.
LEMMA SoonTrue ==
    ASSUME CachesInv, Next, NEW r \in REQUESTS, Comes(r, "shown"),
           Kind(r) = "list" \/ Caller(r) \in table.in, got'[r].view # Truth(r)
    PROVE  now - since.travel <= IF Kind(r) = "list" THEN LIST_AGE ELSE DETAIL_AGE
<1> DEFINE u == Caller(r)
<1>1. /\ RequestOK(r) /\ u \in USERS /\ began[r] \in Nat /\ got[r] \in Carried
      /\ Types /\ TableTypes /\ HistoryTypes /\ ViewTypes /\ CachesOK
  BY Known DEF Types
<1>2. /\ now \in Nat /\ since.travel \in Int /\ detail.until \in Int
      /\ LATENCY \in Nat /\ ROSTER_TTL \in Nat /\ DETAIL_TTL \in Nat /\ LIST_TTL \in Nat
      /\ Cleared \in Int /\ Cleared = since.travel + 2 * LATENCY + ROSTER_TTL
      /\ Made \in Int /\ Made = Cleared + 2 * LATENCY
      /\ Told \in Int /\ Told = Cleared + 4 * LATENCY + ROSTER_TTL
      /\ travels[u].until \in Int
  BY <1>1, Times, Constants DEF ViewTypes
<1>3. Truth(r) = Shows(u) /\ (u \in table.in => There /\ Shows(u) = Right)
  BY <1>1, ThereIsOwner DEF Truth, Shows, Right
<1>4. at'[r] = "shown" /\ at[r] # "shown"
  BY DEF Comes
<1>5. \/ AskMember(r) \/ RememberMember(r) \/ ReadDetail(r) \/ ShowDetail(r) \/ ReadList(r) \/ ShowList(r)
  BY <1>4, EndsItself, WhichEnds
<1>6. at[r] \notin Ends \cup {"new"} => now <= began[r] + LATENCY
  BY <1>1 DEF RequestOK, Paced, Active
<1>7. ASSUME Kind(r) # "list", now <= Cleared + 5 * LATENCY + DETAIL_TTL
      PROVE  now - since.travel <= IF Kind(r) = "list" THEN LIST_AGE ELSE DETAIL_AGE
  BY <1>2, <1>7, Ages
<1>8. ASSUME Kind(r) = "list", now <= Told + 2 * LATENCY + LIST_TTL
      PROVE  now - since.travel <= IF Kind(r) = "list" THEN LIST_AGE ELSE DETAIL_AGE
  BY <1>2, <1>8, Ages
<1>9. CASE AskMember(r) \/ RememberMember(r)
  <2>1. Kind(r) = "detail" /\ got[r].hit /\ got'[r] = got[r] /\ at[r] \in {"asking", "selected"}
    BY <1>4, <1>9, Answered, Decided
  <2>2. began[r] <= Cleared + 4 * LATENCY + DETAIL_TTL
    BY <1>1, <1>3, <2>1 DEF RequestOK, HitLately, Before
  <2> QED BY <1>1, <1>2, <1>6, <1>7, <2>1, <2>2 DEF Ends
<1>10. CASE ReadDetail(r)
  <2>1. Kind(r) = "detail" /\ now <= detail.until /\ got'[r].view = detail.view
    BY <1>4, <1>10, Lands DEF ReadDetail
  <2>2. detail.until <= Cleared + 4 * LATENCY + DETAIL_TTL
    BY <1>1, <1>3, <2>1 DEF CachesOK, DetailOK
  <2> QED BY <1>2, <1>7, <2>1, <2>2
<1>11. CASE ShowDetail(r)
  <2>1. Kind(r) = "detail" /\ at[r] = "loaded" /\ got'[r] = got[r]
    BY <1>4, <1>11, Lands DEF ShowDetail, Loaded
  <2>2. got[r].view.list # table \/ got[r].view.host # table.owner
    <3>1. got[r].view \in Views
      BY <1>1 DEF Carried
    <3> QED BY <1>3, <2>1, <3>1, ViewTypesOK DEF Right
  <2>3. began[r] <= Made \/ began[r] <= since.travel
    BY <1>1, <1>3, <2>1, <2>2 DEF RequestOK, DetailRead, Making
  <2>4. now <= began[r] + LATENCY
    BY <1>6, <2>1 DEF Ends
  <2>5. now <= Cleared + 5 * LATENCY + DETAIL_TTL
    BY <1>1, <1>2, <2>3, <2>4
  <2> QED BY <1>7, <2>1, <2>5
<1>12. CASE ReadList(r)
  <2>1. Kind(r) = "list" /\ now <= travels[u].until /\ got'[r].view = travels[u].view
    <3>1. /\ Kind(r) = "list"
          /\ IF now <= travels[u].until
             THEN Bring(r, "shown", travels[u].view, FALSE) ELSE Go(r, "travels")
      BY <1>12 DEF ReadList
    <3>2. /\ Go(r, "travels") => at'[r] = "travels"
          /\ Bring(r, "shown", travels[u].view, FALSE) => got'[r].view = travels[u].view
      BY Lands
    <3> QED BY <1>4, <3>1, <3>2
  <2>2. travels[u].until <= Told + 2 * LATENCY + LIST_TTL
    BY <1>1, <1>3, <2>1 DEF CachesOK, ListOK
  <2> QED BY <1>2, <1>8, <2>1, <2>2
<1>13. CASE ShowList(r)
  <2>1. Kind(r) = "list" /\ at[r] = "loaded" /\ got'[r] = got[r]
    BY <1>4, <1>13, Lands DEF ShowList, Loaded
  <2>2. began[r] <= Told
    BY <1>1, <1>3, <2>1 DEF RequestOK, ListRead
  <2> QED BY <1>1, <1>2, <1>6, <1>8, <2>1, <2>2 DEF Ends
<1> QED BY <1>5, <1>9, <1>10, <1>11, <1>12, <1>13

\* A detail or a list of travels that is shown is the one of the tables, unless a change
\* was made lately (setCachedTravelDetail, setMemberListCache, loadMembersForTravels).
THEOREM SoonShown == Spec => ViewsSoonTrue
<1>1. ASSUME CachesInv, [Next]_vars
      PROVE  [\A r \in REQUESTS :
                 Comes(r, "shown") /\ (Kind(r) = "list" \/ Caller(r) \in table.in) /\ got'[r].view # Truth(r)
                 => now - since.travel <= IF Kind(r) = "list" THEN LIST_AGE ELSE DETAIL_AGE]_vars
  BY <1>1, SoonTrue
<1> QED BY <1>1, CachesBounded, PTL DEF Spec, ViewsSoonTrue

\* One who has joined is not turned away from the travel for longer than a "no" lives in the
\* shared cache and then in the memory of a process (isMemberCached, isMember).
THEOREM JoinerIn == Spec => JoinerAdmitted
<1>1. ASSUME CachesInv, Next, NEW r \in REQUESTS, Comes(r, "refused"), Kind(r) = "detail",
             Caller(r) \in table.in
      PROVE  now - since.part[Caller(r)] <= 2 * LATENCY + MEMBER_TTL + MEMORY_TTL
  <2>1. at'[r] = "refused" /\ at[r] # "refused"
    BY <1>1 DEF Comes
  <2>2. AskMember(r) \/ RememberMember(r) \/ ReadSummary(r)
    BY <1>1, <2>1, EndsItself, WhichEnds
  <2>3. ~ReadSummary(r)
    <3>1. Who(r) = Caller(r)
      BY <1>1 DEF Who
    <3> QED BY <1>1, <2>1, <3>1, Lands DEF ReadSummary
  <2>4. now <= since.part[Caller(r)] + 2 * LATENCY + MEMBER_TTL + MEMORY_TTL
    BY <1>1, <2>1, <2>2, <2>3, Answered, Decided
  <2>5. now \in Nat /\ since.part[Caller(r)] \in Int
    BY <1>1, Known, Times DEF Types, CachesInv
  <2> QED BY <2>4, <2>5, Constants
<1>2. ASSUME CachesInv, [Next]_vars
      PROVE  [\A r \in REQUESTS :
                 Comes(r, "refused") /\ Kind(r) = "detail" /\ Caller(r) \in table.in
                 => now - since.part[Caller(r)] <= 2 * LATENCY + MEMBER_TTL + MEMORY_TTL]_vars
  BY <1>1, <1>2
<1> QED BY <1>2, CachesBounded, PTL DEF Spec, JoinerAdmitted

\* It is in deciding, and in showing a cached detail, that a user is taken for a member.
LEMMA WhoAdmits ==
    ASSUME CachesInv, Next, admitted' # admitted
    PROVE  \E r \in REQUESTS : AskMember(r) \/ RememberMember(r) \/ ReadDetail(r)
<1>1. ASSUME NEW r \in REQUESTS, OwnStep(r)
      PROVE  AskMember(r) \/ RememberMember(r) \/ ReadDetail(r)
  BY <1>1 DEF OwnStep, SelectMember, ReadSummary, LoadMembers, SelectRoster, FillDetail, ShowDetail,
              ReadList, SelectTravels, ShowList, FindInvite, Change, DropDetail, DropMembersLists,
              ClearMembers, ReplaceDetail
<1>2. ~Tick
  BY DEF Tick, history
<1>3. \A p \in PROCESSES : ~Arrive(p)
  BY DEF Arrive, history
<1> QED BY <1>1, <1>2, <1>3 DEF Next, OwnStep

\* One who has departed from a travel that is still there is taken for a member only for a
\* time, which begins anew each time it happens (getTravelDetail).
THEOREM DepartedOut == Spec => DepartedKeptByUse
<1>1. ASSUME CachesInv, Next, NEW u \in USERS, admitted'[u] # admitted[u], u \notin table.in,
             table.owner # NoOne
      PROVE  now - since.travel <= DEPARTED_AGE \/ now - admitted[u] <= LATENCY + YES_TTL
  <2>1. PICK r \in REQUESTS : AskMember(r) \/ RememberMember(r) \/ ReadDetail(r)
    BY <1>1, WhoAdmits
  <2>2. /\ Types /\ HistoryTypes /\ TableTypes /\ ViewTypes /\ CachesOK /\ Caller(r) \in USERS
        /\ admitted \in [USERS -> Int]
    BY <1>1, Known DEF Types, HistoryTypes
  <2>3. /\ now \in Nat /\ since.travel \in Int /\ admitted[u] \in Int /\ detail.until \in Int
        /\ LATENCY \in Nat /\ ROSTER_TTL \in Nat /\ DETAIL_TTL \in Nat /\ YES_TTL \in Nat
        /\ DEPARTED_AGE \in Nat /\ 6 * LATENCY + ROSTER_TTL + DETAIL_TTL <= DEPARTED_AGE
        /\ Cleared \in Int /\ Cleared = since.travel + 2 * LATENCY + ROSTER_TTL
    BY <2>2, Times, Constants DEF ViewTypes
  <2>4. There
    BY <1>1 DEF There
  <2>5. CASE AskMember(r) \/ RememberMember(r)
    <3>1. PICK yes, mem, items :
             /\ Decide(r, yes, mem, items) /\ at[r] \in {"asking", "selected"}
             /\ yes /\ There /\ Caller(r) \notin table.in => Outlived(Caller(r), now)
      BY <1>1, <2>5, Answered
    <3>2. admitted' = IF yes THEN [admitted EXCEPT ![Caller(r)] = now] ELSE admitted
      BY <1>1, <3>1, Decided
    <3>3. yes /\ u = Caller(r)
      BY <1>1, <2>2, <3>2
    <3>4. Outlived(u, now)
      BY <1>1, <2>4, <3>1, <3>3
    <3> QED BY <2>3, <3>4 DEF Outlived
  <2>6. CASE ReadDetail(r)
    <3>1. u = Caller(r) /\ u \in detail.view.list.in /\ now <= detail.until
      BY <1>1, <2>2, <2>6 DEF ReadDetail
    <3>2. detail.view # Right
      BY <1>1, <2>2, <3>1, ThereIsOwner
    <3>3. detail.until <= Cleared + 4 * LATENCY + DETAIL_TTL
      BY <2>2, <2>4, <3>1, <3>2 DEF CachesOK, DetailOK
    <3> QED BY <2>3, <3>1, <3>3
  <2> QED BY <2>1, <2>5, <2>6
<1>2. ASSUME CachesInv, [Next]_vars
      PROVE  [\A u \in USERS :
                 admitted'[u] # admitted[u] /\ u \notin table.in /\ table.owner # NoOne
                 => \/ now - since.travel <= DEPARTED_AGE
                    \/ now - admitted[u] <= LATENCY + YES_TTL]_vars
  BY <1>1, <1>2
<1> QED BY <1>2, CachesBounded, PTL DEF Spec, DepartedKeptByUse

-----------------------------------------------------------------------------
(* Requests that come one after another. *)

\* A change has not yet dropped all it makes wrong: of the answers and the list of the members,
Unclean(r) == at[r] \in {"dropping", "clearing"} \/ (at[r] = "listing" /\ Kind(r) # "transfer")
\* of the detail,
Handing(r) == Kind(r) = "transfer" /\ at[r] \in Making \cup {"clearing", "loaded"}
\* and of the users' lists.
ListUnclean(r, u) ==
    \/ /\ at[r] = "dropping"
       /\ u \in (IF Kind(r) = "delete" THEN got[r].view.list.in ELSE table.in \cup {Who(r)})
    \/ (at[r] = "listing" \/ Handing(r)) /\ u \in table.in

Sent(p) == UNION {late[p][k].items : k \in DOMAIN late[p]}

\* Nobody begins before the one before has ended and what it wrote has arrived.
OneAtATime ==
    /\ \A r, s \in REQUESTS : Active(r) /\ Active(s) => r = s
    /\ \A r \in REQUESTS, p \in PROCESSES : Active(r) /\ late[p] # <<>> => p = Here(r)

\* What a request has read is still so.
ReadOK(r) ==
    /\ at[r] = "dropping" => Kind(r) # "transfer"
    /\ Kind(r) \in {"join", "transfer"} /\ at[r] \in {"dropping", "listing", "clearing", "summary"} =>
          Who(r) \in table.in
    /\ at[r] \in {"loading", "rostering", "loaded"} /\ Kind(r) # "list" =>
          Who(r) \in table.in /\ got[r].view.host = table.owner
    /\ at[r] = "loaded" /\ Kind(r) # "list" => got[r].view = Right
    /\ at[r] \in {"loading", "rostering"} /\ Kind(r) = "list" =>
          Caller(r) \in table.in /\ got[r].view.host = table.owner
    /\ at[r] = "loaded" /\ Kind(r) = "list" => /\ got[r].view = Shows(Caller(r))
                                               /\ got[r].yes => got[r].view.list = table /\ There
    /\ Kind(r) = "detail" /\ at[r] \in Before /\ got[r].hit => There /\ got[r].view = Right
    /\ at[r] = "selected" => (got[r].yes <=> Caller(r) \in table.in)
    /\ Kind(r) = "join" /\ at[r] \in Before \cup {"joining"} =>
          \A p \in PROCESSES : \A i \in Sent(p) : i.kind \in {"yes", "no"}

\* What is on its way to the caches is right,
ItemRight(i) ==
    /\ i.kind = "detail" => There /\ i.view = Right
    /\ i.kind = "roster" => There /\ i.view = table
    /\ i.kind = "travels" => i.view = Shows(i.user)

SentRight == \A p \in PROCESSES : \A i \in Sent(p) : ItemRight(i)

\* and so is what is in them, but for what a change or a write on its way is about to mend.
DetailRight ==
    now <= detail.until =>
        \/ There /\ detail.view = Right
        \/ \E r \in REQUESTS : (at[r] = "dropping" \/ Handing(r))
        \/ \E p \in PROCESSES : \E i \in Sent(p) : i.kind = "detail"

RosterRight ==
    now <= roster.until => (There /\ roster.view = table) \/ \E r \in REQUESTS : Unclean(r)

ListRight(u) ==
    now <= travels[u].until =>
        \/ travels[u].view = Shows(u)
        \/ \E r \in REQUESTS : ListUnclean(r, u)
        \/ \E p \in PROCESSES : \E i \in Sent(p) : i.kind = "drop" /\ i.user = u

OneProcess == \A r, s \in REQUESTS : Here(r) = Here(s)

AnswerRight(i) == (i.kind = "yes" => i.user \in table.in) /\ (i.kind = "no" => i.user \notin table.in)

\* Where there is one process, its memory and the shared cache tell who is a member.
AnswersRight ==
    OneProcess /\ (\A r \in REQUESTS : ~Unclean(r)) =>
        /\ \A u \in USERS : now <= shared[u].until => (shared[u].yes <=> u \in table.in)
        /\ \A r \in REQUESTS, u \in USERS :
              now <= memory[Here(r)][u].until => (memory[Here(r)][u].yes <=> u \in table.in)
        /\ \A p \in PROCESSES : \A i \in Sent(p) : AnswerRight(i)

AllRight == SentRight /\ DetailRight /\ RosterRight /\ (\A u \in USERS : ListRight(u)) /\ AnswersRight

ApartInv == apart => OneAtATime /\ (\A r \in REQUESTS : ReadOK(r)) /\ AllRight

\* The step of request r is of one that comes after all others.
Alone(r) ==
    /\ apart /\ OneAtATime
    /\ \A s \in REQUESTS \ {r} : at[s] \in Ends \cup {"new"}
    /\ \A p \in PROCESSES : p # Here(r) \/ at[r] = "new" => late[p] = <<>>

\* A step of request r alone, in which tables and time stay.
Moves(r) ==
    /\ UNCHANGED <<now, job, table>>
    /\ \A s \in REQUESTS \ {r} : at'[s] = at[s] /\ got'[s] = got[s]

\* Nothing is to be done for a request that is not under way.
LEMMA NothingLeft ==
    ASSUME NEW r \in REQUESTS
    PROVE  /\ at[r] \in Ends \cup {"new"} =>
                 /\ ReadOK(r) /\ ~Unclean(r) /\ ~Handing(r) /\ at[r] # "dropping" /\ ~Active(r)
                 /\ \A u : ~ListUnclean(r, u)
           /\ at'[r] \in Ends \cup {"new"} =>
                 /\ ReadOK(r)' /\ ~Unclean(r)' /\ ~Handing(r)' /\ at'[r] # "dropping" /\ ~Active(r)'
                 /\ \A u : ~ListUnclean(r, u)'
BY DEF Ends, ReadOK, Unclean, Handing, ListUnclean, Active, Before, Making

\* What is on its way, one by one.
LEMMA SentIs ==
    \A p, i : /\ i \in Sent(p) <=> \E k \in DOMAIN late[p] : i \in late[p][k].items
              /\ (i \in Sent(p))' <=> \E k \in DOMAIN late'[p] : i \in late'[p][k].items
BY DEF Sent

\* Nothing is on its way where nothing was sent.
LEMMA SentNothing == \A p : late[p] = <<>> => Sent(p) = {}
BY SentIs

\* What a handler sends is on its way beside what it has sent before.
LEMMA SentMore ==
    ASSUME Types, NEW q \in PROCESSES, NEW items,
           late' = [late EXCEPT ![q] = Append(@, [items |-> items, sent |-> now])]
    PROVE  /\ \A p \in PROCESSES \ {q} : late'[p] = late[p] /\ Sent(p)' = Sent(p)
           /\ late'[q] # <<>> /\ Sent(q)' = Sent(q) \cup items
<1> DEFINE b == [items |-> items, sent |-> now]
           s == late[q]
<1>1. s \in Seq(Batch) /\ late'[q] = Append(s, b)
  BY DEF Types, MemberTypes
<1>2. \A p \in PROCESSES \ {q} : late'[p] = late[p]
  BY DEF Types, MemberTypes
<1>3. \A p \in PROCESSES \ {q} : Sent(p)' = Sent(p)
  BY <1>2 DEF Sent
<1>4. b.items = items
  OBVIOUS
<1> HIDE DEF b, s
<1>5. /\ DOMAIN Append(s, b) = 1 .. Len(s) + 1 /\ DOMAIN s = 1 .. Len(s) /\ Len(s) \in Nat
      /\ \A k \in 1 .. Len(s) : Append(s, b)[k] = s[k]
      /\ Append(s, b)[Len(s) + 1] = b /\ Append(s, b) # <<>>
  BY <1>1
<1>6. \A i : (\E k \in DOMAIN Append(s, b) : i \in Append(s, b)[k].items)
             <=> (\E k \in DOMAIN s : i \in s[k].items) \/ i \in items
  <2> SUFFICES ASSUME NEW i
               PROVE  (\E k \in DOMAIN Append(s, b) : i \in Append(s, b)[k].items)
                      <=> (\E k \in DOMAIN s : i \in s[k].items) \/ i \in items
    OBVIOUS
  <2>1. ASSUME NEW k \in DOMAIN Append(s, b), i \in Append(s, b)[k].items
        PROVE  (\E l \in DOMAIN s : i \in s[l].items) \/ i \in items
    <3>1. k \in 1 .. Len(s) \/ k = Len(s) + 1
      BY <1>5
    <3> QED BY <1>4, <1>5, <2>1, <3>1
  <2>2. ASSUME NEW k \in DOMAIN s, i \in s[k].items
        PROVE  \E l \in DOMAIN Append(s, b) : i \in Append(s, b)[l].items
    BY <1>5, <2>2
  <2>3. i \in items => \E l \in DOMAIN Append(s, b) : i \in Append(s, b)[l].items
    <3>1. Len(s) + 1 \in DOMAIN Append(s, b)
      BY <1>5
    <3> QED BY <1>4, <1>5, <3>1
  <2> QED BY <2>1, <2>2, <2>3
<1>7. \A i : (i \in Sent(q))' <=> i \in Sent(q) \/ i \in items
  BY <1>1, <1>6, SentIs DEF s
<1>8. Sent(q)' = Sent(q) \cup items
  BY <1>7
<1> QED BY <1>1, <1>2, <1>3, <1>5, <1>8

\* What arrives is no more on its way.
LEMMA SentLess ==
    ASSUME Types, NEW q \in PROCESSES, late[q] # <<>>, late' = [late EXCEPT ![q] = Tail(@)]
    PROVE  /\ \A p \in PROCESSES \ {q} : late'[p] = late[p] /\ Sent(p)' = Sent(p)
           /\ Sent(q) = Head(late[q]).items \cup Sent(q)'
<1> DEFINE s == late[q]
<1>1. s \in Seq(Batch) /\ late'[q] = Tail(s) /\ s # <<>>
  BY DEF Types, MemberTypes
<1>2. \A p \in PROCESSES \ {q} : late'[p] = late[p]
  BY DEF Types, MemberTypes
<1>3. \A p \in PROCESSES \ {q} : Sent(p)' = Sent(p)
  BY <1>2 DEF Sent
<1> HIDE DEF s
<1>4. /\ DOMAIN s = 1 .. Len(s) /\ DOMAIN Tail(s) = 1 .. Len(s) - 1 /\ Len(s) \in Nat /\ Len(s) >= 1
      /\ Head(s) = s[1] /\ \A k \in 1 .. Len(s) - 1 : Tail(s)[k] = s[k + 1]
  BY <1>1
<1>5. ASSUME NEW i
      PROVE  (\E k \in DOMAIN s : i \in s[k].items)
             <=> i \in Head(s).items \/ \E k \in DOMAIN Tail(s) : i \in Tail(s)[k].items
  <2>1. ASSUME NEW k \in DOMAIN s, i \in s[k].items
        PROVE  i \in Head(s).items \/ \E l \in DOMAIN Tail(s) : i \in Tail(s)[l].items
    <3>1. CASE k = 1
      BY <1>4, <2>1, <3>1
    <3>2. CASE k # 1
      <4>1. k - 1 \in DOMAIN Tail(s) /\ Tail(s)[k - 1] = s[k]
        BY <1>4, <2>1, <3>2
      <4> QED BY <2>1, <4>1
    <3> QED BY <3>1, <3>2
  <2>2. ASSUME NEW k \in DOMAIN Tail(s), i \in Tail(s)[k].items
        PROVE  \E l \in DOMAIN s : i \in s[l].items
    <3>1. k + 1 \in DOMAIN s /\ s[k + 1] = Tail(s)[k]
      BY <1>4, <2>2
    <3> QED BY <2>2, <3>1
  <2>3. i \in Head(s).items => \E l \in DOMAIN s : i \in s[l].items
    <3>1. 1 \in DOMAIN s
      BY <1>4
    <3> QED BY <1>4, <3>1
  <2> QED BY <2>1, <2>2, <2>3
<1>6. \A i : i \in Sent(q) <=> i \in Head(late[q]).items \/ (i \in Sent(q))'
  BY <1>1, <1>5, SentIs DEF s
<1>7. Sent(q) = Head(late[q]).items \cup Sent(q)'
  BY <1>6
<1> QED BY <1>2, <1>3, <1>7

\* Where a step takes its request, and that it is of one which is not over.
LEMMA Takes ==
    ASSUME CachesInv, NEW r \in REQUESTS
    PROVE  /\ \A place : Goto(r, place) =>
                 /\ at'[r] = place /\ UNCHANGED <<now, job>>
                 /\ \A s \in REQUESTS \ {r} : at'[s] = at[s]
           /\ \A place : Go(r, place) => Goto(r, place) /\ got' = got
           /\ \A place, view, hit : Bring(r, place, view, hit) =>
                 /\ Goto(r, place)
                 /\ got'[r].view = view /\ got'[r].hit = hit /\ ~got'[r].yes
                 /\ \A s \in REQUESTS \ {r} : got'[s] = got[s]
<1>1. at \in [REQUESTS -> Places] /\ got \in [REQUESTS -> Carried]
  BY DEF CachesInv, Types, RequestTypes
<1>2. \A view, hit : LET g == [view |-> view, hit |-> hit, yes |-> FALSE] IN
         g.view = view /\ g.hit = hit /\ ~g.yes
  OBVIOUS
<1>3. \A place : Goto(r, place) =>
         /\ at'[r] = place /\ UNCHANGED <<now, job>>
         /\ \A s \in REQUESTS \ {r} : at'[s] = at[s]
  BY <1>1 DEF Goto
<1>4. \A place : Go(r, place) => Goto(r, place) /\ got' = got
  BY DEF Go
<1>5. ASSUME NEW place, NEW view, NEW hit, Bring(r, place, view, hit)
      PROVE  /\ Goto(r, place)
             /\ got'[r].view = view /\ got'[r].hit = hit /\ ~got'[r].yes
             /\ \A s \in REQUESTS \ {r} : got'[s] = got[s]
  <2> DEFINE g == [view |-> view, hit |-> hit, yes |-> FALSE]
  <2>1. Goto(r, place) /\ got' = [got EXCEPT ![r] = g]
    BY <1>5 DEF Bring
  <2>2. g.view = view /\ g.hit = hit /\ ~g.yes
    OBVIOUS
  <2> HIDE DEF g
  <2> QED BY <1>1, <2>1, <2>2
<1> QED BY <1>3, <1>4, <1>5

\* One that comes after all others is alone.
LEMMA ComesAlone ==
    ASSUME CachesInv, ApartInv, NEW r \in REQUESTS, NEW place, Goto(r, place), apart',
           at[r] \notin Ends
    PROVE  /\ Alone(r) /\ ReadOK(r) /\ AllRight
           /\ \A s \in REQUESTS \ {r} : /\ at[s] # "dropping" /\ ~Handing(s) /\ ~Unclean(s)
                                        /\ \A u : ~ListUnclean(s, u)
           /\ \A p \in PROCESSES : p # Here(r) \/ at[r] = "new" => late[p] = <<>> /\ Sent(p) = {}
<1>1. apart /\ (at[r] = "new" => /\ \A s \in REQUESTS : ~Active(s)
                                 /\ \A p \in PROCESSES : late[p] = <<>>)
  BY DEF Goto
<1>2. OneAtATime /\ ReadOK(r) /\ AllRight
  BY <1>1 DEF ApartInv
<1>3. at[r] # "new" => Active(r)
  BY DEF Active
<1>4. \A s \in REQUESTS \ {r} : at[s] \in Ends \cup {"new"}
  BY <1>1, <1>2, <1>3 DEF OneAtATime, Active
<1>5. \A p \in PROCESSES : p # Here(r) \/ at[r] = "new" => late[p] = <<>>
  BY <1>1, <1>2, <1>3 DEF OneAtATime
<1> QED BY <1>1, <1>2, <1>4, <1>5, NothingLeft, SentNothing DEF Alone

\* Then no two are under way at a time, whatever it sends.
LEMMA StaysAlone ==
    ASSUME NEW r \in REQUESTS, Alone(r), job' = job, \A s \in REQUESTS \ {r} : at'[s] = at[s],
           \A p \in PROCESSES : p # Here(r) => late'[p] = late[p]
    PROVE  /\ OneAtATime'
           /\ \A s \in REQUESTS \ {r} : /\ ReadOK(s)' /\ at'[s] # "dropping" /\ ~Handing(s)' /\ ~Unclean(s)'
                                        /\ \A u : ~ListUnclean(s, u)'
<1>1. \A s \in REQUESTS \ {r} : at'[s] \in Ends \cup {"new"}
  BY DEF Alone
<1>2. \A s \in REQUESTS : Here(s)' = Here(s)
  BY DEF Here
<1>3. \A s \in REQUESTS \ {r} : ~Active(s)'
  BY <1>1, NothingLeft
<1>4. \A p \in PROCESSES : late'[p] # <<>> => p = Here(r)
  BY DEF Alone
<1>5. OneAtATime'
  BY <1>2, <1>3, <1>4 DEF OneAtATime
<1> QED BY <1>1, <1>5, NothingLeft

\* A handler sends what it has to send, or nothing.
LEMMA SentGrows ==
    ASSUME Types, NEW h \in PROCESSES, NEW items,
           \/ late' = late /\ items = {}
           \/ late' = [late EXCEPT ![h] = Append(@, [items |-> items, sent |-> now])]
    PROVE  \A p \in PROCESSES : /\ p # h => late'[p] = late[p]
                                /\ Sent(p)' = IF p = h THEN Sent(p) \cup items ELSE Sent(p)
<1>1. CASE late' = late /\ items = {}
  <2>1. \A p : Sent(p)' = Sent(p) /\ late'[p] = late[p]
    BY <1>1 DEF Sent
  <2>2. \A S : S \cup items = S
    BY <1>1
  <2> QED BY <2>1, <2>2
<1>2. CASE late' = [late EXCEPT ![h] = Append(@, [items |-> items, sent |-> now])]
  BY <1>2, SentMore
<1> QED BY <1>1, <1>2

\* Who reads, and writes what is right, leaves everything right.
LEMMA WritesRight ==
    ASSUME CachesInv, NEW r \in REQUESTS, Alone(r), AllRight, Moves(r), ReadOK(r)',
           UNCHANGED <<detail, travels, roster, shared>>, ~Unclean(r), ~Unclean(r)',
           NEW items,
           \/ late' = late /\ items = {}
           \/ late' = [late EXCEPT ![Here(r)] = Append(@, [items |-> items, sent |-> now])],
           \A i \in items : ItemRight(i),
           Handing(r) => Handing(r)' \/ \E i \in items : i.kind = "detail",
           \A u \in USERS : ListUnclean(r, u) =>
               ListUnclean(r, u)' \/ \E i \in items : i.kind = "drop" /\ i.user = u,
           OneProcess => /\ \A i \in items : AnswerRight(i)
                         /\ \A u \in USERS : \/ memory'[Here(r)][u] = memory[Here(r)][u]
                                             \/ memory'[Here(r)][u].yes <=> u \in table.in
    PROVE  ApartInv'
<1>1. /\ Here(r) \in PROCESSES /\ Types
      /\ \A s \in REQUESTS : Here(s)' = Here(s)
      /\ UNCHANGED <<now, job, table>>
  BY Known DEF Moves, Here
<1>2. \A p \in PROCESSES :
         /\ p # Here(r) => late'[p] = late[p]
         /\ Sent(p)' = IF p = Here(r) THEN Sent(p) \cup items ELSE Sent(p)
  <2>1. PICK h \in PROCESSES : h = Here(r)
    BY <1>1
  <2>2. \/ late' = late /\ items = {}
        \/ late' = [late EXCEPT ![h] = Append(@, [items |-> items, sent |-> now])]
    BY <2>1
  <2> QED BY <1>1, <2>1, <2>2, SentGrows
<1>3. /\ OneAtATime'
      /\ \A s \in REQUESTS \ {r} : /\ ReadOK(s)' /\ at'[s] # "dropping" /\ ~Handing(s)' /\ ~Unclean(s)'
                                   /\ \A u : ~ListUnclean(s, u)'
  BY <1>2, StaysAlone DEF Moves
<1>4. \A s \in REQUESTS \ {r} : /\ at[s] # "dropping" /\ ~Handing(s) /\ ~Unclean(s)
                                /\ \A u : ~ListUnclean(s, u)
  BY NothingLeft DEF Alone
<1>5. There' = There /\ Right' = Right /\ \A u : Shows(u)' = Shows(u)
  BY <1>1 DEF There, Right, Shows, View
<1>6. at[r] # "dropping" /\ at'[r] # "dropping"
  BY DEF Unclean
<1>7. SentRight'
  <2>1. \A i : ItemRight(i)' <=> ItemRight(i)
    BY <1>1, <1>5 DEF ItemRight
  <2> QED BY <1>2, <2>1 DEF SentRight, AllRight
<1>8. DetailRight'
  <2>1. \/ ~(now <= detail.until)
        \/ There /\ detail.view = Right
        \/ Handing(r)
        \/ \E p \in PROCESSES : \E i \in Sent(p) : i.kind = "detail"
    BY <1>4, <1>6 DEF AllRight, DetailRight
  <2>2. (\E p \in PROCESSES : \E i \in Sent(p) : i.kind = "detail")
        => \E p \in PROCESSES : \E i \in Sent(p)' : i.kind = "detail"
    BY <1>2
  <2>3. Handing(r) => Handing(r)' \/ \E p \in PROCESSES : \E i \in Sent(p)' : i.kind = "detail"
    BY <1>1, <1>2
  <2> QED BY <1>1, <1>5, <2>1, <2>2, <2>3 DEF DetailRight
<1>9. RosterRight'
  BY <1>1, <1>4, <1>5 DEF AllRight, RosterRight
<1>10. ASSUME NEW u \in USERS PROVE ListRight(u)'
  <2>1. \/ ~(now <= travels[u].until)
        \/ travels[u].view = Shows(u)
        \/ ListUnclean(r, u)
        \/ \E p \in PROCESSES : \E i \in Sent(p) : i.kind = "drop" /\ i.user = u
    BY <1>4 DEF AllRight, ListRight
  <2>2. (\E p \in PROCESSES : \E i \in Sent(p) : i.kind = "drop" /\ i.user = u)
        => \E p \in PROCESSES : \E i \in Sent(p)' : i.kind = "drop" /\ i.user = u
    BY <1>2
  <2>3. ListUnclean(r, u) => \/ ListUnclean(r, u)'
                             \/ \E p \in PROCESSES : \E i \in Sent(p)' : i.kind = "drop" /\ i.user = u
    BY <1>1, <1>2
  <2> QED BY <1>1, <1>5, <2>1, <2>2, <2>3 DEF ListRight
<1>11. AnswersRight'
  <2>1. OneProcess' = OneProcess /\ \A i : AnswerRight(i)' <=> AnswerRight(i)
    BY <1>1 DEF OneProcess, AnswerRight
  <2>2. CASE ~OneProcess
    BY <2>1, <2>2 DEF AnswersRight
  <2>3. CASE OneProcess
    <3>1. \A s \in REQUESTS : ~Unclean(s)
      BY <1>4
    <3>2. /\ \A u \in USERS : now <= shared[u].until => (shared[u].yes <=> u \in table.in)
          /\ \A s \in REQUESTS, u \in USERS :
                now <= memory[Here(s)][u].until => (memory[Here(s)][u].yes <=> u \in table.in)
          /\ \A p \in PROCESSES : \A i \in Sent(p) : AnswerRight(i)
      BY <2>3, <3>1 DEF AllRight, AnswersRight
    <3>3. \A s \in REQUESTS, u \in USERS :
             now <= memory'[Here(s)][u].until => (memory'[Here(s)][u].yes <=> u \in table.in)
      BY <2>3, <3>2 DEF OneProcess
    <3>4. \A p \in PROCESSES : \A i \in Sent(p)' : AnswerRight(i)
      BY <1>2, <2>3, <3>2
    <3> QED BY <1>1, <2>1, <3>2, <3>3, <3>4 DEF AnswersRight
  <2> QED BY <2>2, <2>3
<1>12. \A s \in REQUESTS : ReadOK(s)'
  BY <1>3
<1> QED BY <1>3, <1>7, <1>8, <1>9, <1>10, <1>11, <1>12 DEF ApartInv, AllRight

\* What a step of request r alone begins with.
Begins(r) ==
    /\ Alone(r) /\ Moves(r) /\ ReadOK(r) /\ AllRight
    /\ at[r] = "new" => \A p \in PROCESSES : Sent(p) = {}

\* What a request that stands alone finds when it takes its next step.
LEMMA StepBegins ==
    ASSUME CachesInv, ApartInv, NEW r \in REQUESTS, NEW place, Goto(r, place), apart',
           at[r] \notin Ends, table' = table, \A s \in REQUESTS \ {r} : got'[s] = got[s]
    PROVE  Begins(r) /\ at'[r] = place
<1>1. /\ Alone(r) /\ ReadOK(r) /\ AllRight
      /\ \A p \in PROCESSES : at[r] = "new" => Sent(p) = {}
  BY ComesAlone
<1>2. /\ at'[r] = place /\ UNCHANGED <<now, job>>
      /\ \A s \in REQUESTS \ {r} : at'[s] = at[s]
  BY Takes
<1> QED BY <1>1, <1>2 DEF Begins, Moves

\* What stays in such a step.
LEMMA Fixed ==
    ASSUME NEW r \in REQUESTS, Moves(r)
    PROVE  /\ UNCHANGED <<now, job, table>>
           /\ Kind(r)' = Kind(r) /\ Caller(r)' = Caller(r) /\ Who(r)' = Who(r) /\ Here(r)' = Here(r)
           /\ There' = There /\ Right' = Right /\ \A u : Shows(u)' = Shows(u)
BY DEF Moves, Kind, Caller, Who, Here, There, Right, Shows, View

\* What is cached is right when nothing is being changed or written.
LEMMA CachedRight ==
    ASSUME NEW r \in REQUESTS, Begins(r), at[r] # "dropping", ~Handing(r)
    PROVE  /\ ~Unclean(r) /\ now <= roster.until => There /\ roster.view = table
           /\ at[r] = "new" /\ now <= detail.until => There /\ detail.view = Right
           /\ at[r] = "new" => \A u \in USERS : now <= travels[u].until => travels[u].view = Shows(u)
<1>1. \A s \in REQUESTS \ {r} : /\ at[s] # "dropping" /\ ~Handing(s) /\ ~Unclean(s)
                                /\ \A u : ~ListUnclean(s, u)
  BY NothingLeft DEF Begins, Alone
<1>2. at[r] = "new" => \A p \in PROCESSES : Sent(p) = {}
  BY DEF Begins
<1>3. at[r] = "new" => \A u : ~ListUnclean(r, u)
  BY NothingLeft
<1>4. ~Unclean(r) /\ now <= roster.until => There /\ roster.view = table
  BY <1>1 DEF Begins, AllRight, RosterRight
<1>5. at[r] = "new" /\ now <= detail.until => There /\ detail.view = Right
  BY <1>1, <1>2 DEF Begins, AllRight, DetailRight
<1>6. at[r] = "new" => \A u \in USERS : now <= travels[u].until => travels[u].view = Shows(u)
  BY <1>1, <1>2, <1>3 DEF Begins, AllRight, ListRight
<1> QED BY <1>4, <1>5, <1>6

\* A step that writes nothing.
LEMMA ReadsRight ==
    ASSUME CachesInv, NEW r \in REQUESTS, Begins(r), ReadOK(r)', UNCHANGED caches,
           ~Unclean(r), ~Unclean(r)', Handing(r) => Handing(r)',
           \A u \in USERS : ListUnclean(r, u) => ListUnclean(r, u)'
    PROVE  ApartInv'
<1>1. /\ UNCHANGED <<detail, travels, roster, shared, memory>>
      /\ late' = late
  BY DEF caches, views, members
<1>2. Alone(r) /\ AllRight /\ Moves(r)
  BY DEF Begins
<1> HIDE DEF caches
<1>3. PICK items : items = {}
  OBVIOUS
<1>4. /\ \A i \in items : ItemRight(i) /\ AnswerRight(i)
      /\ \A u \in USERS : memory'[Here(r)][u] = memory[Here(r)][u]
  BY <1>1, <1>3
<1> QED BY <1>1, <1>2, <1>3, <1>4, WritesRight

\* Asking the database whether the caller is a member.
LEMMA SelectMemberApart ==
    ASSUME CachesInv, ApartInv, NEW r \in REQUESTS, SelectMember(r), apart' PROVE ApartInv'
<1>1. /\ at[r] = "selecting" /\ Goto(r, "selected")
      /\ got' = [got EXCEPT ![r].yes = Caller(r) \in table.in]
      /\ UNCHANGED <<table, caches>>
  BY DEF SelectMember
<1>2. got \in [REQUESTS -> Carried] /\ got[r] \in Carried
  BY Known DEF Types, RequestTypes
<1>3. /\ got'[r].yes = (Caller(r) \in table.in) /\ got'[r].view = got[r].view /\ got'[r].hit = got[r].hit
      /\ \A s \in REQUESTS \ {r} : got'[s] = got[s]
  BY <1>1, <1>2 DEF Carried
<1>4. Begins(r) /\ at'[r] = "selected"
  BY <1>1, <1>3, StepBegins DEF Ends
<1>5. \A p : Sent(p)' = Sent(p)
  BY <1>1 DEF Sent, caches
<1>6. ReadOK(r) /\ Moves(r)
  BY <1>4 DEF Begins
<1>7. ReadOK(r)'
  BY <1>1, <1>3, <1>4, <1>5, <1>6, Fixed DEF ReadOK, Before
<1>8. ~Unclean(r) /\ ~Unclean(r)' /\ ~Handing(r) /\ \A u : ~ListUnclean(r, u)
  BY <1>1, <1>4 DEF Unclean, Handing, ListUnclean, Making
<1> QED BY <1>1, <1>4, <1>7, <1>8, ReadsRight

\* In a step that writes nothing, nothing on its way becomes wrong.
LEMMA SentStays ==
    ASSUME UNCHANGED caches
    PROVE  \A p : Sent(p)' = Sent(p)
BY DEF Sent, caches

\* Reading the travel and its owner.
LEMMA ReadSummaryApart ==
    ASSUME CachesInv, ApartInv, NEW r \in REQUESTS, ReadSummary(r), apart' PROVE ApartInv'
<1>1. /\ at[r] = "summary" /\ UNCHANGED <<table, caches>>
      /\ IF Who(r) \in table.in
         THEN Bring(r, "loading", View(table.owner, NoRoster), got[r].hit)
         ELSE Bring(r, "refused", Absent, FALSE)
      /\ Kind(r) # "list"
  BY Known DEF ReadSummary, RequestOK, Paced
<1>2. CASE Who(r) \in table.in
  <2>1. Bring(r, "loading", View(table.owner, NoRoster), got[r].hit)
    BY <1>1, <1>2
  <2>2. /\ Goto(r, "loading") /\ got'[r].view = View(table.owner, NoRoster)
        /\ \A s \in REQUESTS \ {r} : got'[s] = got[s]
    BY <2>1, Takes
  <2>3. Begins(r) /\ at'[r] = "loading"
    BY <1>1, <2>2, StepBegins DEF Ends
  <2>4. got'[r].view.host = table.owner
    BY <2>2 DEF View
  <2>5. Moves(r)
    BY <2>3 DEF Begins
  <2>6. ReadOK(r)'
    BY <1>1, <1>2, <2>3, <2>4, <2>5, Fixed DEF ReadOK, Before
  <2>7. /\ ~Unclean(r) /\ ~Unclean(r)' /\ (Handing(r) => Handing(r)')
        /\ \A u \in USERS : ListUnclean(r, u) => ListUnclean(r, u)'
    BY <1>1, <2>3, <2>5, Fixed DEF Unclean, Handing, ListUnclean, Making
  <2> QED BY <1>1, <2>3, <2>6, <2>7, ReadsRight
<1>3. CASE Who(r) \notin table.in
  <2>1. Bring(r, "refused", Absent, FALSE)
    BY <1>1, <1>3
  <2>2. Goto(r, "refused") /\ \A s \in REQUESTS \ {r} : got'[s] = got[s]
    BY <2>1, Takes
  <2>3. Begins(r) /\ at'[r] = "refused"
    BY <1>1, <2>2, StepBegins DEF Ends
  <2>4. Kind(r) # "transfer"
    BY <1>1, <1>3, <2>3 DEF Begins, ReadOK
  <2>5. ~Unclean(r) /\ ~Handing(r) /\ \A u : ~ListUnclean(r, u)
    BY <1>1, <2>4 DEF Unclean, Handing, ListUnclean
  <2>6. ReadOK(r)' /\ ~Unclean(r)'
    BY <2>3, NothingLeft DEF Ends
  <2> QED BY <1>1, <2>3, <2>5, <2>6, ReadsRight
<1> QED BY <1>2, <1>3

\* Finding the list of the members in the cache, or not.
LEMMA LoadMembersApart ==
    ASSUME CachesInv, ApartInv, NEW r \in REQUESTS, LoadMembers(r), apart' PROVE ApartInv'
<1>1. /\ at[r] = "loading" /\ UNCHANGED <<table, caches>>
      /\ IF now <= roster.until
         THEN Bring(r, "loaded", View(got[r].view.host, roster.view), got[r].hit)
         ELSE Go(r, "rostering")
  BY DEF LoadMembers
<1>2. TableTypes /\ got[r] \in Carried
  BY Known DEF Types
<1>3. /\ ~Unclean(r) /\ at[r] # "dropping"
      /\ \A u : ListUnclean(r, u) => Handing(r) /\ u \in table.in
  BY <1>1 DEF Unclean, ListUnclean
<1>4. CASE now <= roster.until
  <2>1. Bring(r, "loaded", View(got[r].view.host, roster.view), got[r].hit)
    BY <1>1, <1>4
  <2>2. /\ Goto(r, "loaded") /\ got'[r].view = View(got[r].view.host, roster.view) /\ ~got'[r].yes
        /\ \A s \in REQUESTS \ {r} : got'[s] = got[s]
    BY <2>1, Takes
  <2>3. Begins(r) /\ at'[r] = "loaded"
    BY <1>1, <2>2, StepBegins DEF Ends
  <2>4. ReadOK(r) /\ Moves(r) /\ AllRight /\ Alone(r)
    BY <2>3 DEF Begins
  <2>5. There /\ roster.view = table
    <3>1. \A s \in REQUESTS : ~Unclean(s)
      BY <1>3, <2>4, NothingLeft DEF Alone
    <3> QED BY <1>4, <2>4, <3>1 DEF AllRight, RosterRight
  <2>6. got[r].view.host = table.owner /\ (IF Kind(r) = "list" THEN Caller(r) ELSE Who(r)) \in table.in
    BY <1>1, <2>4 DEF ReadOK
  <2>7. got'[r].view = Right /\ Right.host = table.owner /\ (Kind(r) = "list" => Shows(Caller(r)) = Right)
    BY <1>2, <2>2, <2>5, <2>6, ThereIsOwner DEF Right, Shows
  <2>8. ReadOK(r)'
    BY <1>1, <2>2, <2>3, <2>4, <2>6, <2>7, Fixed DEF ReadOK, Before
  <2>9. /\ ~Unclean(r)' /\ (Handing(r) => Handing(r)')
        /\ \A u \in USERS : ListUnclean(r, u) => ListUnclean(r, u)'
    BY <1>3, <2>3, <2>4, Fixed DEF Unclean, Handing, ListUnclean
  <2> QED BY <1>1, <1>3, <2>3, <2>8, <2>9, ReadsRight
<1>5. CASE ~(now <= roster.until)
  <2>1. Goto(r, "rostering") /\ got' = got
    BY <1>1, <1>5, Takes
  <2>2. Begins(r) /\ at'[r] = "rostering"
    BY <1>1, <2>1, StepBegins DEF Ends
  <2>3. ReadOK(r) /\ Moves(r)
    BY <2>2 DEF Begins
  <2>4. ReadOK(r)'
    BY <1>1, <2>1, <2>2, <2>3, Fixed DEF ReadOK, Before
  <2>5. /\ ~Unclean(r)' /\ (Handing(r) => Handing(r)')
        /\ \A u \in USERS : ListUnclean(r, u) => ListUnclean(r, u)'
    BY <1>3, <2>2, <2>3, Fixed DEF Unclean, Handing, ListUnclean, Making
  <2> QED BY <1>1, <1>3, <2>2, <2>4, <2>5, ReadsRight
<1> QED BY <1>4, <1>5

\* Reading the list of the members from the database.
LEMMA SelectRosterApart ==
    ASSUME CachesInv, ApartInv, NEW r \in REQUESTS, SelectRoster(r), apart' PROVE ApartInv'
<1>1. /\ at[r] = "rostering" /\ Goto(r, "loaded") /\ UNCHANGED <<table, caches>>
      /\ got' = [got EXCEPT ![r].view.list = table, ![r].yes = table.in # {}]
  BY DEF SelectRoster
<1>2. TableTypes /\ got \in [REQUESTS -> Carried] /\ got[r].view \in Views /\ got[r] \in Carried
  BY Known DEF Types, RequestTypes, Carried
<1>3. /\ got'[r].view = View(got[r].view.host, table)
      /\ \A s \in REQUESTS \ {r} : got'[s] = got[s]
  BY <1>1, <1>2 DEF Carried, Views, View
<1>4. Begins(r) /\ at'[r] = "loaded"
  BY <1>1, <1>3, StepBegins DEF Ends
<1>5. ReadOK(r) /\ Moves(r)
  BY <1>4 DEF Begins
<1>6. got[r].view.host = table.owner /\ (IF Kind(r) = "list" THEN Caller(r) ELSE Who(r)) \in table.in
  BY <1>1, <1>5 DEF ReadOK
<1>7. /\ got'[r].view = Right /\ There /\ (Kind(r) = "list" => Shows(Caller(r)) = Right)
      /\ Right.list = table /\ Right.host = table.owner
  BY <1>2, <1>3, <1>6, ThereIsOwner DEF Right, Shows
<1>8. ReadOK(r)'
  BY <1>1, <1>4, <1>5, <1>6, <1>7, Fixed DEF ReadOK, Before
<1>9. /\ ~Unclean(r) /\ ~Unclean(r)' /\ (Handing(r) => Handing(r)')
      /\ \A u \in USERS : ListUnclean(r, u) => ListUnclean(r, u)'
  BY <1>1, <1>4, <1>5, Fixed DEF Unclean, Handing, ListUnclean
<1> QED BY <1>1, <1>4, <1>8, <1>9, ReadsRight

\* Reading the travels that the caller is in.
LEMMA SelectTravelsApart ==
    ASSUME CachesInv, ApartInv, NEW r \in REQUESTS, SelectTravels(r), apart' PROVE ApartInv'
<1>1. /\ at[r] = "travels" /\ UNCHANGED <<table, caches>> /\ Kind(r) = "list"
      /\ IF Caller(r) \in table.in
         THEN Bring(r, "loading", View(table.owner, NoRoster), FALSE)
         ELSE Bring(r, "loaded", Absent, FALSE)
  BY Known DEF SelectTravels, RequestOK, Paced
<1>2. ~Unclean(r) /\ ~Handing(r) /\ \A u : ~ListUnclean(r, u)
  BY <1>1 DEF Unclean, Handing, ListUnclean
<1>3. CASE Caller(r) \in table.in
  <2>1. /\ Goto(r, "loading") /\ got'[r].view = View(table.owner, NoRoster)
        /\ \A s \in REQUESTS \ {r} : got'[s] = got[s]
    BY <1>1, <1>3, Takes
  <2>2. Begins(r) /\ at'[r] = "loading"
    BY <1>1, <2>1, StepBegins DEF Ends
  <2>3. got'[r].view.host = table.owner /\ Moves(r)
    BY <2>1, <2>2 DEF View, Begins
  <2>4. ReadOK(r)' /\ ~Unclean(r)'
    BY <1>1, <1>3, <2>2, <2>3, Fixed DEF ReadOK, Before, Unclean
  <2> QED BY <1>1, <1>2, <2>2, <2>4, ReadsRight
<1>4. CASE Caller(r) \notin table.in
  <2>1. /\ Goto(r, "loaded") /\ got'[r].view = Absent /\ ~got'[r].yes
        /\ \A s \in REQUESTS \ {r} : got'[s] = got[s]
    BY <1>1, <1>4, Takes
  <2>2. Begins(r) /\ at'[r] = "loaded"
    BY <1>1, <2>1, StepBegins DEF Ends
  <2>3. Shows(Caller(r)) = Absent /\ Moves(r)
    BY <1>4, <2>2 DEF Shows, Begins
  <2>4. ReadOK(r)' /\ ~Unclean(r)'
    BY <1>1, <2>1, <2>2, <2>3, Fixed DEF ReadOK, Before, Unclean
  <2> QED BY <1>1, <1>2, <2>2, <2>4, ReadsRight
<1> QED BY <1>3, <1>4

\* A step of one who has not begun, or who has nothing to mend.
LEMMA GoesOn ==
    ASSUME CachesInv, ApartInv, NEW r \in REQUESTS, apart', UNCHANGED <<table, caches>>,
           at[r] \notin Ends, NEW place, Goto(r, place),
           \A s \in REQUESTS \ {r} : got'[s] = got[s],
           at[r] \in {"new", "joining", "asking"},
           \/ place \in {"travels", "shown", "refused", "done"}
           \/ place = "selecting" /\ at[r] = "asking" /\ got' = got
           \/ place = "asking" /\ at[r] = "new" /\ Kind(r) # "detail"
    PROVE  ApartInv'
<1>1. Begins(r) /\ at'[r] = place
  BY StepBegins
<1>2. ~Unclean(r) /\ ~Handing(r) /\ \A u : ~ListUnclean(r, u)
  BY DEF Unclean, Handing, ListUnclean, Making
<1>3. Moves(r) /\ ReadOK(r)
  BY <1>1 DEF Begins
<1>4. ~Unclean(r)'
  BY <1>1 DEF Unclean
<1>5. ReadOK(r)'
  <2>1. CASE place \in {"travels", "shown", "refused", "done"}
    BY <1>1, <2>1 DEF ReadOK, Before
  <2>2. CASE place = "selecting" /\ at[r] = "asking" /\ got' = got
    <3>1. \A p : Sent(p)' = Sent(p)
      BY SentStays
    <3> QED BY <1>1, <1>3, <2>2, <3>1, Fixed DEF ReadOK, Before
  <2>3. CASE place = "asking" /\ at[r] = "new" /\ Kind(r) # "detail"
    <3>1. \A p \in PROCESSES : Sent(p)' = {}
      BY <1>1, <2>3, SentStays DEF Begins
    <3> QED BY <1>1, <1>3, <2>3, <3>1, Fixed DEF ReadOK
  <2> QED BY <2>1, <2>2, <2>3
<1> QED BY <1>1, <1>2, <1>4, <1>5, ReadsRight

\* Finding one's list of travels in the cache, or not.
LEMMA ReadListApart ==
    ASSUME CachesInv, ApartInv, NEW r \in REQUESTS, ReadList(r), apart' PROVE ApartInv'
<1>1. /\ at[r] = "new" /\ UNCHANGED <<table, caches>>
      /\ Bring(r, "shown", travels[Caller(r)].view, FALSE) \/ Go(r, "travels")
  BY DEF ReadList
<1>2. \E place \in {"shown", "travels"} : Goto(r, place) /\ \A s \in REQUESTS \ {r} : got'[s] = got[s]
  BY <1>1, Takes
<1> QED BY <1>1, <1>2, GoesOn DEF Ends

\* Finding the invite of the travel.
LEMMA FindInviteApart ==
    ASSUME CachesInv, ApartInv, NEW r \in REQUESTS, FindInvite(r), apart' PROVE ApartInv'
<1>1. /\ at[r] = "new" /\ Kind(r) = "join" /\ UNCHANGED <<table, caches>>
      /\ \E place \in {"asking", "refused"} : Go(r, place)
  BY DEF FindInvite
<1>2. \E place \in {"asking", "refused"} : Goto(r, place) /\ got' = got
  BY <1>1, Takes
<1> QED BY <1>1, <1>2, GoesOn DEF Ends

\* A change that is refused.
LEMMA RefusedChangeApart ==
    ASSUME CachesInv, ApartInv, NEW r \in REQUESTS, Change(r), ~Allowed(r), apart' PROVE ApartInv'
<1>1. /\ at[r] \in {"new", "joining"} /\ Go(r, "refused") /\ UNCHANGED <<table, caches>>
  BY DEF Change
<1>2. Goto(r, "refused") /\ got' = got
  BY <1>1, Takes
<1> QED BY <1>1, <1>2, GoesOn DEF Ends

\* What tells that a user is a member, or not.
LEMMA MemberIs ==
    \A u, yes : /\ Member(u, yes).kind = (IF yes THEN "yes" ELSE "no") /\ Member(u, yes).user = u
                /\ ItemRight(Member(u, yes))
                /\ yes \in BOOLEAN => (AnswerRight(Member(u, yes)) <=> (yes <=> u \in table.in))
BY DEF Member, Item, ItemRight, AnswerRight

\* Whoever decides by an answer that is right where there is one process leaves it so.
LEMMA DecideApart ==
    ASSUME CachesInv, ApartInv, NEW r \in REQUESTS, at[r] \in {"asking", "selected"}, apart',
           NEW yes \in BOOLEAN, NEW mem, NEW items, Decide(r, yes, mem, items),
           items \subseteq {Member(Caller(r), yes)},
           mem \in [PROCESSES -> [USERS -> Answer]],
           OneProcess => /\ yes <=> Caller(r) \in table.in
                         /\ \A u \in USERS : \/ mem[Here(r)][u] = memory[Here(r)][u]
                                             \/ mem[Here(r)][u].yes <=> u \in table.in
    PROVE  ApartInv'
<1> DEFINE u == Caller(r)
           shown == yes /\ Kind(r) = "detail" /\ got[r].hit
           sent == IF shown THEN items \cup {Member(u, TRUE)} ELSE items
<1>1. /\ IF Kind(r) = "join"
         THEN IF yes THEN Bring(r, "refused", Absent, FALSE) ELSE Go(r, "joining")
         ELSE IF ~yes THEN Bring(r, "refused", Absent, FALSE)
         ELSE IF got[r].hit THEN Go(r, "shown") ELSE Go(r, "summary")
      /\ memory' = IF shown THEN Remember(mem, r, u, TRUE) ELSE mem
      /\ IF sent = {} THEN UNCHANGED late ELSE Send(Here(r), sent)
      /\ UNCHANGED <<table, detail, travels, roster, shared>>
  BY DEF Decide, views
<1>2. Kind(r) \in {"detail", "join"} /\ Types /\ u \in USERS /\ Here(r) \in PROCESSES
  BY Known DEF RequestOK, Paced, Before
<1>3. PICK place \in {"refused", "joining", "shown", "summary"} :
         /\ Goto(r, place) /\ \A s \in REQUESTS \ {r} : got'[s] = got[s]
         /\ place = "joining" => Kind(r) = "join" /\ ~yes
         /\ place = "summary" => Kind(r) = "detail"
  BY <1>1, <1>2, Takes
<1>4. Begins(r) /\ at'[r] = place
  BY <1>1, <1>3, StepBegins DEF Ends
<1>5. Alone(r) /\ AllRight /\ Moves(r) /\ ReadOK(r)
  BY <1>4 DEF Begins
<1>6. \/ late' = late /\ sent = {}
      \/ late' = [late EXCEPT ![Here(r)] = Append(@, [items |-> sent, sent |-> now])]
  BY <1>1 DEF Send
<1>7. \A i \in sent : /\ ItemRight(i) /\ i.kind \in {"yes", "no"}
                      /\ OneProcess => AnswerRight(i)
  <2>1. \A i \in sent : i = Member(u, yes) \/ (i = Member(u, TRUE) /\ yes)
    OBVIOUS
  <2>2. \A b \in BOOLEAN : ItemRight(Member(u, b)) /\ Member(u, b).kind \in {"yes", "no"}
    BY MemberIs
  <2>3. \A b \in BOOLEAN : (b <=> u \in table.in) => AnswerRight(Member(u, b))
    BY MemberIs
  <2>4. OneProcess => AnswerRight(Member(u, yes)) /\ (yes => AnswerRight(Member(u, TRUE)))
    BY <2>3
  <2> HIDE DEF sent
  <2> QED BY <2>1, <2>2, <2>4
<1>8. ~Unclean(r) /\ ~Handing(r) /\ \A v : ~ListUnclean(r, v)
  BY DEF Unclean, Handing, ListUnclean, Making
<1>9. ~Unclean(r)'
  BY <1>4 DEF Unclean
<1>10. ReadOK(r)'
  <2>1. CASE place \in {"refused", "shown"}
    BY <1>4, <2>1, NothingLeft DEF Ends
  <2>2. CASE place = "summary"
    BY <1>3, <1>4, <1>5, <2>2, Fixed DEF ReadOK, Before
  <2>3. CASE place = "joining"
    <3>1. \A p \in PROCESSES : \A i \in Sent(p) : i.kind \in {"yes", "no"}
      BY <1>3, <1>5, <2>3 DEF ReadOK, Before
    <3>2. PICK h \in PROCESSES : h = Here(r)
      BY <1>2
    <3>3. \/ late' = late /\ sent = {}
          \/ late' = [late EXCEPT ![h] = Append(@, [items |-> sent, sent |-> now])]
      BY <1>6, <3>2
    <3> HIDE DEF sent
    <3>4. \A p \in PROCESSES : \A i \in Sent(p)' : i \in Sent(p) \/ i \in sent
      BY <1>2, <3>3, SentGrows
    <3>5. \A p \in PROCESSES : \A i \in Sent(p)' : i.kind \in {"yes", "no"}
      BY <1>7, <3>1, <3>4
    <3> QED BY <1>3, <1>4, <1>5, <2>3, <3>5, Fixed DEF ReadOK, Before
  <2> QED BY <2>1, <2>2, <2>3
<1>11. OneProcess => \A v \in USERS : \/ memory'[Here(r)][v] = memory[Here(r)][v]
                                      \/ memory'[Here(r)][v].yes <=> v \in table.in
  <2>1. CASE shown
    <3> DEFINE a == [yes |-> TRUE, until |-> now + MemoryLife]
    <3>1. memory' = [mem EXCEPT ![Here(r)] = [mem[Here(r)] EXCEPT ![u] = a]] /\ a.yes
      BY <1>1, <2>1 DEF Remember
    <3> HIDE DEF a
    <3>2. memory'[Here(r)] = [mem[Here(r)] EXCEPT ![u] = a] /\ mem[Here(r)] \in [USERS -> Answer]
      BY <1>2, <3>1
    <3>3. \A v \in USERS : memory'[Here(r)][v] = IF v = u THEN a ELSE mem[Here(r)][v]
      BY <1>2, <3>2
    <3> QED BY <2>1, <3>1, <3>3
  <2>2. CASE ~shown
    BY <1>1, <2>2
  <2> QED BY <2>1, <2>2
<1> HIDE DEF sent
<1> QED BY <1>1, <1>5, <1>6, <1>7, <1>8, <1>9, <1>10, <1>11, WritesRight

\* Where there is one process, what is remembered and cached of members is right.
LEMMA AnswersKnown ==
    ASSUME NEW r \in REQUESTS, Begins(r), ~Unclean(r), OneProcess, NEW u \in USERS
    PROVE  /\ now <= memory[Here(r)][u].until => (memory[Here(r)][u].yes <=> u \in table.in)
           /\ now <= shared[u].until => (shared[u].yes <=> u \in table.in)
<1>1. \A s \in REQUESTS : ~Unclean(s)
  BY NothingLeft DEF Begins, Alone
<1> QED BY <1>1 DEF Begins, AllRight, AnswersRight

\* Deciding by what the process remembers.
LEMMA RememberMemberApart ==
    ASSUME CachesInv, ApartInv, NEW r \in REQUESTS, RememberMember(r), apart' PROVE ApartInv'
<1> DEFINE yes == got[r].yes
           u == Caller(r)
           mem == Remember(memory, r, u, yes)
<1>1. at[r] = "selected" /\ Decide(r, yes, mem, {Member(u, yes)})
  BY DEF RememberMember
<1>2. /\ u \in USERS /\ Here(r) \in PROCESSES /\ got[r] \in Carried
      /\ memory \in [PROCESSES -> [USERS -> Answer]] /\ now \in Nat
  BY Known DEF Types, MemberTypes, HistoryTypes
<1>3. yes \in BOOLEAN
  BY <1>2 DEF Carried
<1>4. apart
  BY <1>1, Takes DEF Decide, Goto, Go, Bring
<1>5. yes <=> u \in table.in
  BY <1>1, <1>4 DEF ApartInv, ReadOK
<1> DEFINE a == [yes |-> yes, until |-> now + MemoryLife]
<1>6. a \in Answer /\ a.yes = yes
  BY <1>2, <1>3, Constants DEF MemoryLife, Answer
<1>7. mem = [memory EXCEPT ![Here(r)] = [memory[Here(r)] EXCEPT ![u] = a]]
  BY DEF Remember
<1> HIDE DEF a, mem
<1>8. /\ mem \in [PROCESSES -> [USERS -> Answer]]
      /\ \A v \in USERS : mem[Here(r)][v] = IF v = u THEN a ELSE memory[Here(r)][v]
  <2>1. [memory[Here(r)] EXCEPT ![u] = a] \in [USERS -> Answer]
    BY <1>2, <1>6
  <2>2. mem \in [PROCESSES -> [USERS -> Answer]] /\ mem[Here(r)] = [memory[Here(r)] EXCEPT ![u] = a]
    BY <1>2, <1>7, <2>1
  <2> QED BY <1>2, <2>1, <2>2
<1>9. \A v \in USERS : mem[Here(r)][v] = memory[Here(r)][v] \/ (mem[Here(r)][v].yes <=> v \in table.in)
  BY <1>5, <1>6, <1>8
<1> QED BY <1>1, <1>3, <1>5, <1>8, <1>9, DecideApart

\* Deciding by the shared cache, or by the database.
LEMMA AskMemberApart ==
    ASSUME CachesInv, ApartInv, NEW r \in REQUESTS, AskMember(r), apart' PROVE ApartInv'
<1> DEFINE u == Caller(r)
<1>1. at[r] = "asking"
  BY DEF AskMember
<1>2. /\ u \in USERS /\ Here(r) \in PROCESSES /\ now \in Nat
      /\ memory \in [PROCESSES -> [USERS -> Answer]] /\ shared \in [USERS -> Answer]
  BY Known DEF Types, MemberTypes, HistoryTypes
<1>3. memory[Here(r)][u].yes \in BOOLEAN /\ shared[u].yes \in BOOLEAN
  BY <1>2 DEF Answer
<1>4. OneProcess /\ apart =>
         /\ now <= memory[Here(r)][u].until => (memory[Here(r)][u].yes <=> u \in table.in)
         /\ now <= shared[u].until => (shared[u].yes <=> u \in table.in)
  <2> SUFFICES ASSUME OneProcess, apart
               PROVE  /\ now <= memory[Here(r)][u].until => (memory[Here(r)][u].yes <=> u \in table.in)
                      /\ now <= shared[u].until => (shared[u].yes <=> u \in table.in)
    OBVIOUS
  <2>1. AllRight /\ OneAtATime
    BY DEF ApartInv
  <2>2. Active(r) /\ ~Unclean(r)
    BY <1>1 DEF Active, Ends, Unclean
  <2>3. \A s \in REQUESTS \ {r} : ~Unclean(s)
    BY <2>1, <2>2, NothingLeft DEF OneAtATime, Active
  <2> QED BY <1>2, <2>1, <2>2, <2>3 DEF AllRight, AnswersRight
<1>5. ASSUME NEW yes, NEW mem, NEW items, Decide(r, yes, mem, items)
      PROVE  apart
  BY <1>5 DEF Decide, Go, Bring, Goto
<1>6. CASE Remembered(r, u) /\ Decide(r, memory[Here(r)][u].yes, memory, {})
  <2>1. OneProcess => (memory[Here(r)][u].yes <=> u \in table.in)
    BY <1>4, <1>5, <1>6 DEF Remembered
  <2> QED BY <1>1, <1>2, <1>3, <1>6, <2>1, DecideApart
<1>7. ASSUME now <= shared[u].until, NEW mem,
             mem = [memory EXCEPT ![Here(r)][u] = [yes |-> shared[u].yes, until |-> now + RefillLife]],
             Decide(r, shared[u].yes, mem, {})
      PROVE  ApartInv'
  <2> DEFINE a == [yes |-> shared[u].yes, until |-> now + RefillLife]
  <2>1. OneProcess => (shared[u].yes <=> u \in table.in)
    BY <1>4, <1>5, <1>7
  <2>2. a \in Answer /\ a.yes = shared[u].yes
    BY <1>2, <1>3, Constants DEF RefillLife, Answer
  <2>3. mem = [memory EXCEPT ![Here(r)] = [memory[Here(r)] EXCEPT ![u] = a]]
    BY <1>7
  <2> HIDE DEF a
  <2>4. [memory[Here(r)] EXCEPT ![u] = a] \in [USERS -> Answer]
    BY <1>2, <2>2
  <2>5. mem \in [PROCESSES -> [USERS -> Answer]] /\ mem[Here(r)] = [memory[Here(r)] EXCEPT ![u] = a]
    BY <1>2, <2>3, <2>4
  <2>6. \A v \in USERS : mem[Here(r)][v] = IF v = u THEN a ELSE memory[Here(r)][v]
    BY <1>2, <2>5
  <2>7. OneProcess => \A v \in USERS : \/ mem[Here(r)][v] = memory[Here(r)][v]
                                       \/ mem[Here(r)][v].yes <=> v \in table.in
    BY <2>1, <2>2, <2>6
  <2>8. PICK yes \in BOOLEAN : yes = shared[u].yes
    BY <1>3
  <2>9. /\ Decide(r, yes, mem, {}) /\ {} \subseteq {Member(Caller(r), yes)}
        /\ OneProcess => /\ yes <=> Caller(r) \in table.in
                         /\ \A v \in USERS : \/ mem[Here(r)][v] = memory[Here(r)][v]
                                             \/ mem[Here(r)][v].yes <=> v \in table.in
    BY <1>7, <2>1, <2>7, <2>8
  <2> QED BY <1>1, <2>5, <2>9, DecideApart
<1>8. CASE Go(r, "selecting") /\ UNCHANGED <<table, caches, since, admitted>>
  <2>1. Goto(r, "selecting") /\ got' = got
    BY <1>8, Takes
  <2> QED BY <1>1, <1>8, <2>1, GoesOn DEF Ends
<1> QED BY <1>6, <1>7, <1>8 DEF AskMember

\* A new detail and what is written with it are right.
LEMMA SetDetailApart ==
    ASSUME CachesInv, NEW r \in REQUESTS, Begins(r), at[r] = "loaded", Kind(r) # "list",
           NEW more \in SUBSET Both(r), SetDetail(r, more),
           UNCHANGED <<detail, travels, roster, shared>>, ReadOK(r)', ~Unclean(r)',
           \A u \in USERS : ListUnclean(r, u) => ListUnclean(r, u)'
    PROVE  ApartInv'
<1> DEFINE list == got[r].view.list
           d == Item("detail", NoOne, got[r].view)
           m == Item("roster", NoOne, list)
           items == {d} \cup more \cup {Member(u, TRUE) : u \in list.in}
<1>1. /\ Alone(r) /\ AllRight /\ Moves(r) /\ ReadOK(r)
      /\ Here(r) \in PROCESSES /\ now \in Nat /\ TableTypes
      /\ memory \in [PROCESSES -> [USERS -> Answer]]
  BY Known DEF Begins, Types, MemberTypes, HistoryTypes
<1>2. got[r].view = Right /\ list = table /\ There
  <2>1. got[r].view = Right /\ Who(r) \in table.in
    BY <1>1 DEF ReadOK
  <2> QED BY <1>1, <2>1, ThereIsOwner
<1>3. /\ late' = [late EXCEPT ![Here(r)] = Append(@, [items |-> items, sent |-> now])]
      /\ memory' = [memory EXCEPT ![Here(r)] = [u \in USERS |->
                       IF u \in list.in THEN [yes |-> TRUE, until |-> now + MemoryLife] ELSE @[u]]]
  BY DEF SetDetail, Send
<1>4. \A i \in items : i = d \/ i = m \/ \E u \in table.in : i = Member(u, TRUE)
  BY <1>2 DEF Both
<1>5. d.kind = "detail" /\ d.view = Right /\ m.kind = "roster" /\ m.view = table
  BY <1>2 DEF Item
<1>6. ItemRight(d) /\ ItemRight(m) /\ AnswerRight(d) /\ AnswerRight(m)
  BY <1>2, <1>5 DEF ItemRight, AnswerRight
<1>7. \A u \in table.in : ItemRight(Member(u, TRUE)) /\ AnswerRight(Member(u, TRUE))
  BY MemberIs
<1>8. \A i \in items : ItemRight(i) /\ AnswerRight(i)
  BY <1>4, <1>6, <1>7
<1>9. \E i \in items : i.kind = "detail"
  BY <1>5
<1>10. \A u \in USERS : \/ memory'[Here(r)][u] = memory[Here(r)][u]
                        \/ memory'[Here(r)][u].yes <=> u \in table.in
  <2> DEFINE a == [yes |-> TRUE, until |-> now + MemoryLife]
             h == memory[Here(r)]
  <2>1. a.yes
    OBVIOUS
  <2>2. memory' = [memory EXCEPT ![Here(r)] = [u \in USERS |-> IF u \in list.in THEN a ELSE h[u]]]
    BY <1>3
  <2> HIDE DEF a
  <2>3. memory'[Here(r)] = [u \in USERS |-> IF u \in list.in THEN a ELSE h[u]]
    BY <1>1, <2>2
  <2> QED BY <1>2, <2>1, <2>3
<1>11. ~Unclean(r)
  BY DEF Unclean
<1> HIDE DEF items
<1> QED BY <1>1, <1>3, <1>8, <1>9, <1>10, <1>11, WritesRight

\* Showing a detail that was put together, and writing it to the caches.
LEMMA ShowDetailApart ==
    ASSUME CachesInv, ApartInv, NEW r \in REQUESTS, ShowDetail(r), apart' PROVE ApartInv'
<1>1. /\ at[r] = "loaded" /\ Kind(r) \in {"detail", "join"}
      /\ \E more \in SUBSET Both(r) : SetDetail(r, more)
      /\ UNCHANGED <<table, detail, travels, roster, shared>>
  BY DEF ShowDetail, Loaded, views
<1>2. \E place \in {"done", "shown"} : Goto(r, place) /\ \A s \in REQUESTS \ {r} : got'[s] = got[s]
  <2>1. Bring(r, "done", Absent, FALSE) \/ Go(r, "shown")
    BY DEF ShowDetail
  <2> QED BY <2>1, Takes
<1>3. Begins(r) /\ at'[r] \in {"done", "shown"}
  BY <1>1, <1>2, StepBegins DEF Ends
<1>4. ReadOK(r)' /\ ~Unclean(r)'
  BY <1>3, NothingLeft DEF Ends
<1>5. \A u : ~ListUnclean(r, u)
  BY <1>1 DEF ListUnclean, Handing
<1> QED BY <1>1, <1>3, <1>4, <1>5, SetDetailApart

\* Writing the detail anew after a transfer.
LEMMA ReplaceDetailApart ==
    ASSUME CachesInv, ApartInv, NEW r \in REQUESTS, ReplaceDetail(r), apart' PROVE ApartInv'
<1>1. /\ at[r] = "loaded" /\ Kind(r) = "transfer" /\ SetDetail(r, Fresh(r)) /\ Go(r, "listing")
      /\ UNCHANGED <<table, detail, travels, roster, shared>>
  BY DEF ReplaceDetail, Loaded, views
<1>2. Fresh(r) \in SUBSET Both(r)
  BY DEF Fresh, Both
<1>3. Goto(r, "listing") /\ got' = got
  BY <1>1, Takes
<1>4. Begins(r) /\ at'[r] = "listing"
  BY <1>1, <1>3, StepBegins DEF Ends
<1>5. ReadOK(r) /\ Moves(r)
  BY <1>4 DEF Begins
<1>6. ReadOK(r)' /\ ~Unclean(r)'
  BY <1>1, <1>4, <1>5, Fixed DEF ReadOK, Before, Unclean
<1>7. \A u : ListUnclean(r, u) => ListUnclean(r, u)'
  BY <1>1, <1>4, <1>5, Fixed DEF ListUnclean
<1> QED BY <1>1, <1>2, <1>4, <1>6, <1>7, SetDetailApart

\* A detail in the cache has somebody in it, so it is never filled.
LEMMA FillDetailApart ==
    ASSUME CachesInv, ApartInv, NEW r \in REQUESTS, FillDetail(r), apart' PROVE ApartInv'
<1>1. /\ at[r] = "loaded" /\ Kind(r) = "detail" /\ got[r].hit /\ Go(r, "asking") /\ table' = table
  BY DEF FillDetail, Loaded
<1>2. Goto(r, "asking") /\ got' = got
  BY <1>1, Takes
<1>3. Begins(r)
  BY <1>1, <1>2, StepBegins DEF Ends
<1>4. Who(r) \in table.in
  BY <1>1, <1>3 DEF Begins, ReadOK
<1>5. There /\ RequestOK(r)
  BY <1>4, Known, ThereIsOwner DEF Types
<1>6. ~got[r].hit
  BY <1>1, <1>5 DEF RequestOK, DetailRead
<1> QED BY <1>1, <1>6

\* Showing a list of travels, and writing it to the caches.
LEMMA ShowListApart ==
    ASSUME CachesInv, ApartInv, NEW r \in REQUESTS, ShowList(r), apart' PROVE ApartInv'
<1> DEFINE l == Item("travels", Caller(r), got[r].view)
           m == Item("roster", NoOne, got[r].view.list)
           items == {l} \cup Fresh(r)
<1>1. /\ at[r] = "loaded" /\ Kind(r) = "list" /\ Go(r, "shown")
      /\ late' = [late EXCEPT ![Here(r)] = Append(@, [items |-> items, sent |-> now])]
      /\ UNCHANGED <<table, detail, travels, roster, shared, memory>>
  BY DEF ShowList, Loaded, views, members, Send
<1>2. Goto(r, "shown") /\ got' = got
  BY <1>1, Takes
<1>3. Begins(r) /\ at'[r] = "shown"
  BY <1>1, <1>2, StepBegins DEF Ends
<1>4. Alone(r) /\ AllRight /\ Moves(r) /\ ReadOK(r)
  BY <1>3 DEF Begins
<1>5. got[r].view = Shows(Caller(r)) /\ (got[r].yes => got[r].view.list = table /\ There)
  BY <1>1, <1>4 DEF ReadOK
<1>6. ItemRight(l) /\ AnswerRight(l)
  BY <1>5 DEF ItemRight, AnswerRight, Item
<1>7. got[r].yes => ItemRight(m) /\ AnswerRight(m)
  BY <1>5 DEF ItemRight, AnswerRight, Item
<1>8. \A i \in items : ItemRight(i) /\ AnswerRight(i)
  BY <1>6, <1>7 DEF Fresh
<1>9. ReadOK(r)' /\ ~Unclean(r)'
  BY <1>3, NothingLeft DEF Ends
<1>10. ~Unclean(r) /\ ~Handing(r) /\ \A u : ~ListUnclean(r, u)
  BY <1>1 DEF Unclean, Handing, ListUnclean
<1> HIDE DEF items
<1> QED BY <1>1, <1>4, <1>8, <1>9, <1>10, WritesRight

\* Finding the detail in the cache, or not.
LEMMA ReadDetailApart ==
    ASSUME CachesInv, ApartInv, NEW r \in REQUESTS, ReadDetail(r), apart' PROVE ApartInv'
<1> DEFINE u == Caller(r)
           view == detail.view
<1>1. /\ Kind(r) = "detail" /\ at[r] = "new" /\ UNCHANGED <<table, detail, travels, roster, shared>>
      /\ \/ /\ now <= detail.until /\ u \in view.list.in
            /\ Bring(r, "shown", view, TRUE)
            /\ memory' = Remember(memory, r, u, TRUE)
            /\ Send(Here(r), {Member(u, TRUE)})
         \/ /\ now <= detail.until
            /\ Bring(r, IF view.list.in = {} THEN "loading" ELSE "asking", view, TRUE)
            /\ UNCHANGED <<memory, late>>
         \/ Bring(r, "asking", Absent, FALSE) /\ UNCHANGED <<memory, late>>
  BY DEF ReadDetail, views
<1>2. /\ TableTypes /\ u \in USERS /\ Here(r) \in PROCESSES /\ now \in Nat
      /\ memory \in [PROCESSES -> [USERS -> Answer]]
  BY Known DEF Types, MemberTypes, HistoryTypes
<1>3. ASSUME NEW place, NEW v, NEW hit, Bring(r, place, v, hit)
      PROVE  /\ Begins(r) /\ at'[r] = place /\ got'[r].view = v /\ got'[r].hit = hit
             /\ Alone(r) /\ AllRight /\ Moves(r) /\ ReadOK(r)
             /\ now <= detail.until => There /\ view = Right /\ view.list.in # {} /\ view.list = table
  <2>1. /\ Goto(r, place) /\ got'[r].view = v /\ got'[r].hit = hit
        /\ \A s \in REQUESTS \ {r} : got'[s] = got[s]
    BY <1>3, Takes
  <2>2. Begins(r) /\ at'[r] = place
    BY <1>1, <2>1, StepBegins DEF Ends
  <2>3. ~Handing(r) /\ at[r] # "dropping"
    BY <1>1 DEF Handing
  <2>4. now <= detail.until => There /\ view = Right
    BY <1>1, <2>2, <2>3, CachedRight
  <2>5. There => Right.list = table /\ table.in # {}
    BY <1>2, ThereIsOwner
  <2> QED BY <2>1, <2>2, <2>4, <2>5 DEF Begins
<1>4. ~Unclean(r) /\ ~Handing(r) /\ \A v : ~ListUnclean(r, v)
  BY <1>1 DEF Unclean, Handing, ListUnclean, Making
<1>5. CASE /\ now <= detail.until /\ u \in view.list.in /\ Bring(r, "shown", view, TRUE)
           /\ memory' = Remember(memory, r, u, TRUE) /\ Send(Here(r), {Member(u, TRUE)})
  <2>1. /\ at'[r] = "shown" /\ Alone(r) /\ AllRight /\ Moves(r) /\ view.list = table
    BY <1>3, <1>5
  <2>2. ReadOK(r)' /\ ~Unclean(r)'
    BY <2>1, NothingLeft DEF Ends
  <2>3. late' = [late EXCEPT ![Here(r)] = Append(@, [items |-> {Member(u, TRUE)}, sent |-> now])]
    BY <1>5 DEF Send
  <2>4. u \in table.in
    BY <1>5, <2>1
  <2>5. ItemRight(Member(u, TRUE)) /\ AnswerRight(Member(u, TRUE))
    BY <2>4, MemberIs
  <2> DEFINE a == [yes |-> TRUE, until |-> now + MemoryLife]
             h == memory[Here(r)]
  <2>6. memory' = [memory EXCEPT ![Here(r)] = [memory[Here(r)] EXCEPT ![u] = a]] /\ a.yes
    BY <1>5 DEF Remember
  <2> HIDE DEF a
  <2>7. memory'[Here(r)] = [memory[Here(r)] EXCEPT ![u] = a] /\ memory[Here(r)] \in [USERS -> Answer]
    BY <1>2, <2>6
  <2>8. \A v \in USERS : memory'[Here(r)][v] = IF v = u THEN a ELSE memory[Here(r)][v]
    BY <1>2, <2>7
  <2>9. \A v \in USERS : \/ memory'[Here(r)][v] = memory[Here(r)][v]
                         \/ memory'[Here(r)][v].yes <=> v \in table.in
    BY <2>4, <2>6, <2>8
  <2>10. PICK items : items = {Member(u, TRUE)}
    OBVIOUS
  <2>11. \A i \in items : ItemRight(i) /\ AnswerRight(i)
    BY <2>5, <2>10
  <2>12. late' = [late EXCEPT ![Here(r)] = Append(@, [items |-> items, sent |-> now])]
    BY <2>3, <2>10
  <2> QED BY <1>1, <1>4, <2>1, <2>2, <2>9, <2>11, <2>12, WritesRight
<1>6. CASE /\ now <= detail.until
           /\ Bring(r, IF view.list.in = {} THEN "loading" ELSE "asking", view, TRUE)
           /\ UNCHANGED <<memory, late>>
  <2>1. /\ at'[r] = (IF view.list.in = {} THEN "loading" ELSE "asking") /\ got'[r].view = view
        /\ Begins(r) /\ Moves(r) /\ There /\ view = Right /\ view.list.in # {}
    BY <1>3, <1>6
  <2>2. at'[r] = "asking"
    BY <2>1
  <2>3. ReadOK(r)' /\ ~Unclean(r)'
    BY <1>1, <2>1, <2>2, Fixed DEF ReadOK, Unclean
  <2>4. UNCHANGED caches
    BY <1>1, <1>6 DEF caches, views, members
  <2> QED BY <1>4, <2>1, <2>3, <2>4, ReadsRight
<1>7. CASE Bring(r, "asking", Absent, FALSE) /\ UNCHANGED <<memory, late>>
  <2>1. /\ at'[r] = "asking" /\ ~got'[r].hit /\ Begins(r) /\ Moves(r)
    BY <1>3, <1>7
  <2>2. ReadOK(r)' /\ ~Unclean(r)'
    BY <1>1, <2>1, Fixed DEF ReadOK, Unclean
  <2>3. UNCHANGED caches
    BY <1>1, <1>7 DEF caches, views, members
  <2> QED BY <1>4, <2>1, <2>2, <2>3, ReadsRight
<1> QED BY <1>1, <1>5, <1>6, <1>7

\* The lists of the members are dropped on the way; they include all that are wrong.
LEMMA DropAfterTransfer ==
    ASSUME CachesInv, ApartInv, NEW r \in REQUESTS, DropMembersLists(r), Kind(r) = "transfer", apart'
    PROVE  ApartInv'
<1> DEFINE items == {Item("drop", u, Absent) : u \in table.in}
<1>1. /\ at[r] = "listing" /\ Bring(r, "done", Absent, FALSE)
      /\ late' = [late EXCEPT ![Here(r)] = Append(@, [items |-> items, sent |-> now])]
      /\ UNCHANGED <<table, detail, travels, roster, shared, memory>>
  BY DEF DropMembersLists, members, Send, MembersLists
<1>2. Goto(r, "done") /\ \A s \in REQUESTS \ {r} : got'[s] = got[s]
  BY <1>1, Takes
<1>3. Begins(r) /\ at'[r] = "done"
  BY <1>1, <1>2, StepBegins DEF Ends
<1>4. Alone(r) /\ AllRight /\ Moves(r)
  BY <1>3 DEF Begins
<1>5. \A i \in items : i.kind = "drop"
  BY DEF Item
<1>6. \A i \in items : ItemRight(i) /\ AnswerRight(i)
  BY <1>5 DEF ItemRight, AnswerRight
<1>7. ReadOK(r)' /\ ~Unclean(r)'
  BY <1>3, NothingLeft DEF Ends
<1>8. ~Unclean(r) /\ ~Handing(r)
  BY <1>1 DEF Unclean, Handing, Making
<1>9. ASSUME NEW u \in USERS, ListUnclean(r, u) PROVE \E i \in items : i.kind = "drop" /\ i.user = u
  <2>1. u \in table.in
    BY <1>1, <1>9 DEF ListUnclean
  <2>2. Item("drop", u, Absent).user = u /\ Item("drop", u, Absent).kind = "drop"
    BY DEF Item
  <2> QED BY <2>1, <2>2
<1> HIDE DEF items
<1>10. \A u \in USERS : ListUnclean(r, u) => \E i \in items : i.kind = "drop" /\ i.user = u
  BY <1>9
<1>11. \A u \in USERS : memory'[Here(r)][u] = memory[Here(r)][u]
  BY <1>1
<1>12. \A i \in items : ItemRight(i)
  BY <1>6
<1>13. OneProcess => /\ \A i \in items : AnswerRight(i)
                     /\ \A u \in USERS : \/ memory'[Here(r)][u] = memory[Here(r)][u]
                                         \/ memory'[Here(r)][u].yes <=> u \in table.in
  BY <1>6, <1>11
<1>14. \A u \in USERS : ListUnclean(r, u) =>
          ListUnclean(r, u)' \/ \E i \in items : i.kind = "drop" /\ i.user = u
  BY <1>10
<1>15. UNCHANGED <<detail, travels, roster, shared>>
  BY <1>1
<1>16. late' = [late EXCEPT ![Here(r)] = Append(@, [items |-> items, sent |-> now])]
  BY <1>1
<1> QED BY <1>4, <1>7, <1>8, <1>12, <1>13, <1>14, <1>15, <1>16, WritesRight

\* A change drops: nothing is on its way, and what it leaves is right.
LEMMA MendsRight ==
    ASSUME CachesInv, NEW r \in REQUESTS, Alone(r), job' = job, \A s \in REQUESTS \ {r} : at'[s] = at[s],
           NEW items, \A i \in items : i.kind \in {"yes", "no"},
           \A p \in PROCESSES : p # Here(r) => late'[p] = late[p],
           \A p \in PROCESSES : \A i \in Sent(p)' : i \in items,
           ReadOK(r)', DetailRight', RosterRight', \A u \in USERS : ListRight(u)', AnswersRight'
    PROVE  ApartInv'
<1>1. /\ OneAtATime' /\ \A s \in REQUESTS : ReadOK(s)'
  BY StaysAlone
<1>2. SentRight'
  <2>1. \A p \in PROCESSES : \A i \in Sent(p)' : ItemRight(i)'
    BY DEF ItemRight
  <2> QED BY <2>1 DEF SentRight
<1> QED BY <1>1, <1>2 DEF ApartInv, AllRight

\* Nothing is on its way when it is waited for.
LEMMA NothingSent ==
    ASSUME NEW r \in REQUESTS, Alone(r), InOrder(r)
    PROVE  \A p \in PROCESSES : late[p] = <<>> /\ Sent(p) = {}
BY SentNothing DEF Alone, InOrder

\* What is left of the lists is right when the wrong ones are dropped or about to be.
LEMMA ListsLeft ==
    ASSUME CachesInv, NEW r \in REQUESTS, Begins(r), InOrder(r), NEW gone, DropLists(gone),
           NEW u \in USERS, ListUnclean(r, u) => u \in gone \/ ListUnclean(r, u)'
    PROVE  ListRight(u)'
<1>1. /\ now \in Nat /\ Moves(r) /\ Alone(r) /\ ListRight(u)
  BY Known DEF HistoryTypes, Begins, AllRight
<1>2. /\ \A p \in PROCESSES : Sent(p) = {}
      /\ \A s \in REQUESTS \ {r} : ~ListUnclean(s, u)
  BY <1>1, NothingSent, NothingLeft DEF Alone
<1>3. travels'[u] = IF u \in gone THEN NoView ELSE travels[u]
  BY DEF DropLists
<1>4. now' = now /\ Shows(u)' = Shows(u)
  BY <1>1, Fixed
<1>5. CASE u \in gone
  <2>1. travels'[u].until = -1
    BY <1>3, <1>5 DEF NoView
  <2> QED BY <1>1, <1>4, <2>1 DEF ListRight
<1>6. CASE ListUnclean(r, u)'
  BY <1>6 DEF ListRight
<1>7. CASE u \notin gone /\ ~ListUnclean(r, u)
  <2>1. now <= travels[u].until => travels[u].view = Shows(u)
    BY <1>1, <1>2, <1>7 DEF ListRight
  <2> QED BY <1>3, <1>4, <1>7, <2>1 DEF ListRight
<1> QED BY <1>5, <1>6, <1>7

\* The drop of the detail after a change.
LEMMA DropDetailApart ==
    ASSUME CachesInv, ApartInv, NEW r \in REQUESTS, DropDetail(r), apart' PROVE ApartInv'
<1> DEFINE gone == IF Kind(r) = "delete" THEN got[r].view.list.in ELSE {Who(r)}
<1>1. /\ at[r] = "dropping" /\ InOrder(r) /\ DropLists(gone) /\ detail' = NoView
      /\ UNCHANGED <<table, late>> /\ now \in Nat
      /\ Go(r, IF Kind(r) = "delete" THEN "clearing" ELSE "listing")
  BY Known DEF DropDetail, HistoryTypes
<1>2. PICK place \in {"clearing", "listing"} :
         /\ Goto(r, place) /\ got' = got
         /\ place = IF Kind(r) = "delete" THEN "clearing" ELSE "listing"
  BY <1>1, Takes
<1>3. Begins(r) /\ at'[r] = place
  BY <1>1, <1>2, StepBegins DEF Ends
<1>4. Alone(r) /\ Moves(r) /\ ReadOK(r)
  BY <1>3 DEF Begins
<1>5. Kind(r) # "transfer"
  BY <1>1, <1>4 DEF ReadOK
<1>6. ReadOK(r)'
  BY <1>1, <1>2, <1>3, <1>4, Fixed DEF ReadOK, Before
<1>7. Unclean(r)'
  BY <1>2, <1>3, <1>4, <1>5, Fixed DEF Unclean
<1>8. RosterRight' /\ AnswersRight'
  BY <1>7 DEF RosterRight, AnswersRight
<1>9. DetailRight'
  <2>1. detail'.until = -1 /\ now' = now
    BY <1>1, <1>4 DEF NoView, Moves
  <2> QED BY <1>1, <2>1 DEF DetailRight
<1>10. \A u \in USERS : ListUnclean(r, u) => u \in gone \/ ListUnclean(r, u)'
  BY <1>1, <1>2, <1>3, <1>4, <1>5, Fixed DEF ListUnclean, Handing
<1> HIDE DEF gone
<1>11. \A u \in USERS : ListRight(u)'
  BY <1>1, <1>3, <1>10, ListsLeft
<1>12. \A p \in PROCESSES : Sent(p)' = {}
  <2>1. \A p : Sent(p)' = Sent(p)
    BY <1>1 DEF Sent
  <2> QED BY <1>1, <1>4, <2>1, NothingSent
<1>13. /\ job' = job /\ \A s \in REQUESTS \ {r} : at'[s] = at[s]
       /\ \A i \in {} : i.kind \in {"yes", "no"}
       /\ \A p \in PROCESSES : \A i \in Sent(p)' : i \in {}
       /\ \A p \in PROCESSES : late'[p] = late[p]
  BY <1>1, <1>4, <1>12 DEF Moves
<1> QED BY <1>4, <1>6, <1>8, <1>9, <1>11, <1>13, MendsRight

\* The drop of the lists of all members.
LEMMA DropMembersListsApart ==
    ASSUME CachesInv, ApartInv, NEW r \in REQUESTS, DropMembersLists(r), Kind(r) # "transfer", apart'
    PROVE  ApartInv'
<1>1. /\ at[r] = "listing" /\ InOrder(r) /\ DropLists(table.in) /\ Go(r, "clearing")
      /\ UNCHANGED <<table, detail, late>> /\ now \in Nat
  BY Known DEF DropMembersLists, HistoryTypes, MembersLists
<1>2. Goto(r, "clearing") /\ got' = got
  BY <1>1, Takes
<1>3. Begins(r) /\ at'[r] = "clearing"
  BY <1>1, <1>2, StepBegins DEF Ends
<1>4. Alone(r) /\ Moves(r) /\ ReadOK(r) /\ AllRight
  BY <1>3 DEF Begins
<1>5. ReadOK(r)'
  BY <1>1, <1>2, <1>3, <1>4, Fixed DEF ReadOK, Before
<1>6. RosterRight' /\ AnswersRight'
  <2>1. Unclean(r)'
    BY <1>3 DEF Unclean
  <2> QED BY <2>1 DEF RosterRight, AnswersRight
<1>7. \A p \in PROCESSES : Sent(p) = {} /\ Sent(p)' = {}
  <2>1. \A p : Sent(p)' = Sent(p)
    BY <1>1 DEF Sent
  <2> QED BY <1>1, <1>4, <2>1, NothingSent
<1>8. DetailRight'
  <2>1. ~Handing(r) /\ at[r] # "dropping"
    BY <1>1 DEF Handing
  <2>2. \A s \in REQUESTS \ {r} : ~Handing(s) /\ at[s] # "dropping"
    BY <1>4, NothingLeft DEF Alone
  <2>3. now <= detail.until => There /\ detail.view = Right
    BY <1>4, <1>7, <2>1, <2>2 DEF AllRight, DetailRight
  <2> QED BY <1>1, <1>4, <2>3, Fixed DEF DetailRight
<1>9. \A u \in USERS : ListUnclean(r, u) => u \in table.in
  BY <1>1 DEF ListUnclean, Handing
<1>10. \A u \in USERS : ListRight(u)'
  BY <1>1, <1>3, <1>9, ListsLeft
<1>11. /\ job' = job /\ \A s \in REQUESTS \ {r} : at'[s] = at[s]
       /\ \A i \in {} : i.kind \in {"yes", "no"}
       /\ \A p \in PROCESSES : \A i \in Sent(p)' : i \in {}
       /\ \A p \in PROCESSES : late'[p] = late[p]
  BY <1>1, <1>4, <1>7 DEF Moves
<1> QED BY <1>4, <1>5, <1>6, <1>8, <1>10, <1>11, MendsRight

\* The drop of the list of the members, and of the answers.
LEMMA ClearMembersApart ==
    ASSUME CachesInv, ApartInv, NEW r \in REQUESTS, ClearMembers(r), apart' PROVE ApartInv'
<1> DEFINE u == Caller(r)
           none == [memory EXCEPT ![Here(r)] = [v \in USERS |-> NoAnswer]]
           gone == IF Kind(r) = "delete" THEN got[r].view.list.in ELSE {}
           items == IF Kind(r) = "join" THEN {Member(u, TRUE)} ELSE {}
<1>1. /\ at[r] = "clearing" /\ InOrder(r)
      /\ Bring(r, IF Kind(r) \in {"join", "transfer"} THEN "summary" ELSE "done", Absent, FALSE)
      /\ UNCHANGED <<table, detail>> /\ roster' = NoView /\ shared' = [v \in USERS |-> NoAnswer]
      /\ IF Kind(r) = "join"
         THEN memory' = Remember(none, r, u, TRUE) /\ Send(Here(r), {Member(u, TRUE)})
         ELSE memory' = none /\ UNCHANGED late
  BY DEF ClearMembers
<1>2. /\ Types /\ now \in Nat /\ u \in USERS /\ Here(r) \in PROCESSES
      /\ memory \in [PROCESSES -> [USERS -> Answer]] /\ travels \in [USERS -> [view : Views, until : Int]]
  BY Known DEF Types, MemberTypes, ViewTypes, HistoryTypes
<1>3. PICK place \in {"summary", "done"} :
         /\ Bring(r, place, Absent, FALSE)
         /\ place = IF Kind(r) \in {"join", "transfer"} THEN "summary" ELSE "done"
  BY <1>1
<1>4. Goto(r, place) /\ \A s \in REQUESTS \ {r} : got'[s] = got[s]
  BY <1>3, Takes
<1>5. Begins(r) /\ at'[r] = place
  BY <1>1, <1>4, StepBegins DEF Ends
<1>6. Alone(r) /\ Moves(r) /\ ReadOK(r) /\ AllRight
  BY <1>5 DEF Begins
<1>7. Kind(r) = "join" => u \in table.in
  BY <1>1, <1>6 DEF ReadOK, Who
<1>8. ReadOK(r)'
  BY <1>1, <1>3, <1>5, <1>6, Fixed DEF ReadOK, Before
<1>9. \A i \in items : i.kind \in {"yes", "no"} /\ AnswerRight(i)
  <2>1. Kind(r) = "join" => Member(u, TRUE).kind = "yes" /\ AnswerRight(Member(u, TRUE))
    BY <1>7, MemberIs
  <2> QED BY <2>1
<1>10. NoView.until = -1 /\ NoAnswer.until = -1
  BY DEF NoView, NoAnswer
<1>11. DropLists(gone)
  <2>1. CASE Kind(r) = "delete"
    BY <2>1 DEF ClearMembers
  <2>2. CASE Kind(r) # "delete"
    <3>1. UNCHANGED travels
      BY <2>2 DEF ClearMembers
    <3>2. travels' = [v \in USERS |-> travels[v]]
      BY <1>2, <3>1
    <3> QED BY <2>2, <3>2 DEF DropLists
  <2> QED BY <2>1, <2>2
<1>12. /\ \A p \in PROCESSES : p # Here(r) => late'[p] = late[p]
       /\ \A p \in PROCESSES : \A i \in Sent(p)' : i \in items
       /\ \A p \in PROCESSES : Sent(p) = {}
  <2>1. PICK h \in PROCESSES : h = Here(r)
    BY <1>2
  <2>2. \/ late' = late /\ items = {}
        \/ late' = [late EXCEPT ![h] = Append(@, [items |-> items, sent |-> now])]
    BY <1>1, <2>1 DEF Send
  <2>3. \A p \in PROCESSES : Sent(p) = {}
    BY <1>1, <1>6, NothingSent
  <2> HIDE DEF items
  <2>4. \A p \in PROCESSES : /\ p # h => late'[p] = late[p]
                             /\ Sent(p)' = IF p = h THEN Sent(p) \cup items ELSE Sent(p)
    BY <1>2, <2>2, SentGrows
  <2> QED BY <2>1, <2>3, <2>4
<1>13. RosterRight'
  <2>1. now' = now /\ roster'.until = -1
    BY <1>1, <1>6, <1>10 DEF Moves
  <2> QED BY <1>2, <2>1 DEF RosterRight
<1>14. Handing(r) => Handing(r)'
  BY <1>3, <1>5, <1>6, Fixed DEF Handing, Making
<1>15. DetailRight'
  <2>1. \A s \in REQUESTS \ {r} : ~Handing(s) /\ at[s] # "dropping"
    BY <1>6, NothingLeft DEF Alone
  <2>2. now <= detail.until => (There /\ detail.view = Right) \/ Handing(r)
    BY <1>1, <1>6, <1>12, <2>1 DEF AllRight, DetailRight
  <2> QED BY <1>1, <1>6, <1>14, <2>2, Fixed DEF DetailRight
<1>16. \A v \in USERS : ListRight(v)'
  <2>1. \A v \in USERS : ListUnclean(r, v) => ListUnclean(r, v)'
    BY <1>1, <1>5, <1>6, <1>14, Fixed DEF ListUnclean
  <2> HIDE DEF gone
  <2> QED BY <1>1, <1>5, <1>11, <2>1, ListsLeft
<1>17. \A v \in USERS : \/ memory'[Here(r)][v] = NoAnswer
                        \/ memory'[Here(r)][v].yes /\ v \in table.in
  <2>1. none[Here(r)] = [v \in USERS |-> NoAnswer]
    BY <1>2
  <2>2. CASE Kind(r) = "join"
    <3> DEFINE a == [yes |-> TRUE, until |-> now + MemoryLife]
    <3>1. memory' = [none EXCEPT ![Here(r)] = [none[Here(r)] EXCEPT ![u] = a]] /\ a.yes
      BY <1>1, <2>2 DEF Remember
    <3> HIDE DEF a
    <3>2. memory'[Here(r)] = [none[Here(r)] EXCEPT ![u] = a]
      BY <1>2, <3>1
    <3> HIDE DEF none
    <3>3. \A v \in USERS : memory'[Here(r)][v] = IF v = u THEN a ELSE NoAnswer
      BY <1>2, <2>1, <3>2
    <3> QED BY <1>7, <2>2, <3>1, <3>3
  <2>3. CASE Kind(r) # "join"
    BY <1>1, <2>1, <2>3
  <2> QED BY <2>2, <2>3
<1>18. AnswersRight'
  <2>1. SUFFICES ASSUME OneProcess'
                 PROVE  /\ \A v \in USERS : now' <= shared'[v].until => (shared'[v].yes <=> v \in table'.in)
                        /\ \A s \in REQUESTS, v \in USERS :
                              now' <= memory'[Here(s)'][v].until =>
                                  (memory'[Here(s)'][v].yes <=> v \in table'.in)
                        /\ \A p \in PROCESSES : \A i \in Sent(p)' : AnswerRight(i)'
    BY DEF AnswersRight
  <2>2. /\ now' = now /\ table' = table /\ \A s \in REQUESTS : Here(s)' = Here(r)
        /\ \A i : AnswerRight(i) => AnswerRight(i)'
    BY <1>6, <2>1 DEF Moves, OneProcess, Here, AnswerRight
  <2>3. \A v \in USERS : shared'[v].until = -1
    BY <1>1, <1>10
  <2>4. \A s \in REQUESTS, v \in USERS :
           now <= memory'[Here(r)][v].until => (memory'[Here(r)][v].yes <=> v \in table.in)
    BY <1>2, <1>10, <1>17
  <2>5. \A p \in PROCESSES : \A i \in Sent(p)' : AnswerRight(i)'
    BY <1>9, <1>12, <2>2
  <2> QED BY <1>2, <2>2, <2>3, <2>4, <2>5
<1> HIDE DEF items
<1> QED BY <1>6, <1>8, <1>9, <1>12, <1>13, <1>15, <1>16, <1>18, MendsRight DEF Moves

\* A change that is made: whatever it makes wrong is dropped afterwards.
LEMMA ChangeApart ==
    ASSUME CachesInv, ApartInv, NEW r \in REQUESTS, Change(r), Allowed(r), apart' PROVE ApartInv'
<1> DEFINE place == IF Kind(r) = "transfer" THEN "clearing" ELSE "dropping"
<1>1. /\ at[r] = "joining" \/ (at[r] = "new" /\ Kind(r) \in {"leave", "remove", "transfer", "delete"})
      /\ Bring(r, place, View(NoOne, table), FALSE)
      /\ table' = Changed(r) /\ UNCHANGED <<detail, travels, roster, memory, shared, late>>
  BY DEF Change, caches, views, members
<1>2. /\ at[r] = "joining" => Kind(r) = "join"
      /\ TableTypes /\ now \in Nat /\ Who(r) \in USERS
  BY Known DEF RequestOK, Paced, Types, HistoryTypes
<1>3. /\ Goto(r, place) /\ got'[r].view = View(NoOne, table) /\ at'[r] = place
      /\ UNCHANGED <<now, job>> /\ \A s \in REQUESTS \ {r} : at'[s] = at[s] /\ got'[s] = got[s]
  BY <1>1, Takes
<1>4. /\ Alone(r) /\ ReadOK(r) /\ AllRight
      /\ \A s \in REQUESTS \ {r} : \A v : ~ListUnclean(s, v)
      /\ \A p \in PROCESSES : at[r] = "new" => Sent(p) = {}
  BY <1>1, <1>3, ComesAlone DEF Ends
<1>5. Kind(r)' = Kind(r) /\ Who(r)' = Who(r) /\ Caller(r)' = Caller(r)
  BY <1>3 DEF Kind, Who, Caller
<1>6. got'[r].view.list = table
  BY <1>3 DEF View
<1>7. \A p \in PROCESSES : \A i \in Sent(p) : i.kind \in {"yes", "no"}
  BY <1>1, <1>2, <1>4 DEF ReadOK
<1>8. /\ Kind(r) \in {"join", "transfer"} => Who(r) \in table'.in
      /\ \A u \in USERS : u \in table.in \cup table'.in =>
            IF Kind(r) = "delete" THEN u \in table.in ELSE u \in table'.in \cup {Who(r)}
      /\ Kind(r) = "transfer" => table'.in = table.in
  <2>1. table.in \subseteq USERS /\ table \in Roster
    BY <1>2, ThereIsOwner
  <2>2. CASE Kind(r) = "join"
    <3>1. table'.in = table.in \cup {Caller(r)} /\ Who(r) = Caller(r)
      BY <1>1, <2>1, <2>2 DEF Changed, Who, Roster
    <3> QED BY <2>2, <3>1
  <2>3. CASE Kind(r) \in {"leave", "remove"}
    <3>1. table'.in = table.in \ {Who(r)}
      BY <1>1, <2>1, <2>3 DEF Changed, Roster
    <3> QED BY <2>3, <3>1
  <2>4. CASE Kind(r) = "transfer"
    <3>1. table'.in = table.in /\ Who(r) \in table.in
      BY <1>1, <2>1, <2>4 DEF Changed, Roster, Allowed
    <3> QED BY <2>4, <3>1
  <2>5. CASE Kind(r) = "delete"
    <3>1. table'.in = {}
      BY <1>1, <2>5 DEF Changed, NoRoster
    <3> QED BY <2>5, <3>1
  <2> QED BY <1>1, <1>2, <2>2, <2>3, <2>4, <2>5
<1>9. ReadOK(r)'
  BY <1>3, <1>5, <1>8 DEF ReadOK, Before
<1>10. Unclean(r)' /\ (at'[r] = "dropping" \/ Handing(r)')
  BY <1>3, <1>5 DEF Unclean, Handing
<1>11. DetailRight' /\ RosterRight' /\ AnswersRight'
  BY <1>10 DEF DetailRight, RosterRight, AnswersRight
<1>12. ASSUME NEW u \in USERS PROVE ListRight(u)'
  <2>1. CASE u \in table.in \cup table'.in
    <3>1. ListUnclean(r, u)'
      <4>1. CASE Kind(r) = "transfer"
        BY <1>3, <1>5, <1>8, <1>10, <2>1, <4>1 DEF ListUnclean
      <4>2. CASE Kind(r) # "transfer"
        BY <1>3, <1>5, <1>6, <1>8, <2>1, <4>2 DEF ListUnclean
      <4> QED BY <4>1, <4>2
    <3> QED BY <3>1 DEF ListRight
  <2>2. CASE u \notin table.in /\ u \notin table'.in
    <3>1. Shows(u) = Absent /\ Shows(u)' = Absent
      BY <2>2 DEF Shows
    <3>2. ~ListUnclean(r, u)
      BY <1>1 DEF ListUnclean, Handing, Making
    <3>3. \A p \in PROCESSES : \A i \in Sent(p) : i.kind # "drop"
      BY <1>7
    <3>4. now <= travels[u].until => travels[u].view = Shows(u)
      BY <1>4, <3>2, <3>3 DEF AllRight, ListRight
    <3> QED BY <1>1, <1>3, <3>1, <3>4 DEF ListRight
  <2> QED BY <2>1, <2>2
<1>13. PICK items : items = UNION {Sent(p) : p \in PROCESSES}
  OBVIOUS
<1>14. /\ \A i \in items : i.kind \in {"yes", "no"}
       /\ \A p \in PROCESSES : \A i \in Sent(p)' : i \in items
  <2>1. \A p : Sent(p)' = Sent(p)
    BY <1>1 DEF Sent
  <2>2. \A p \in PROCESSES : \A i \in Sent(p) : i \in items
    BY <1>13
  <2>3. \A i \in items : \E p \in PROCESSES : i \in Sent(p)
    BY <1>13
  <2> QED BY <1>7, <2>1, <2>2, <2>3
<1> QED BY <1>1, <1>3, <1>4, <1>9, <1>11, <1>12, <1>14, MendsRight

\* Time does not make wrong what is right, and what has expired is not read.
LEMMA TickApart == ASSUME CachesInv, ApartInv, Tick, apart' PROVE ApartInv'
<1>1. /\ Types /\ now \in Nat /\ at \in [REQUESTS -> Places] /\ got \in [REQUESTS -> Carried]
      /\ apart /\ now' = now + 1 /\ UNCHANGED <<job, table, late>>
      /\ detail' = Alive(detail, NoView) /\ roster' = Alive(roster, NoView)
      /\ travels' = [u \in USERS |-> Alive(travels[u], NoView)]
      /\ memory' = [p \in PROCESSES |-> [u \in USERS |-> Alive(memory[p][u], NoAnswer)]]
      /\ shared' = [u \in USERS |-> Alive(shared[u], NoAnswer)]
      /\ at' = [r \in REQUESTS |-> IF at[r] \in Ends THEN "over" ELSE at[r]]
      /\ got' = [r \in REQUESTS |-> IF at[r] \in Ends THEN Nothing ELSE got[r]]
  BY DEF Tick, history, CachesInv, Types, HistoryTypes, RequestTypes
<1>2. OneAtATime /\ (\A r \in REQUESTS : ReadOK(r)) /\ AllRight
  BY <1>1 DEF ApartInv
<1>3. /\ \A r \in REQUESTS : /\ Kind(r)' = Kind(r) /\ Caller(r)' = Caller(r) /\ Who(r)' = Who(r)
                             /\ Here(r)' = Here(r)
      /\ There' = There /\ Right' = Right /\ \A u : Shows(u)' = Shows(u)
      /\ \A p : Sent(p)' = Sent(p)
  BY <1>1 DEF Kind, Caller, Who, Here, There, Right, Shows, View, Sent
<1>4. \A r \in REQUESTS : \/ at'[r] = at[r] /\ got'[r] = got[r]
                          \/ at[r] \in Ends /\ at'[r] \in Ends
  BY <1>1 DEF Ends
<1>5. OneAtATime'
  <2>1. \A r \in REQUESTS : Active(r)' <=> Active(r)
    BY <1>4 DEF Active
  <2> QED BY <1>1, <1>2, <1>3, <2>1 DEF OneAtATime
<1>6. ASSUME NEW r \in REQUESTS
      PROVE  /\ ReadOK(r)' /\ (Unclean(r)' <=> Unclean(r)) /\ (Handing(r)' <=> Handing(r))
             /\ (at'[r] = "dropping" <=> at[r] = "dropping")
             /\ \A u : ListUnclean(r, u)' <=> ListUnclean(r, u)
  <2>1. CASE at'[r] = at[r] /\ got'[r] = got[r]
    BY <1>1, <1>2, <1>3, <2>1 DEF ReadOK, Unclean, Handing, ListUnclean
  <2>2. CASE at[r] \in Ends /\ at'[r] \in Ends
    BY <2>2, NothingLeft
  <2> QED BY <1>4, <2>1, <2>2
<1>7. /\ NoView.until = -1 /\ NoAnswer.until = -1
      /\ \A e, none : none.until = -1 /\ now + 1 <= Alive(e, none).until => Alive(e, none) = e
  BY <1>1 DEF NoView, NoAnswer, Alive
<1>8. /\ detail.until \in Int /\ roster.until \in Int /\ \A u \in USERS : travels[u].until \in Int
      /\ \A u \in USERS : shared[u].until \in Int
      /\ \A p \in PROCESSES, u \in USERS : memory[p][u].until \in Int
  BY <1>1 DEF Types, ViewTypes, MemberTypes, Answer
<1>9. SentRight'
  BY <1>2, <1>3, <1>1 DEF AllRight, SentRight, ItemRight
<1>10. DetailRight'
  <2>1. now' <= detail'.until => detail' = detail /\ now <= detail.until
    BY <1>1, <1>7, <1>8
  <2> QED BY <1>2, <1>3, <1>6, <2>1 DEF AllRight, DetailRight
<1>11. RosterRight'
  <2>1. now' <= roster'.until => roster' = roster /\ now <= roster.until
    BY <1>1, <1>7, <1>8
  <2> QED BY <1>1, <1>2, <1>3, <1>6, <2>1 DEF AllRight, RosterRight
<1>12. ASSUME NEW u \in USERS PROVE ListRight(u)'
  <2>1. now' <= travels'[u].until => travels'[u] = travels[u] /\ now <= travels[u].until
    BY <1>1, <1>7, <1>8
  <2> QED BY <1>2, <1>3, <1>6, <2>1 DEF AllRight, ListRight
<1>13. AnswersRight'
  <2>1. \A u \in USERS : now' <= shared'[u].until => shared'[u] = shared[u] /\ now <= shared[u].until
    BY <1>1, <1>7, <1>8
  <2>2. \A p \in PROCESSES, u \in USERS :
           now' <= memory'[p][u].until => memory'[p][u] = memory[p][u] /\ now <= memory[p][u].until
    BY <1>1, <1>7, <1>8
  <2>3. OneProcess' = OneProcess /\ \A i : AnswerRight(i)' = AnswerRight(i)
    BY <1>1, <1>3 DEF OneProcess, AnswerRight
  <2>4. \A r \in REQUESTS : Here(r) \in PROCESSES
    BY Known
  <2>5. AnswersRight
    BY <1>2 DEF AllRight
  <2> QED BY <1>1, <1>3, <1>6, <2>1, <2>2, <2>3, <2>4, <2>5 DEF AnswersRight
<1> QED BY <1>5, <1>6, <1>9, <1>10, <1>11, <1>12, <1>13 DEF ApartInv, AllRight

\* What arrives is right, or mends.
LEMMA ArriveApart == ASSUME CachesInv, ApartInv, NEW p \in PROCESSES, Arrive(p), apart' PROVE ApartInv'
<1> DEFINE sent == Head(late[p]).items
           Of(kind) == {i \in sent : i.kind = kind}
           For(kind, u) == \E i \in Of(kind) : i.user = u
<1>1. /\ late[p] # <<>> /\ late' = [late EXCEPT ![p] = Tail(@)]
      /\ UNCHANGED <<now, job, at, got, table, memory, apart>>
      /\ shared' = [u \in USERS |->
             IF For("yes", u) \/ For("no", u)
             THEN [yes |-> For("yes", u), until |-> now + MEMBER_TTL] ELSE shared[u]]
      /\ detail' = IF Of("detail") = {} THEN detail
                   ELSE [view |-> (CHOOSE i \in Of("detail") : TRUE).view, until |-> now + DetailLife]
      /\ roster' = IF Of("roster") = {} THEN roster
                   ELSE [view |-> (CHOOSE i \in Of("roster") : TRUE).view, until |-> now + ROSTER_TTL]
      /\ travels' = [u \in USERS |->
             IF For("drop", u) THEN NoView
             ELSE IF For("travels", u)
             THEN [view |-> (CHOOSE i \in Of("travels") : i.user = u).view, until |-> now + LIST_TTL]
             ELSE travels[u]]
  BY DEF Arrive, requests, history
<1>2. Types /\ now \in Nat
  BY DEF CachesInv, Types, HistoryTypes
<1>3. OneAtATime /\ (\A r \in REQUESTS : ReadOK(r)) /\ AllRight
  BY <1>1 DEF ApartInv
<1>4. /\ \A q \in PROCESSES \ {p} : late'[q] = late[q] /\ Sent(q)' = Sent(q)
      /\ Sent(p) = sent \cup Sent(p)'
  BY <1>1, <1>2, SentLess
<1>5. /\ \A q \in PROCESSES : \A i \in Sent(q)' : i \in Sent(q)
      /\ \A q \in PROCESSES : \A i \in Sent(q) : i \in Sent(q)' \/ i \in sent
      /\ \A i \in sent : i \in Sent(p)
  BY <1>4
<1>6. /\ \A r \in REQUESTS : /\ Kind(r)' = Kind(r) /\ Caller(r)' = Caller(r) /\ Who(r)' = Who(r)
                             /\ Here(r)' = Here(r) /\ at'[r] = at[r] /\ got'[r] = got[r]
      /\ There' = There /\ Right' = Right /\ \A u : Shows(u)' = Shows(u)
  BY <1>1 DEF Kind, Caller, Who, Here, There, Right, Shows, View
<1> HIDE DEF sent
<1>7. \A i \in sent : ItemRight(i)
  BY <1>3, <1>5 DEF AllRight, SentRight
<1>8. OneAtATime'
  <2>1. \A q \in PROCESSES : late'[q] # <<>> => late[q] # <<>>
    BY <1>1, <1>4
  <2> QED BY <1>3, <1>6, <2>1 DEF OneAtATime, Active
<1>9. \A r \in REQUESTS : /\ ReadOK(r)' /\ Unclean(r)' = Unclean(r) /\ Handing(r)' = Handing(r)
                          /\ \A u : ListUnclean(r, u)' = ListUnclean(r, u)
  BY <1>1, <1>3, <1>5, <1>6 DEF ReadOK, Unclean, Handing, ListUnclean
<1>10. SentRight'
  <2>1. \A i : ItemRight(i) => ItemRight(i)'
    BY <1>1, <1>6 DEF ItemRight
  <2> QED BY <1>3, <1>5, <2>1 DEF AllRight, SentRight
<1>11. DetailRight'
  <2>1. CASE Of("detail") = {}
    <3>1. detail' = detail /\ \A i \in sent : i.kind # "detail"
      BY <1>1, <2>1
    <3>2. (\E q \in PROCESSES : \E i \in Sent(q) : i.kind = "detail")
             => \E q \in PROCESSES : \E i \in Sent(q)' : i.kind = "detail"
      BY <1>5, <3>1
    <3> QED BY <1>1, <1>3, <1>6, <1>9, <3>1, <3>2 DEF AllRight, DetailRight
  <2>2. CASE Of("detail") # {}
    <3>1. PICK i \in sent : i.kind = "detail" /\ detail'.view = i.view
      BY <1>1, <2>2
    <3> QED BY <1>6, <1>7, <3>1 DEF ItemRight, DetailRight
  <2> QED BY <2>1, <2>2
<1>12. RosterRight'
  <2>1. CASE Of("roster") = {}
    BY <1>1, <1>3, <1>6, <1>9, <2>1 DEF AllRight, RosterRight
  <2>2. CASE Of("roster") # {}
    <3>1. PICK i \in sent : i.kind = "roster" /\ roster'.view = i.view
      BY <1>1, <2>2
    <3> QED BY <1>1, <1>6, <1>7, <3>1 DEF ItemRight, RosterRight
  <2> QED BY <2>1, <2>2
<1>13. ASSUME NEW u \in USERS PROVE ListRight(u)'
  <2>1. CASE For("drop", u)
    <3>1. travels'[u].until = -1
      BY <1>1, <2>1 DEF NoView
    <3> QED BY <1>1, <1>2, <3>1 DEF ListRight
  <2>2. CASE ~For("drop", u) /\ For("travels", u)
    <3>1. travels'[u].view = (CHOOSE i \in Of("travels") : i.user = u).view
      BY <1>1, <2>2
    <3>2. PICK i \in sent : i.kind = "travels" /\ i.user = u /\ travels'[u].view = i.view
      BY <2>2, <3>1
    <3> QED BY <1>6, <1>7, <3>2 DEF ItemRight, ListRight
  <2>3. CASE ~For("drop", u) /\ ~For("travels", u)
    <3>1. travels'[u] = travels[u] /\ \A i \in sent : ~(i.kind = "drop" /\ i.user = u)
      BY <1>1, <2>3
    <3>2. (\E q \in PROCESSES : \E i \in Sent(q) : i.kind = "drop" /\ i.user = u)
             => \E q \in PROCESSES : \E i \in Sent(q)' : i.kind = "drop" /\ i.user = u
      BY <1>5, <3>1
    <3> QED BY <1>1, <1>3, <1>6, <1>9, <3>1, <3>2 DEF AllRight, ListRight
  <2> QED BY <2>1, <2>2, <2>3
<1>14. AnswersRight'
  <2>1. OneProcess' = OneProcess /\ \A i : AnswerRight(i)' = AnswerRight(i)
    BY <1>1, <1>6 DEF OneProcess, AnswerRight
  <2>2. CASE ~(OneProcess /\ \A r \in REQUESTS : ~Unclean(r))
    BY <1>9, <2>1, <2>2 DEF AnswersRight
  <2>3. CASE OneProcess /\ \A r \in REQUESTS : ~Unclean(r)
    <3>1. /\ \A u \in USERS : now <= shared[u].until => (shared[u].yes <=> u \in table.in)
          /\ \A r \in REQUESTS, u \in USERS :
                now <= memory[Here(r)][u].until => (memory[Here(r)][u].yes <=> u \in table.in)
          /\ \A q \in PROCESSES : \A i \in Sent(q) : AnswerRight(i)
      BY <1>3, <2>3 DEF AllRight, AnswersRight
    <3>2. \A i \in sent : AnswerRight(i)
      BY <1>5, <3>1
    <3>3. ASSUME NEW u \in USERS, now <= shared'[u].until
          PROVE  shared'[u].yes <=> u \in table.in
      <4>1. CASE For("yes", u) \/ For("no", u)
        <5>1. shared'[u].yes = For("yes", u)
          BY <1>1, <4>1
        <5>2. (For("yes", u) => u \in table.in) /\ (For("no", u) => u \notin table.in)
          BY <3>2 DEF AnswerRight
        <5> QED BY <4>1, <5>1, <5>2
      <4>2. CASE ~For("yes", u) /\ ~For("no", u)
        BY <1>1, <3>1, <3>3, <4>2
      <4> QED BY <4>1, <4>2
    <3>4. \A q \in PROCESSES : \A i \in Sent(q)' : AnswerRight(i)'
      BY <1>5, <2>1, <3>1
    <3> QED BY <1>1, <1>6, <3>1, <3>3, <3>4 DEF AnswersRight
  <2> QED BY <2>2, <2>3
<1> QED BY <1>8, <1>9, <1>10, <1>11, <1>12, <1>13, <1>14 DEF ApartInv, AllRight

\* Nothing happens.
LEMMA ApartStutter == ASSUME ApartInv, UNCHANGED vars PROVE ApartInv'
<1>1. UNCHANGED <<now, job, at, got, table, detail, travels, roster, memory, shared, late, apart>>
  BY DEF vars, requests, caches, views, members, history
<1>2. \A p : Sent(p)' = Sent(p)
  BY <1>1 DEF Sent
<1>3. /\ \A r : /\ Kind(r)' = Kind(r) /\ Caller(r)' = Caller(r) /\ Who(r)' = Who(r)
                /\ Here(r)' = Here(r) /\ Active(r)' = Active(r)
      /\ There' = There /\ Right' = Right /\ \A u : Shows(u)' = Shows(u)
  BY <1>1 DEF Kind, Caller, Who, Here, Active, There, Right, Shows, View
<1>4. \A r : /\ ReadOK(r)' = ReadOK(r) /\ Unclean(r)' = Unclean(r) /\ Handing(r)' = Handing(r)
             /\ \A u : ListUnclean(r, u)' = ListUnclean(r, u)
  BY <1>1, <1>2, <1>3 DEF ReadOK, Unclean, Handing, ListUnclean
<1>5. SentRight' = SentRight /\ OneAtATime' = OneAtATime
  BY <1>1, <1>2, <1>3 DEF SentRight, ItemRight, OneAtATime
<1>6. DetailRight' = DetailRight /\ RosterRight' = RosterRight
  BY <1>1, <1>2, <1>3, <1>4 DEF DetailRight, RosterRight
<1>7. \A u : ListRight(u)' = ListRight(u)
  BY <1>1, <1>2, <1>3, <1>4 DEF ListRight
<1>8. AnswersRight' = AnswersRight
  BY <1>1, <1>2, <1>3, <1>4 DEF AnswersRight, OneProcess, AnswerRight
<1> QED BY <1>1, <1>4, <1>5, <1>6, <1>7, <1>8 DEF ApartInv, AllRight

\* It is so in the beginning,
LEMMA ApartInit == Init => ApartInv
<1> SUFFICES ASSUME Init PROVE ApartInv
  OBVIOUS
<1>1. /\ now = 0 /\ at = [r \in REQUESTS |-> "new"] /\ late = [p \in PROCESSES |-> <<>>]
      /\ detail = NoView /\ roster = NoView /\ travels = [u \in USERS |-> NoView]
      /\ memory = [p \in PROCESSES |-> [u \in USERS |-> NoAnswer]] /\ shared = [u \in USERS |-> NoAnswer]
  BY DEF Init
<1>2. NoView.until = -1 /\ NoAnswer.until = -1
  BY DEF NoView, NoAnswer
<1>3. \A r \in REQUESTS : ReadOK(r) /\ ~Active(r) /\ Here(r) \in PROCESSES
  BY <1>1, CachesInit, NothingLeft, Known
<1>4. \A p \in PROCESSES : Sent(p) = {} /\ late[p] = <<>>
  BY <1>1, SentNothing
<1>5. OneAtATime /\ SentRight
  BY <1>3, <1>4 DEF OneAtATime, SentRight
<1>6. DetailRight /\ RosterRight
  BY <1>1, <1>2 DEF DetailRight, RosterRight
<1>7. \A u \in USERS : ListRight(u)
  BY <1>1, <1>2 DEF ListRight
<1>8. AnswersRight
  BY <1>1, <1>2, <1>3, <1>4 DEF AnswersRight
<1> QED BY <1>3, <1>5, <1>6, <1>7, <1>8 DEF ApartInv, AllRight

\* and every step keeps it.
LEMMA ApartNext == CachesInv /\ ApartInv /\ [Next]_vars => ApartInv'
<1> SUFFICES ASSUME CachesInv, ApartInv, [Next]_vars, apart' PROVE ApartInv'
  BY DEF ApartInv
<1>1. CASE Tick
  BY <1>1, TickApart
<1>2. ASSUME NEW p \in PROCESSES, Arrive(p) PROVE ApartInv'
  BY <1>2, ArriveApart
<1>3. ASSUME NEW r \in REQUESTS, OwnStep(r) PROVE ApartInv'
  <2>1. CASE Change(r)
    BY <2>1, ChangeApart, RefusedChangeApart
  <2>2. CASE DropMembersLists(r)
    BY <2>2, DropAfterTransfer, DropMembersListsApart
  <2> QED BY <1>3, <2>1, <2>2, AskMemberApart, SelectMemberApart, RememberMemberApart, ReadSummaryApart,
             LoadMembersApart, SelectRosterApart, ReadDetailApart, FillDetailApart, ShowDetailApart,
             ReadListApart, SelectTravelsApart, ShowListApart, FindInviteApart, DropDetailApart,
             ClearMembersApart, ReplaceDetailApart DEF OwnStep
<1>4. CASE UNCHANGED vars
  BY <1>4, ApartStutter
<1> QED BY <1>1, <1>2, <1>3, <1>4 DEF Next, OwnStep

\* Requests that come one after another find the caches right, but for what a change has yet
\* to drop or a write on its way to replace: each handler drops what its change makes wrong
\* before it answers (travel.service.ts:266-304, :393-404).
THEOREM FoundRight == Spec => []ApartInv
<1>1. Init => CachesInv /\ ApartInv
  BY CachesInit, ApartInit
<1>2. CachesInv /\ ApartInv /\ [Next]_vars => (CachesInv /\ ApartInv)'
  BY CachesNext, ApartNext
<1> QED BY <1>1, <1>2, PTL DEF Spec

\* The answer that decides, where there is one process.
LEMMA AnsweredNow ==
    ASSUME CachesInv, ApartInv, apart', NEW r \in REQUESTS, AskMember(r) \/ RememberMember(r),
           at'[r] \in {"shown", "refused"}
    PROVE  /\ ReadOK(r) /\ at[r] \in Before
           /\ \E yes, mem, items : /\ Decide(r, yes, mem, items)
                                   /\ OneProcess => (yes <=> Caller(r) \in table.in)
<1> DEFINE u == Caller(r)
<1>1. at[r] \in {"asking", "selected"}
  BY DEF AskMember, RememberMember
<1>2. apart
  BY DEF AskMember, RememberMember, Decide, Go, Bring, Goto
<1>3. ReadOK(r) /\ AllRight /\ OneAtATime
  BY <1>2 DEF ApartInv
<1>4. u \in USERS
  BY Known
<1>5. \A s \in REQUESTS : ~Unclean(s)
  <2>1. Active(r) /\ ~Unclean(r)
    BY <1>1 DEF Active, Ends, Unclean
  <2> QED BY <1>3, <2>1, NothingLeft DEF OneAtATime, Active
<1>6. OneProcess => /\ now <= shared[u].until => (shared[u].yes <=> u \in table.in)
                    /\ now <= memory[Here(r)][u].until => (memory[Here(r)][u].yes <=> u \in table.in)
  BY <1>3, <1>4, <1>5 DEF AllRight, AnswersRight
<1>7. CASE RememberMember(r)
  <2>1. at[r] = "selected" /\ \E mem, items : Decide(r, got[r].yes, mem, items)
    BY <1>7 DEF RememberMember
  <2>2. got[r].yes <=> u \in table.in
    BY <1>3, <2>1 DEF ReadOK
  <2> QED BY <1>1, <1>3, <2>1, <2>2 DEF Before
<1>8. CASE AskMember(r)
  <2>1. CASE Remembered(r, u) /\ Decide(r, memory[Here(r)][u].yes, memory, {})
    BY <1>1, <1>3, <1>6, <2>1 DEF Before, Remembered
  <2>2. CASE now <= shared[u].until /\ \E mem, items : Decide(r, shared[u].yes, mem, items)
    BY <1>1, <1>3, <1>6, <2>2 DEF Before
  <2>3. CASE Go(r, "selecting")
    BY <2>3, Lands
  <2> QED BY <1>8, <2>1, <2>2, <2>3 DEF AskMember
<1> QED BY <1>7, <1>8

\* What is shown to one who comes after all others.
LEMMA ShownNow ==
    ASSUME CachesInv, ApartInv, Next, apart', NEW r \in REQUESTS, Comes(r, "shown")
    PROVE  /\ Kind(r) = "list" \/ Caller(r) \in table.in => got'[r].view = Truth(r)
           /\ OneProcess => got'[r].view = Absent \/ Caller(r) \in table.in
<1> DEFINE u == Caller(r)
<1>1. Truth(r) = Shows(u) /\ (u \in table.in => Shows(u) = Right) /\ (u \notin table.in => Shows(u) = Absent)
  BY DEF Truth, Shows, Right
<1>2. at'[r] = "shown" /\ at[r] # "shown" /\ u \in USERS /\ TableTypes
  BY Known DEF Comes, Types
<1>3. OwnStep(r)
  BY <1>2, EndsItself
<1>4. \/ AskMember(r) \/ RememberMember(r) \/ ReadDetail(r) \/ ShowDetail(r) \/ ReadList(r) \/ ShowList(r)
  BY <1>2, <1>3, WhichEnds
<1>5. CASE AskMember(r) \/ RememberMember(r)
  <2>1. PICK yes, mem, items :
           /\ Decide(r, yes, mem, items) /\ (OneProcess => (yes <=> u \in table.in))
           /\ ReadOK(r) /\ at[r] \in Before
    BY <1>2, <1>5, AnsweredNow
  <2>2. Kind(r) = "detail" /\ got[r].hit /\ got'[r] = got[r] /\ yes
    BY <1>2, <1>5, <2>1, Decided DEF AskMember, RememberMember
  <2>3. got[r].view = Right
    BY <2>1, <2>2 DEF ReadOK
  <2> QED BY <1>1, <2>1, <2>2, <2>3
<1>6. CASE ReadDetail(r) \/ ReadList(r)
  <2>1. /\ at[r] = "new" /\ table' = table
        /\ \E place, view, hit : Bring(r, place, view, hit) \/ Go(r, place)
    BY <1>6 DEF ReadDetail, ReadList
  <2>2. \E place : Goto(r, place) /\ \A s \in REQUESTS \ {r} : got'[s] = got[s]
    BY <2>1, Takes
  <2>3. Begins(r)
    BY <2>1, <2>2, StepBegins DEF Ends
  <2>4. at[r] # "dropping" /\ ~Handing(r)
    BY <2>1 DEF Handing, Making
  <2>5. /\ now <= detail.until => There /\ detail.view = Right
        /\ now <= travels[u].until => travels[u].view = Shows(u)
    BY <1>2, <2>1, <2>3, <2>4, CachedRight
  <2>6. CASE ReadDetail(r)
    <3>1. /\ Kind(r) = "detail" /\ now <= detail.until /\ got'[r].view = detail.view
          /\ u \in detail.view.list.in
      BY <1>2, <2>6, Lands DEF ReadDetail
    <3>2. u \in table.in
      BY <1>2, <2>5, <3>1, ThereIsOwner
    <3> QED BY <1>1, <2>5, <3>1, <3>2
  <2>7. CASE ReadList(r)
    <3>1. IF now <= travels[u].until
          THEN Bring(r, "shown", travels[u].view, FALSE) ELSE Go(r, "travels")
      BY <2>7 DEF ReadList
    <3>2. /\ Go(r, "travels") => at'[r] = "travels"
          /\ Bring(r, "shown", travels[u].view, FALSE) => got'[r].view = travels[u].view
      BY Lands
    <3>3. got'[r].view = Shows(u)
      BY <1>2, <2>5, <3>1, <3>2
    <3> QED BY <1>1, <3>3
  <2> QED BY <1>6, <2>6, <2>7
<1>7. CASE ShowDetail(r) \/ ShowList(r)
  <2>1. /\ at[r] = "loaded" /\ IF Kind(r) = "list" THEN Go(r, "shown") ELSE ShowDetail(r)
        /\ \E place, view, hit : Bring(r, place, view, hit) \/ Go(r, place)
    BY <1>7 DEF ShowDetail, ShowList, Loaded
  <2>2. got'[r] = got[r] /\ Kind(r) \in {"detail", "list"}
    BY <1>2, <1>7, Lands DEF ShowDetail, ShowList
  <2>3. apart
    BY <2>1 DEF Bring, Go, Goto
  <2>4. ReadOK(r)
    BY <2>3 DEF ApartInv
  <2>5. CASE Kind(r) = "list"
    <3>1. got[r].view = Shows(u)
      BY <2>1, <2>4, <2>5 DEF ReadOK
    <3> QED BY <1>1, <2>2, <3>1
  <2>6. CASE Kind(r) = "detail"
    <3>1. got[r].view = Right /\ Who(r) \in table.in /\ Who(r) = u
      BY <2>1, <2>4, <2>6 DEF ReadOK, Who
    <3> QED BY <1>1, <2>2, <3>1
  <2> QED BY <2>2, <2>5, <2>6
<1> QED BY <1>4, <1>5, <1>6, <1>7

\* Nor is one turned away who is a member.
LEMMA RefusedNow ==
    ASSUME CachesInv, ApartInv, Next, apart', NEW r \in REQUESTS, Comes(r, "refused"), Kind(r) = "detail",
           OneProcess
    PROVE  Caller(r) \notin table.in
<1>1. at'[r] = "refused" /\ at[r] # "refused"
  BY DEF Comes
<1>2. AskMember(r) \/ RememberMember(r) \/ ReadSummary(r)
  BY <1>1, EndsItself, WhichEnds
<1>3. CASE ReadSummary(r)
  <2>1. Who(r) = Caller(r)
    BY DEF Who
  <2> QED BY <1>1, <1>3, <2>1, Lands DEF ReadSummary
<1>4. CASE AskMember(r) \/ RememberMember(r)
  <2>1. PICK yes, mem, items :
           Decide(r, yes, mem, items) /\ (OneProcess => (yes <=> Caller(r) \in table.in))
    BY <1>1, <1>4, AnsweredNow
  <2>2. ~yes
    BY <1>1, <1>4, <2>1, Decided DEF AskMember, RememberMember
  <2> QED BY <2>1, <2>2
<1> QED BY <1>2, <1>3, <1>4

\* Requests that come one after another see every change at once, and within one process
\* are admitted if and only if they are members (the drops of each change).
THEOREM SeenAtOnce == Spec => ChangesSeenAtOnce
<1>1. ASSUME CachesInv, ApartInv, [Next]_vars
      PROVE  [apart' => \A r \in REQUESTS :
                /\ Comes(r, "shown") /\ (Kind(r) = "list" \/ Caller(r) \in table.in) =>
                      got'[r].view = Truth(r)
                /\ (\A s, t \in REQUESTS : Here(s) = Here(t)) =>
                      /\ Comes(r, "shown") => got'[r].view = Absent \/ Caller(r) \in table.in
                      /\ Comes(r, "refused") /\ Kind(r) = "detail" => Caller(r) \notin table.in]_vars
  BY <1>1, ShownNow, RefusedNow DEF OneProcess
<1> QED BY <1>1, CachesBounded, FoundRight, PTL DEF Spec, ChangesSeenAtOnce

=============================================================================
