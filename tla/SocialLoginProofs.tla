--------------------------- MODULE SocialLoginProofs ---------------------------
(***************************************************************************)
(* Theorems about module SocialLogin, for any requests, users, tokens,     *)
(* codes and times to live: how long a registration may go unseen, which   *)
(* lookups are shared, which cached users a revocation finds, and that a   *)
(* ticket is redeemed once.                                                *)
(***************************************************************************)
EXTENDS SocialLogin, TLAPS

CheckType == [yes : BOOLEAN, until : Int]
UserType == [complete : BOOLEAN, until : Int]
FlightType == [by : REQUESTS \cup {NoOne}, until : Int]
FastType == [said : {"none", "in", "yes", "no"}, until : Int]
IndexType == [keys : Seq(TOKENS), until : Int]
GotType == [yes : BOOLEAN, cached : {"unread", "none", "yes", "no"},
            path : {"none", "offline", "hit", "miss"}, keys : Seq(TOKENS)]
SaidType == [word : {"none", "in", "yes", "no", "refused", "done"}, time : Int]
LateCheck == [kind : {"check"}, key : TOKENS, value : BOOLEAN, since : Int]
LateFast == [kind : {"fast"}, key : TOKENS \cup CODES, value : {"in", "yes", "no"}, since : Int]
LateEnsure == [kind : {"ensure"}, key : USERS, value : BOOLEAN, since : Int]

\* Where a lookup is that has not answered yet, and who shares no lookup.
Asking == {"guessing"} \cup Checking

TypesRequests ==
    /\ job \in [REQUESTS -> Job] /\ job \in PLANS
    /\ at \in [REQUESTS -> PLACES \cup REQUESTS]
    /\ began \in [REQUESTS -> Int]
    /\ got \in [REQUESTS -> GotType] /\ said \in [REQUESTS -> SaidType]
    /\ ended \in [REQUESTS -> SUBSET REQUESTS]

TypesStores ==
    /\ row \subseteq USERS /\ unseenAt \in [USERS -> Int]
    /\ memoryCheck \in [TOKENS -> CheckType] /\ sharedCheck \in [TOKENS -> CheckType]
    /\ exists \in [USERS -> CheckType]
    /\ flight \in [TOKENS -> FlightType]
    /\ memoryUser \in [TOKENS -> UserType] /\ sharedUser \in [TOKENS -> UserType]
    /\ index \in [USERS -> IndexType]
    /\ fast \in [TOKENS \cup CODES -> FastType] /\ ticket \in [REQUESTS -> FastType]
    /\ late \subseteq LateCheck \cup LateFast \cup LateEnsure

Types == now \in Nat /\ TypesRequests /\ TypesStores

-----------------------------------------------------------------------------
(* Which requests are where, and since when.                                  *)

Placed(r) ==
    /\ at[r] \in REQUESTS \cup {"guessing", "verifying"} => Kind(r) = "lookup"
    /\ at[r] \in Caching => Kind(r) \in {"lookup", "login"}
    /\ at[r] \in {"hydrating", "offline", "missed", "session", "invalidating"} => Kind(r) = "login"
    /\ at[r] \in Dropping => Kind(r) \in {"revoke", "login"}
    /\ at[r] \in {"looking", "erasing"} => Kind(r) = "edit"
    /\ at[r] = "ticketing" => Kind(r) = "kakao"
    /\ at[r] = "redeeming" => Kind(r) = "finalize"
    /\ at[r] = "entering" => Kind(r) \in {"login", "kakao"}
    /\ at[r] \in Checking => Kind(r) \notin {"finalize", "kakaoLookup"}
    /\ Kind(r) = "lookup" /\ at[r] \in {"new"} \cup Asking \cup REQUESTS => said[r].word = "none"
    /\ Kind(r) = "lookup" /\ at[r] \in {"verifying", "over"} \cup Caching => said[r].word # "none"
    /\ Kind(r) = "finalize" /\ at[r] # "over" => said[r].word = "none"
    /\ at[r] = "new" => ~got[r].yes /\ ended[r] = {}

Clock ==
    /\ \A r \in REQUESTS : Active(r) => began[r] <= now /\ now <= began[r] + LATENCY
    /\ \A w \in late : w.since <= now /\ now <= w.since + LATENCY
    /\ \A u \in USERS : unseenAt[u] <= now

Requests == Clock /\ \A r \in REQUESTS : Placed(r)

-----------------------------------------------------------------------------
(* Tickets.                                                                   *)

\* A request has got, or is about to get, the session of a ticket.
Takes(r) == (at[r] = "redeeming" /\ got[r].yes) \/ said[r].word = "in"

TicketsInv ==
    /\ \A k \in REQUESTS : now < ticket[k].until => at[k] = "over"
    /\ \A r \in REQUESTS : Kind(r) = "finalize" =>
          /\ Takes(r) => at[job[r].ticket] = "over"
          /\ said[r].word = "in" => ticket[job[r].ticket].until <= now
          /\ \A s \in REQUESTS :
                Kind(s) = "finalize" /\ s \in ended[r] =>
                   /\ said[s].word = "in"
                   /\ job[s].ticket = job[r].ticket => ~Takes(r)

-----------------------------------------------------------------------------
(* Lookups.                                                                   *)

Leads(r) == Kind(r) = "lookup" /\ at[r] \in Asking

LookupsInv ==
    /\ \A t \in TOKENS : now <= flight[t].until =>
          flight[t].by \in REQUESTS /\ Leads(flight[t].by) /\ Token(flight[t].by) = t
    /\ \A r \in REQUESTS :
          Leads(r) /\ Token(r) \notin outlived /\ now <= began[r] + WINDOW =>
             flight[Token(r)] = [by |-> r, until |-> began[r] + WINDOW]
    /\ \A r, s \in REQUESTS :
          r # s /\ Leads(r) /\ Leads(s) /\ Token(r) = Token(s) /\ Token(r) \notin outlived =>
             began[r] - began[s] > WINDOW \/ began[s] - began[r] > WINDOW

-----------------------------------------------------------------------------
(* The index of a user.                                                       *)

\* A request that has read the index and is about to write or drop it.
Holds(r) == at[r] \in {"indexing"} \cup Dropping

\* The request is about to put its token in the index.
Tracks(r, t) == at[r] \in {"tracking", "indexing"} /\ Token(r) = t

HeldAlone(r) ==
    Holds(r) /\ Person(r) \notin raced =>
        /\ \A s \in Owned(Person(r)) \ {r} : ~Holds(s)
        /\ Keys(Listed(Person(r))) \subseteq Keys(got[r].keys)

\* Of the tokens that have been dropped, only those are back that are about to be listed.
DroppedFirst(r) ==
    at[r] = "unlisting" /\ Person(r) \notin raced =>
        \A t \in TOKENS : t \in Keys(got[r].keys) /\ OWNER[t] = Person(r) /\ now < sharedUser[t].until =>
            \E s \in REQUESTS : at[s] = "tracking" /\ Token(s) = t

Findable(t) ==
    now < sharedUser[t].until /\ OWNER[t] \notin raced /\ t \notin crowded \cup orphaned =>
        \/ t \in Keys(Listed(OWNER[t])) /\ sharedUser[t].until <= index[OWNER[t]].until
        \/ \E s \in REQUESTS : Tracks(s, t)

IndexInv ==
    /\ \A r \in REQUESTS : HeldAlone(r) /\ DroppedFirst(r)
    /\ \A t \in TOKENS : sharedUser[t].until <= now + USER_TTL /\ Findable(t)

-----------------------------------------------------------------------------
(* Registrations.  What is said of a user who is not registered was so, or    *)
(* the user was unseen after that.                                            *)

Unseen(u, time) == u \in row => time <= unseenAt[u]

\* The answers for this token come from the row, and are not renewed without it.
Reliable(t) == t \notin OPAQUE /\ now < EXPIRES[t]

\* How long after the user was unseen an answer may still say no: one that has asked for
\* the row, one of the memory, one of Redis, and one of another lookup.
RowGrace == EXISTS_TTL + 2 * LATENCY - 1
MemoryGrace == RowGrace + CHECK_TTL
SharedGrace == MemoryGrace + LATENCY
LookupGrace == SharedGrace + LATENCY - 1

\* Whom a login of Kakao with this code is about.
CodeUnseen(code, time) ==
    \A r \in REQUESTS : Kind(r) = "kakao" /\ job[r].code = code => Unseen(Person(r), time)

Asked(r) ==
    /\ at[r] = "filling" /\ ~got[r].yes => Unseen(Person(r), began[r])
    /\ at[r] = "checked" /\ ~got[r].yes => Unseen(Person(r), began[r] - RowGrace + LATENCY)
    /\ at[r] = "ticketing" /\ ~got[r].yes => Unseen(Person(r), began[r] - SharedGrace + 1)

Offline(r) ==
    Kind(r) = "lookup" /\ at[r] \in Checking /\ got[r].path = "offline" /\ got[r].cached = "no" =>
        Unseen(Person(r), began[r] - SharedGrace + 1)

Guessed(r) ==
    Kind(r) = "lookup" /\ (at[r] = "guessing" \/ (at[r] \in Checking /\ got[r].path \in {"hit", "miss"})) =>
        ~Reliable(Token(r))

\* The answer is one that RegisteredSeenInTime is about.
Denied(r) ==
    /\ said[r].word = "no"
    /\ \/ Kind(r) = "lookup" /\ Token(r) \notin OPAQUE /\ said[r].time < EXPIRES[Token(r)]
       \/ Kind(r) = "kakao"

\* Whoever shares a lookup began before it answered.
Shares(s) ==
    at[s] \in REQUESTS =>
        /\ Kind(at[s]) = "lookup" /\ Token(at[s]) = Token(s) /\ at[at[s]] \notin REQUESTS \cup {"new"}
        /\ Denied(at[s]) => began[s] <= said[at[s]].time /\ Unseen(Person(s), said[at[s]].time - LookupGrace)

UserSeen(u) ==
    /\ exists[u].until <= now + EXISTS_TTL
    /\ now < exists[u].until /\ ~exists[u].yes => Unseen(u, exists[u].until - EXISTS_TTL - LATENCY)

TokenSeen(t) ==
    /\ memoryCheck[t].until <= now + CHECK_TTL /\ sharedCheck[t].until <= now + CHECK_TTL
    /\ now <= memoryCheck[t].until /\ ~memoryCheck[t].yes /\ Reliable(t) =>
          Unseen(OWNER[t], memoryCheck[t].until - MemoryGrace)
    /\ now < sharedCheck[t].until /\ ~sharedCheck[t].yes /\ Reliable(t) =>
          Unseen(OWNER[t], sharedCheck[t].until - SharedGrace)

CodeSeen(c) ==
    /\ fast[c].until <= now + FAST_TTL
    /\ now < fast[c].until /\ fast[c].said # "yes" =>
          CodeUnseen(c, fast[c].until - FAST_TTL - RowGrace - LATENCY)

WriteSeen(w) ==
    /\ w.kind = "check" /\ ~w.value /\ Reliable(w.key) => Unseen(OWNER[w.key], w.since - RowGrace)
    /\ w.kind = "fast" /\ w.value # "yes" /\ w.key \in CODES => CodeUnseen(w.key, w.since - RowGrace)

RequestSeen(r) ==
    /\ Asked(r) /\ Offline(r) /\ Guessed(r)
    /\ said[r].word = "no" => said[r].time <= now
    /\ Denied(r) => Unseen(Person(r), said[r].time - LookupGrace - LATENCY)

RegisteredInv ==
    /\ \A u \in USERS : UserSeen(u)
    /\ \A t \in TOKENS : TokenSeen(t)
    /\ \A c \in CODES : CodeSeen(c)
    /\ \A w \in late : WriteSeen(w)
    /\ \A r \in REQUESTS : RequestSeen(r) /\ Shares(r)

SocialLoginInv == Types /\ Requests /\ TicketsInv /\ LookupsInv /\ IndexInv /\ RegisteredInv

-----------------------------------------------------------------------------

LEMMA InitSocialLogin == Init => SocialLoginInv
<1> SUFFICES ASSUME Init PROVE SocialLoginInv
  OBVIOUS
<1> USE SocialLoginAssumption
<1>1. /\ NoCheck \in CheckType /\ NoUser \in UserType /\ NoFlight \in FlightType
      /\ NoFast \in FastType /\ NoIndex \in IndexType /\ Nothing \in GotType
      /\ [word |-> "none", time |-> 0] \in SaidType /\ "new" \in PLACES
  BY DEF NoCheck, CheckType, NoUser, UserType, NoFlight, FlightType, NoFast, FastType, NoIndex, IndexType,
         Nothing, GotType, SaidType, PLACES
<1>2. /\ \A r \in REQUESTS : /\ at[r] = "new" /\ at[r] \notin REQUESTS /\ ~got[r].yes /\ ended[r] = {}
                             /\ said[r].word = "none"
      /\ now = 0 /\ late = {} /\ \A u \in USERS : unseenAt[u] <= 0
  BY <1>1 DEF Init, Nothing
<1>3. Types
  <2>1. job \in [REQUESTS -> Job] /\ job \in PLANS
    BY DEF Init
  <2>2. TypesRequests
    BY <1>1, <2>1 DEF Init, TypesRequests
  <2>3. TypesStores
    BY <1>1 DEF Init, TypesStores
  <2> QED BY <2>2, <2>3 DEF Init, Types
<1>4. Requests
  BY <1>2 DEF Requests, Clock, Active, Placed, Asking, Checking, Caching, Dropping
<1>5. TicketsInv
  BY <1>2 DEF Init, TicketsInv, Takes, NoFast
<1>6. LookupsInv
  BY <1>2 DEF Init, LookupsInv, Leads, Asking, Checking, NoFlight
<1>7. IndexInv
  BY <1>2 DEF Init, IndexInv, HeldAlone, DroppedFirst, Holds, Dropping, Findable, NoUser
<1>8. RegisteredInv
  <2>1. \A r \in REQUESTS : Asked(r) /\ Offline(r) /\ Guessed(r) /\ Shares(r) /\ ~Denied(r)
    BY <1>2 DEF Asked, Offline, Guessed, Shares, Denied, Checking
  <2> QED BY <1>2, <2>1 DEF Init, RegisteredInv, UserSeen, TokenSeen, CodeSeen, RequestSeen, NoCheck, NoFast
<1> QED BY <1>3, <1>4, <1>5, <1>6, <1>7, <1>8 DEF SocialLoginInv

-----------------------------------------------------------------------------
(* What the steps of a request have in common.                                *)

\* What Goto does, of every request.
Went(r, place) ==
    /\ job' = job
    /\ at' \in [REQUESTS -> PLACES \cup REQUESTS] /\ began' \in [REQUESTS -> Int]
    /\ ended' \in [REQUESTS -> SUBSET REQUESTS]
    /\ \A s \in REQUESTS \ {r} : at'[s] = at[s] /\ began'[s] = began[s] /\ ended'[s] = ended[s]
    /\ at'[r] = place
    /\ place # "over" => began'[r] = IF at[r] = "new" THEN now ELSE began[r]
    /\ ended'[r] = IF at[r] = "new" /\ Kind(r) = "finalize"
                   THEN {s \in REQUESTS : said[s].word = "in"} ELSE ended[r]

LEMMA GotoWent ==
    ASSUME now \in Nat, TypesRequests, NEW r \in REQUESTS, NEW place \in PLACES \cup REQUESTS, Goto(r, place)
    PROVE  Went(r, place)
<1>1. at' \in [REQUESTS -> PLACES \cup REQUESTS] /\ at'[r] = place /\ \A s \in REQUESTS \ {r} : at'[s] = at[s]
  BY DEF TypesRequests, Goto
<1>2. /\ began' \in [REQUESTS -> Int] /\ \A s \in REQUESTS \ {r} : began'[s] = began[s]
      /\ place # "over" => began'[r] = IF at[r] = "new" THEN now ELSE began[r]
  <2>1. CASE place = "over"
    <3>1. began' = [began EXCEPT ![r] = 0]
      BY <2>1 DEF Goto
    <3> QED BY <2>1, <3>1 DEF TypesRequests
  <2>2. CASE place # "over" /\ at[r] = "new"
    <3>1. began' = [began EXCEPT ![r] = now]
      BY <2>2 DEF Goto
    <3> QED BY <2>2, <3>1 DEF TypesRequests
  <2>3. CASE place # "over" /\ at[r] # "new"
    <3>1. began' = [began EXCEPT ![r] = began[r]]
      BY <2>3 DEF Goto
    <3> QED BY <2>3, <3>1 DEF TypesRequests
  <2> QED BY <2>1, <2>2, <2>3
<1>3. /\ ended' \in [REQUESTS -> SUBSET REQUESTS] /\ \A s \in REQUESTS \ {r} : ended'[s] = ended[s]
      /\ ended'[r] = IF at[r] = "new" /\ Kind(r) = "finalize"
                     THEN {s \in REQUESTS : said[s].word = "in"} ELSE ended[r]
  <2>1. CASE at[r] = "new" /\ Kind(r) = "finalize"
    <3>1. ended' = [ended EXCEPT ![r] = {s \in REQUESTS : said[s].word = "in"}]
      BY <2>1 DEF Goto
    <3> QED BY <2>1, <3>1 DEF TypesRequests
  <2>2. CASE ~(at[r] = "new" /\ Kind(r) = "finalize")
    <3>1. ended' = ended
      BY <2>2 DEF Goto
    <3> QED BY <2>2, <3>1 DEF TypesRequests
  <2> QED BY <2>1, <2>2
<1> QED BY <1>1, <1>2, <1>3 DEF Went, Goto

LEMMA SaySaid ==
    ASSUME now \in Nat, TypesRequests, NEW r \in REQUESTS,
           NEW word \in {"in", "yes", "no", "refused", "done"}, Say(r, word)
    PROVE  /\ said' \in [REQUESTS -> SaidType] /\ \A s \in REQUESTS \ {r} : said'[s] = said[s]
           /\ said'[r] = [word |-> word, time |-> IF word = "no" THEN now ELSE 0]
<1>1. [word |-> word, time |-> IF word = "no" THEN now ELSE 0] \in SaidType
  BY DEF SaidType
<1> QED BY <1>1 DEF Say, TypesRequests

LEMMA JobTypes ==
    ASSUME TypesRequests, NEW r \in REQUESTS
    PROVE  /\ Kind(r) \in KINDS /\ Token(r) \in TOKENS /\ job[r].code \in CODES /\ job[r].ticket \in REQUESTS
           /\ Person(r) \in USERS /\ (Kind(r) \in {"lookup", "login"} => Person(r) = OWNER[Token(r)])
BY SocialLoginAssumption DEF TypesRequests, Job, Kind, Token, Person

\* A step is of one request, and tells no other what it carries or answers.
Carried(r) ==
    /\ now' = now /\ at[r] # "over"
    /\ \E place \in PLACES \cup REQUESTS : Went(r, place)
    /\ got' \in [REQUESTS -> GotType] /\ \A s \in REQUESTS \ {r} : got'[s] = got[s]
    /\ said' \in [REQUESTS -> SaidType] /\ \A s \in REQUESTS \ {r} : said'[s] = said[s]
    /\ said'[r] = said[r] \/ (said'[r].word = "no" => said'[r].time = now)

LEMMA StepCarries ==
    ASSUME SocialLoginInv, NEW r \in REQUESTS, Step(r)
    PROVE  Carried(r)
<1> USE SocialLoginAssumption
<1>1. /\ now \in Nat /\ TypesRequests /\ got \in [REQUESTS -> GotType] /\ said \in [REQUESTS -> SaidType]
      /\ got[r] \in GotType /\ Token(r) \in TOKENS
  BY JobTypes DEF SocialLoginInv, Types, TypesRequests
<1> DEFINE Gets == got' \in [REQUESTS -> GotType] /\ \A s \in REQUESTS \ {r} : got'[s] = got[s]
           Says == /\ said' \in [REQUESTS -> SaidType] /\ \A s \in REQUESTS \ {r} : said'[s] = said[s]
                   /\ said'[r] = said[r] \/ (said'[r].word = "no" => said'[r].time = now)
           Goes == \E place \in PLACES \cup REQUESTS : Goto(r, place)
<1>2. ASSUME NEW value \in BOOLEAN, got' = [got EXCEPT ![r].yes = value] PROVE Gets
  BY <1>1, <1>2 DEF GotType
<1>3. ASSUME NEW path \in {"none", "offline", "hit", "miss"}, got' = [got EXCEPT ![r].path = path] PROVE Gets
  BY <1>1, <1>3 DEF GotType
<1>4. ASSUME NEW keys \in Seq(TOKENS), got' = [got EXCEPT ![r].keys = keys] PROVE Gets
  BY <1>1, <1>4 DEF GotType
<1>5. ASSUME NEW word \in {"in", "yes", "no", "refused", "done"}, Say(r, word) PROVE Says
  BY <1>1, <1>5, SaySaid
<1>6. (got' = got => Gets) /\ (said' = said => Says)
  BY <1>1
<1>7. Listed(Person(r)) \in Seq(TOKENS)
  BY <1>1, JobTypes DEF SocialLoginInv, Types, TypesStores, IndexType, Listed
<1>8. \A value \in BOOLEAN : Word(value) \in {"yes", "no"}
  BY DEF Word
<1> DEFINE Does == now' = now /\ at[r] # "over" /\ Goes /\ Gets /\ Says
<1>9. /\ exists[Person(r)].yes \in BOOLEAN
      /\ \A t \in TOKENS : memoryCheck[t].yes \in BOOLEAN /\ sharedCheck[t].yes \in BOOLEAN
  BY <1>1, JobTypes DEF SocialLoginInv, Types, TypesStores, CheckType
<1>10. \A t \in TOKENS : RedisSays(t) \in {"none", "yes", "no"}
  BY <1>8, <1>9 DEF RedisSays
<1> HIDE DEF Gets, Says
<1> USE DEF PLACES, Checking, Caching, Dropping
<1>11. ASSUME CheckExists(r) PROVE Does
  BY <1>2, <1>6, <1>9, <1>11 DEF CheckExists
<1>12. ASSUME SelectRow(r) PROVE Does
  <2>1. (Person(r) \in row) \in BOOLEAN
    OBVIOUS
  <2>2. got' = [got EXCEPT ![r].yes = Person(r) \in row] => Gets
    BY Zenon, <1>2, <2>1
  <2> QED BY <1>6, <1>12, <2>2 DEF SelectRow
<1>13. ASSUME FillExists(r) PROVE Does
  BY <1>6, <1>13 DEF FillExists, Go
<1>14. ASSUME BeginLookup(r) PROVE Does
  <2>1. ASSUME NEW cached \in {"unread", RedisSays(Token(r))},
               got' = [got EXCEPT ![r].path = "offline", ![r].cached = cached]
        PROVE  Gets
    BY <1>1, <1>10, <2>1 DEF GotType, Gets
  <2>2. now <= flight[Token(r)].until => flight[Token(r)].by \in REQUESTS
    BY <1>1 DEF SocialLoginInv, LookupsInv
  <2> QED BY <1>1, <1>5, <1>6, <1>8, <1>9, <1>14, <2>1, <2>2 DEF BeginLookup
<1>15. ASSUME Share(r) PROVE Does
  <2>1. said[at[r]].word \in {"in", "yes", "no", "refused", "done"}
    BY <1>1, <1>15 DEF Share, SaidType
  <2> QED BY <1>5, <1>6, <1>15, <2>1 DEF Share
<1>16. ASSUME AnswerOffline(r) PROVE Does
  <2>1. got[r].yes \in BOOLEAN /\ got[r].cached \in {"unread", "none", "yes", "no"}
    BY <1>1 DEF GotType
  <2> QED BY <1>1, <1>5, <1>6, <1>8, <1>10, <1>16, <2>1 DEF AnswerOffline, Answer
<1>17. ASSUME VerifyLater(r) PROVE Does
  BY <1>6, <1>17 DEF VerifyLater
<1>18. ASSUME Guess(r) PROVE Does
  BY <1>1, <1>3, <1>5, <1>6, <1>8, <1>9, <1>18 DEF Guess, Answer
<1>19. ASSUME AnswerGuess(r) PROVE Does
  <2>1. got[r].yes \in BOOLEAN
    BY <1>1 DEF GotType
  <2> QED BY <1>5, <1>6, <1>8, <1>19, <2>1 DEF AnswerGuess, Answer
<1>20. ASSUME \/ CacheUser(r) \/ WriteIndex(r) \/ DropTokens(r) \/ DropIndex(r)
              \/ EditProfile(r) \/ FindIndex(r) \/ EraseIndex(r)
       PROVE  Does
  BY <1>6, <1>20 DEF CacheUser, WriteIndex, DropTokens, DropIndex, EditProfile, FindIndex, EraseIndex, Go
<1>21. ASSUME ReadIndex(r) \/ ReadTokens(r) PROVE Does
  BY <1>4, <1>6, <1>7, <1>21 DEF ReadIndex, ReadTokens
<1>22. ASSUME LookFast(r) PROVE Does
  BY <1>2, <1>5, <1>6, <1>22 DEF LookFast
<1>23. ASSUME Enter(r) \/ Hydrate(r) PROVE Does
  BY <1>6, <1>23 DEF Enter, Hydrate
<1>24. ASSUME EnterOffline(r) PROVE Does
  <2>1. ASSUME got' = [got EXCEPT ![r].path = "offline", ![r].yes = Person(r) \in row] PROVE Gets
    BY <1>1, <2>1, (Person(r) \in row) \in BOOLEAN DEF GotType, Gets
  <2> QED BY <1>6, <1>24, <2>1 DEF EnterOffline
<1>25. ASSUME EnterMissed(r) PROVE Does
  BY <1>3, <1>5, <1>6, <1>25 DEF EnterMissed
<1>26. ASSUME EnsureProfile(r) \/ AskElsewhere(r) \/ RegisterElsewhere(r) \/ UpsertProfile(r) PROVE Does
  BY <1>5, <1>6, <1>26 DEF EnsureProfile, AskElsewhere, RegisterElsewhere, UpsertProfile, Go
<1>27. ASSUME Enlist(r) PROVE Does
  BY <1>5, <1>6, <1>27 DEF Enlist
<1>28. ASSUME Exchange(r) PROVE Does
  BY <1>5, <1>6, <1>28 DEF Exchange
<1>29. ASSUME KeepTicket(r) \/ Redeem(r) PROVE Does
  <2>1. got[r].yes \in BOOLEAN
    BY <1>1 DEF GotType
  <2> QED BY <1>5, <1>6, <1>8, <1>29, <2>1 DEF KeepTicket, Redeem
<1>30. ASSUME ReadTicket(r) PROVE Does
  <2>1. (now < ticket[job[r].ticket].until) \in BOOLEAN
    OBVIOUS
  <2>2. got' = [got EXCEPT ![r].yes = now < ticket[job[r].ticket].until] => Gets
    BY Zenon, <1>2, <2>1
  <2> QED BY <1>6, <1>30, <2>2 DEF ReadTicket
<1>31. Does
  BY <1>11, <1>12, <1>13, <1>14, <1>15, <1>16, <1>17, <1>18, <1>19, <1>20, <1>21, <1>22, <1>23, <1>24,
     <1>25, <1>26, <1>27, <1>28, <1>29, <1>30 DEF Step
<1>32. PICK place \in PLACES \cup REQUESTS : Goto(r, place)
  BY <1>31
<1> HIDE DEF PLACES
<1>33. Went(r, place)
  BY <1>1, <1>32, GotoWent
<1> QED BY <1>31, <1>32, <1>33 DEF Carried, Gets, Says

\* Rows come and do not go, and whoever gets one was unseen until now.
Grows ==
    /\ row \subseteq row' /\ row' \subseteq USERS /\ unseenAt' \in [USERS -> Int]
    /\ \A u \in USERS : /\ unseenAt'[u] = unseenAt[u] \/ unseenAt'[u] = now
                        /\ u \in row' /\ u \notin row => unseenAt'[u] = now

LEMMA RegisterGrows ==
    ASSUME now \in Nat, TypesStores, NEW u \in USERS, Register(u)
    PROVE  Grows
<1> USE DEF TypesStores
<1>1. row' = row \cup {u}
  BY DEF Register
<1>2. CASE u \in row
  <2>1. unseenAt' = unseenAt
    BY <1>2 DEF Register
  <2> QED BY <1>1, <1>2, <2>1 DEF Grows
<1>3. CASE u \notin row
  <2>1. unseenAt' = [unseenAt EXCEPT ![u] = now]
    BY <1>3 DEF Register
  <2> QED BY <1>1, <2>1 DEF Grows
<1> QED BY <1>2, <1>3

LEMMA StepGrows ==
    ASSUME SocialLoginInv, NEW r \in REQUESTS, Step(r)
    PROVE  Grows
<1>1. now \in Nat /\ TypesStores /\ Person(r) \in USERS
  BY JobTypes DEF SocialLoginInv, Types
<1>2. UNCHANGED rows => Grows
  BY <1>1 DEF rows, Grows, TypesStores
<1>3. Register(Person(r)) => Grows
  BY <1>1, RegisterGrows
<1>4. CASE SelectRow(r)
  <2>1. row' = row /\ (unseenAt' = unseenAt \/ unseenAt' = [unseenAt EXCEPT ![Person(r)] = now])
    BY <1>4 DEF SelectRow
  <2>2. /\ unseenAt' \in [USERS -> Int]
        /\ \A u \in USERS : unseenAt'[u] = unseenAt[u] \/ unseenAt'[u] = now
    BY <1>1, <2>1 DEF TypesStores
  <2> QED BY <1>1, <2>1, <2>2 DEF Grows, TypesStores
<1>5. CASE Hydrate(r) \/ EnsureProfile(r) \/ RegisterElsewhere(r) \/ UpsertProfile(r)
  BY <1>2, <1>3, <1>5 DEF Hydrate, EnsureProfile, RegisterElsewhere, UpsertProfile
<1>6. CASE \/ CheckExists(r) \/ FillExists(r) \/ BeginLookup(r) \/ Share(r) \/ AnswerOffline(r)
           \/ VerifyLater(r) \/ Guess(r) \/ AnswerGuess(r) \/ CacheUser(r) \/ ReadIndex(r)
           \/ WriteIndex(r) \/ ReadTokens(r) \/ EditProfile(r) \/ FindIndex(r) \/ EraseIndex(r)
  BY <1>2, <1>6 DEF CheckExists, FillExists, BeginLookup, Share, AnswerOffline, VerifyLater, Guess, AnswerGuess,
         CacheUser, ReadIndex, WriteIndex, ReadTokens, EditProfile, FindIndex, EraseIndex
<1>7. CASE \/ DropTokens(r) \/ DropIndex(r) \/ LookFast(r) \/ Enter(r) \/ EnterOffline(r)
           \/ EnterMissed(r) \/ AskElsewhere(r) \/ Enlist(r) \/ Exchange(r) \/ KeepTicket(r)
           \/ ReadTicket(r) \/ Redeem(r)
  BY <1>2, <1>7 DEF DropTokens, DropIndex, LookFast, Enter, EnterOffline, EnterMissed, AskElsewhere, Enlist,
         Exchange, KeepTicket, ReadTicket, Redeem
<1> QED BY <1>4, <1>5, <1>6, <1>7 DEF Step

\* What a request writes of the user's registration.
LEMMA StepExists ==
    ASSUME SocialLoginInv, NEW r \in REQUESTS, Step(r)
    PROVE  \/ exists' = exists
           \/ exists' = [exists EXCEPT ![Person(r)] = NoCheck]
           \/ /\ at[r] = "filling" /\ UNCHANGED rows
              /\ exists' = [exists EXCEPT ![Person(r)] = [yes |-> got[r].yes, until |-> now + EXISTS_TTL]]
<1>1. CASE FillExists(r)
  BY <1>1 DEF FillExists, ExistsLife
<1>2. CASE DropTokens(r) \/ EditProfile(r)
  BY <1>2 DEF DropTokens, EditProfile
<1>3. CASE AnswerOffline(r) \/ Guess(r) \/ AnswerGuess(r)
  BY <1>3 DEF AnswerOffline, Guess, AnswerGuess, Prime, checks
<1>4. CASE \/ CheckExists(r) \/ SelectRow(r) \/ BeginLookup(r) \/ Share(r) \/ VerifyLater(r)
           \/ CacheUser(r) \/ ReadIndex(r) \/ WriteIndex(r) \/ ReadTokens(r) \/ DropIndex(r)
           \/ FindIndex(r) \/ EraseIndex(r) \/ LookFast(r) \/ Enter(r)
  BY <1>4 DEF CheckExists, SelectRow, BeginLookup, Share, VerifyLater, CacheUser, ReadIndex, WriteIndex,
         ReadTokens, DropIndex, FindIndex, EraseIndex, LookFast, Enter, checks
<1>5. CASE \/ Hydrate(r) \/ EnterOffline(r) \/ EnterMissed(r) \/ EnsureProfile(r) \/ AskElsewhere(r)
           \/ RegisterElsewhere(r) \/ Enlist(r) \/ Exchange(r) \/ UpsertProfile(r) \/ KeepTicket(r)
           \/ ReadTicket(r) \/ Redeem(r)
  BY <1>5 DEF Hydrate, EnterOffline, EnterMissed, EnsureProfile, AskElsewhere, RegisterElsewhere, Enlist,
         Exchange, UpsertProfile, KeepTicket, ReadTicket, Redeem, checks
<1> QED BY <1>1, <1>2, <1>3, <1>4, <1>5 DEF Step

LEMMA UnseenEarlier ==
    ASSUME TypesStores, NEW u \in USERS, NEW time \in Int, NEW early \in Int, early <= time, Unseen(u, time)
    PROVE  Unseen(u, early)
BY DEF TypesStores, Unseen

LEMMA Graces ==
    /\ RowGrace \in Nat /\ MemoryGrace = RowGrace + CHECK_TTL /\ SharedGrace = RowGrace + CHECK_TTL + LATENCY
    /\ LookupGrace = RowGrace + CHECK_TTL + 2 * LATENCY - 1
    /\ LATENCY \in Nat /\ LATENCY >= 1 /\ CHECK_TTL \in Nat /\ FAST_TTL \in Nat /\ FAST_TTL <= CHECK_TTL
    /\ EXISTS_TTL \in Nat /\ RowGrace = EXISTS_TTL + 2 * LATENCY - 1 /\ EXPIRES \in [TOKENS -> Int]
BY SocialLoginAssumption DEF RowGrace, MemoryGrace, SharedGrace, LookupGrace

\* Who is under way began within LATENCY.
LEMMA InTime ==
    ASSUME SocialLoginInv, NEW r \in REQUESTS, Active(r)
    PROVE  began[r] \in Int /\ now \in Int /\ began[r] <= now /\ now <= began[r] + LATENCY
BY DEF SocialLoginInv, Types, TypesRequests, Requests, Clock

\* What a request has found in the table is known to be so since no longer than the
\* user's answer may live.
LEMMA CheckedUnseen ==
    ASSUME SocialLoginInv, NEW r \in REQUESTS, at[r] = "checked", ~got[r].yes
    PROVE  Unseen(Person(r), now - RowGrace)
<1>1. Unseen(Person(r), began[r] - RowGrace + LATENCY) /\ Active(r)
  BY DEF SocialLoginInv, RegisteredInv, RequestSeen, Asked, Active
<1>2. now - RowGrace <= began[r] - RowGrace + LATENCY
  BY <1>1, InTime, Graces
<1> QED BY <1>1, <1>2, InTime, Graces, UnseenEarlier, JobTypes DEF SocialLoginInv, Types

\* What a request leaves behind of its answer.
Answered(r) ==
    /\ UNCHANGED <<sharedCheck, fast>>
    /\ \/ UNCHANGED <<memoryCheck, late>>
       \/ \E yes \in BOOLEAN :
             /\ UNCHANGED rows /\ Kind(r) = "lookup"
             /\ memoryCheck' = [memoryCheck EXCEPT ![Token(r)] = [yes |-> yes, until |-> now + CHECK_TTL]]
             /\ late' = late \cup {Later("check", Token(r), yes)}
             /\ ~yes /\ Reliable(Token(r)) => Unseen(OWNER[Token(r)], now - RowGrace)
       \/ /\ UNCHANGED memoryCheck
          /\ late' \subseteq late \cup {Later("fast", Token(r), "in"), Later("ensure", Person(r), TRUE)}
       \/ /\ UNCHANGED memoryCheck
          /\ Kind(r) = "kakao" /\ (~got[r].yes => Unseen(Person(r), now - RowGrace))
          /\ late' = late \cup {Later("fast", job[r].code, Word(got[r].yes))}

LEMMA StepAnswered ==
    ASSUME SocialLoginInv, NEW r \in REQUESTS, Step(r)
    PROVE  Answered(r)
<1>1. /\ Guessed(r) /\ got[r].yes \in BOOLEAN /\ sharedCheck[Token(r)].yes \in BOOLEAN
      /\ (Kind(r) = "lookup" => Person(r) = OWNER[Token(r)]) /\ Placed(r)
  BY JobTypes DEF SocialLoginInv, Types, TypesRequests, TypesStores, GotType, CheckType, RegisteredInv,
         RequestSeen, Requests
<1>2. CASE AnswerOffline(r)
  <2>1. UNCHANGED <<sharedCheck, fast, rows>> /\ at[r] = "checked" /\ Kind(r) = "lookup"
    BY <1>2 DEF AnswerOffline, checks, kakao, Prime
  <2>2. UNCHANGED <<memoryCheck, late>> \/ Prime(Token(r), got[r].yes)
    BY <1>2 DEF AnswerOffline, checks
  <2> QED BY <1>1, <2>1, <2>2, CheckedUnseen DEF Answered, Prime
<1>3. CASE Guess(r)
  <2>1. UNCHANGED <<sharedCheck, fast, rows>> /\ at[r] = "guessing" /\ Kind(r) = "lookup"
    BY <1>1, <1>3 DEF Guess, checks, kakao, Prime, Placed
  <2>2. UNCHANGED <<memoryCheck, late>> \/ Prime(Token(r), sharedCheck[Token(r)].yes)
    BY <1>3 DEF Guess, checks
  <2> QED BY <1>1, <2>1, <2>2 DEF Answered, Prime, Guessed
<1>4. CASE AnswerGuess(r)
  <2>1. /\ UNCHANGED <<sharedCheck, fast, rows>> /\ at[r] = "checked" /\ Kind(r) = "lookup"
        /\ got[r].path \in {"hit", "miss"} /\ Prime(Token(r), got[r].yes)
    BY <1>4 DEF AnswerGuess, checks, kakao, Prime
  <2> QED BY <1>1, <2>1 DEF Answered, Prime, Guessed, Checking
<1>5. CASE Enlist(r)
  BY <1>5 DEF Enlist, Answered, checks, kakao
<1>6. CASE UpsertProfile(r)
  BY <1>6, CheckedUnseen DEF UpsertProfile, Answered, checks, kakao
<1>7. CASE \/ CheckExists(r) \/ SelectRow(r) \/ FillExists(r) \/ BeginLookup(r) \/ Share(r)
           \/ VerifyLater(r) \/ CacheUser(r) \/ ReadIndex(r) \/ WriteIndex(r) \/ ReadTokens(r)
           \/ DropTokens(r) \/ DropIndex(r) \/ EditProfile(r) \/ FindIndex(r) \/ EraseIndex(r)
  BY <1>7 DEF CheckExists, SelectRow, FillExists, BeginLookup, Share, VerifyLater, CacheUser, ReadIndex,
         WriteIndex, ReadTokens, DropTokens, DropIndex, EditProfile, FindIndex, EraseIndex, checks, kakao,
         Answered, Go
<1>8. CASE \/ LookFast(r) \/ Enter(r) \/ Hydrate(r) \/ EnterOffline(r) \/ EnterMissed(r)
           \/ EnsureProfile(r) \/ AskElsewhere(r) \/ RegisterElsewhere(r) \/ Exchange(r)
           \/ KeepTicket(r) \/ ReadTicket(r) \/ Redeem(r)
  BY <1>8 DEF LookFast, Enter, Hydrate, EnterOffline, EnterMissed, EnsureProfile, AskElsewhere,
         RegisterElsewhere, Exchange, KeepTicket, ReadTicket, Redeem, checks, kakao, Answered
<1> QED BY <1>2, <1>3, <1>4, <1>5, <1>6, <1>7, <1>8 DEF Step

\* A lookup begins, it goes on, or it answers.
Flies(r) ==
    \/ UNCHANGED lookups /\ (Leads(r) <=> Leads(r)')
    \/ /\ at[r] = "new" /\ Leads(r)' /\ now > flight[Token(r)].until /\ outlived' = outlived
       /\ flight' = [flight EXCEPT ![Token(r)] = [by |-> r, until |-> now + WINDOW]]
    \/ /\ Leads(r) /\ ~Leads(r)'
       /\ flight' = [flight EXCEPT ![Token(r)] = NoFlight]
       /\ outlived' = IF now - began[r] > WINDOW THEN outlived \cup {Token(r)} ELSE outlived

LEMMA StepFlies ==
    ASSUME SocialLoginInv, NEW r \in REQUESTS, Step(r)
    PROVE  Flies(r)
<1> USE SocialLoginAssumption
<1>1. /\ at \in [REQUESTS -> PLACES \cup REQUESTS] /\ Kind(r)' = Kind(r) /\ Token(r)' = Token(r) /\ Placed(r)
      /\ \A place : Goto(r, place) => at'[r] = place
  <2>1. Carried(r) /\ at \in [REQUESTS -> PLACES \cup REQUESTS]
    BY StepCarries DEF SocialLoginInv, Types, TypesRequests
  <2> QED BY <2>1 DEF SocialLoginInv, Requests, Carried, Went, Kind, Token, Goto
<1> DEFINE Leads1 == Kind(r) = "lookup" /\ at'[r] \in Asking
<1>2. Leads(r)' <=> Leads1
  BY <1>1 DEF Leads
<1>3. \A k \in REQUESTS : k \notin Asking
  BY DEF PLACES, Asking, Checking
<1> HIDE DEF Leads1
<1> USE DEF Asking, Checking, Caching, Dropping, Placed
<1>4. CASE BeginLookup(r)
  <2>1. CASE UNCHANGED flight /\ Goto(r, "over")
    BY <1>1, <1>2, <1>4, <2>1 DEF BeginLookup, Flies, lookups, Leads, Leads1
  <2>2. CASE now <= flight[Token(r)].until /\ UNCHANGED flight /\ Goto(r, flight[Token(r)].by)
    <3>1. flight[Token(r)].by \in REQUESTS
      BY <2>2, JobTypes DEF SocialLoginInv, Types, LookupsInv
    <3> QED BY <1>1, <1>2, <1>3, <1>4, <2>2, <3>1 DEF BeginLookup, Flies, lookups, Leads, Leads1
  <2>3. CASE /\ now > flight[Token(r)].until
             /\ flight' = [flight EXCEPT ![Token(r)] = [by |-> r, until |-> now + WINDOW]]
             /\ Goto(r, "checking") \/ Goto(r, "guessing")
    BY <1>1, <1>2, <1>4, <2>3 DEF BeginLookup, Flies, Leads1
  <2> QED BY <1>4, <2>1, <2>2, <2>3 DEF BeginLookup, Window
<1>5. CASE AnswerOffline(r)
  <2>1. at[r] = "checked" /\ Kind(r) = "lookup" /\ (Goto(r, "over") \/ Goto(r, "verifying"))
        /\ \E word : Answer(r, word)
    BY <1>5 DEF AnswerOffline
  <2> QED BY <1>1, <1>2, <2>1 DEF Answer, Flies, Leads, Leads1
<1>6. CASE Guess(r)
  <2>1. CASE UNCHANGED lookups /\ Goto(r, "checking")
    BY <1>1, <1>2, <1>6, <2>1 DEF Guess, Flies, Leads, Leads1
  <2>2. CASE Goto(r, "over") /\ \E word : Answer(r, word)
    BY <1>1, <1>2, <1>6, <2>2 DEF Guess, Answer, Flies, Leads, Leads1
  <2> QED BY <1>6, <2>1, <2>2 DEF Guess
<1>7. CASE AnswerGuess(r)
  <2>1. /\ at[r] = "checked" /\ Kind(r) = "lookup" /\ (Goto(r, "over") \/ Goto(r, "caching"))
        /\ \E word : Answer(r, word)
    BY <1>7 DEF AnswerGuess
  <2> QED BY <1>1, <1>2, <2>1 DEF Answer, Flies, Leads, Leads1
<1>8. CASE Share(r)
  BY <1>1, <1>2, <1>3, <1>8 DEF Share, Flies, Leads, Leads1
<1>9. CASE \/ CheckExists(r) \/ SelectRow(r) \/ FillExists(r) \/ VerifyLater(r) \/ CacheUser(r)
           \/ ReadIndex(r) \/ WriteIndex(r) \/ ReadTokens(r) \/ DropTokens(r) \/ DropIndex(r)
           \/ EditProfile(r) \/ FindIndex(r) \/ EraseIndex(r) \/ LookFast(r) \/ Enter(r)
  BY <1>1, <1>2, <1>9 DEF CheckExists, SelectRow, FillExists, VerifyLater, CacheUser, ReadIndex, WriteIndex, ReadTokens,
         DropTokens, DropIndex, EditProfile, FindIndex, EraseIndex, LookFast, Enter, Go, Flies, Leads, Leads1
<1>10. CASE \/ Hydrate(r) \/ EnterOffline(r) \/ EnterMissed(r) \/ EnsureProfile(r)
            \/ AskElsewhere(r) \/ RegisterElsewhere(r) \/ Enlist(r) \/ Exchange(r)
            \/ UpsertProfile(r) \/ KeepTicket(r) \/ ReadTicket(r) \/ Redeem(r)
  BY <1>1, <1>2, <1>10 DEF Hydrate, EnterOffline, EnterMissed, EnsureProfile, AskElsewhere, RegisterElsewhere, Enlist,
         Exchange, UpsertProfile, KeepTicket, ReadTicket, Redeem, Go, Flies, Leads, Leads1
<1> QED BY <1>4, <1>5, <1>6, <1>7, <1>8, <1>9, <1>10 DEF Step

\* Where a step leads, and what the request may have said by then.
LEMMA StepPlaced ==
    ASSUME SocialLoginInv, NEW r \in REQUESTS, Step(r)
    PROVE  Placed(r)' /\ at'[r] # "new" /\ (at'[r] \in REQUESTS => at[r] = "new" /\ UNCHANGED <<said, got>>)
<1> USE SocialLoginAssumption
<1>1. /\ at \in [REQUESTS -> PLACES \cup REQUESTS] /\ Kind(r)' = Kind(r) /\ Placed(r)
      /\ \A place : Goto(r, place) => at'[r] = place
      /\ \A word \in {"in", "yes", "no", "refused", "done"} : Say(r, word) => said'[r].word = word
      /\ said[r].word \in {"none", "in", "yes", "no", "refused", "done"}
      /\ \A k \in REQUESTS : said[k].word \in {"none", "in", "yes", "no", "refused", "done"}
  <2>1. Carried(r) /\ at \in [REQUESTS -> PLACES \cup REQUESTS] /\ now \in Nat /\ TypesRequests
    BY StepCarries DEF SocialLoginInv, Types, TypesRequests
  <2> QED BY <2>1, SaySaid DEF SocialLoginInv, Requests, Carried, Went, Kind, Goto, TypesRequests, SaidType
<1> DEFINE Ends(place) ==
             /\ place \in REQUESTS \cup {"guessing", "verifying"} => Kind(r) = "lookup"
             /\ place \in Caching => Kind(r) \in {"lookup", "login"}
             /\ place \in {"hydrating", "offline", "missed", "session", "invalidating"} => Kind(r) = "login"
             /\ place \in Dropping => Kind(r) \in {"revoke", "login"}
             /\ place \in {"looking", "erasing"} => Kind(r) = "edit"
             /\ place = "ticketing" => Kind(r) = "kakao"
             /\ place = "redeeming" => Kind(r) = "finalize"
             /\ place = "entering" => Kind(r) \in {"login", "kakao"}
             /\ place \in Checking => Kind(r) \notin {"finalize", "kakaoLookup"}
             /\ Kind(r) = "lookup" /\ place \in {"new"} \cup Asking \cup REQUESTS => said'[r].word = "none"
             /\ Kind(r) = "lookup" /\ place \in {"verifying", "over"} \cup Caching => said'[r].word # "none"
             /\ Kind(r) = "finalize" /\ place # "over" => said'[r].word = "none"
           Good == Ends(at'[r]) /\ at'[r] # "new"
           Joins == at'[r] \in REQUESTS => at[r] = "new" /\ UNCHANGED <<said, got>>
<1>2. Good => Placed(r)'
  BY <1>1 DEF Placed
<1>3. \A k \in REQUESTS : k \notin PLACES
  OBVIOUS
<1>4. \A yes : Word(yes) \in {"in", "yes", "no", "refused", "done"}
  BY DEF Word
<1> USE DEF PLACES, Asking, Checking, Caching, Dropping, Placed, Joins
<1>5. ASSUME BeginLookup(r) PROVE Good /\ Joins
  <2>1. /\ Kind(r) = "lookup" /\ at[r] = "new"
        /\ \/ Goto(r, "over") /\ \E yes : Say(r, Word(yes))
           \/ now <= flight[Token(r)].until /\ Goto(r, flight[Token(r)].by) /\ UNCHANGED <<got, said>>
           \/ Goto(r, "checking") /\ UNCHANGED said
           \/ Goto(r, "guessing") /\ UNCHANGED said
    BY <1>5 DEF BeginLookup
  <2>2. now <= flight[Token(r)].until => flight[Token(r)].by \in REQUESTS
    BY JobTypes DEF SocialLoginInv, Types, LookupsInv
  <2>3. CASE Goto(r, "over") /\ \E yes : Say(r, Word(yes))
    BY <1>1, <1>3, <1>4, <2>1, <2>3
  <2>4. CASE now <= flight[Token(r)].until /\ Goto(r, flight[Token(r)].by) /\ UNCHANGED <<got, said>>
    BY <1>1, <1>3, <2>1, <2>2, <2>4
  <2>5. CASE (Goto(r, "checking") \/ Goto(r, "guessing")) /\ UNCHANGED said
    BY <1>1, <1>3, <2>1, <2>5
  <2> QED BY <2>1, <2>3, <2>4, <2>5
<1>6. ASSUME Share(r) PROVE Good /\ Joins
  <2>1. said'[r].word # "none" /\ at'[r] = "over"
    <3>1. said[at[r]].word \in {"in", "yes", "no", "refused", "done"}
      BY <1>1, <1>6 DEF Share
    <3> QED BY <1>1, <1>6, <3>1 DEF Share
  <2> QED BY <1>1, <1>3, <1>6, <2>1 DEF Share
<1>7. ASSUME AnswerOffline(r) PROVE Good /\ Joins
  <2>1. /\ Kind(r) = "lookup" /\ (Goto(r, "over") \/ Goto(r, "verifying"))
        /\ \E word \in {"yes", "no"} : Say(r, word)
    <3>1. /\ got[r].cached \in {"unread", "none", "yes", "no"} /\ RedisSays(Token(r)) \in {"none", "yes", "no"}
          /\ Word(got[r].yes) \in {"yes", "no"}
      BY DEF SocialLoginInv, Types, TypesRequests, GotType, RedisSays, Word
    <3> QED BY <1>7, <3>1 DEF AnswerOffline, Answer
  <2> QED BY <1>1, <1>3, <2>1
<1>8. ASSUME Guess(r) PROVE Good /\ Joins
  BY <1>1, <1>3, <1>4, <1>8 DEF Guess, Answer
<1>9. ASSUME AnswerGuess(r) PROVE Good /\ Joins
  BY <1>1, <1>3, <1>4, <1>9 DEF AnswerGuess, Answer
<1>10. ASSUME CheckExists(r) \/ SelectRow(r) \/ FillExists(r) \/ VerifyLater(r) PROVE Good /\ Joins
  BY <1>1, <1>3, <1>10 DEF CheckExists, SelectRow, FillExists, VerifyLater, Go
<1>11. ASSUME CacheUser(r) \/ ReadIndex(r) \/ WriteIndex(r) PROVE Good /\ Joins
  BY <1>1, <1>3, <1>11 DEF CacheUser, ReadIndex, WriteIndex, Go
<1>12. ASSUME \/ ReadTokens(r) \/ DropTokens(r) \/ DropIndex(r)
              \/ EditProfile(r) \/ FindIndex(r) \/ EraseIndex(r)
       PROVE  Good /\ Joins
  BY <1>1, <1>3, <1>12 DEF ReadTokens, DropTokens, DropIndex, EditProfile, FindIndex, EraseIndex, Go
<1>13. ASSUME LookFast(r) \/ Enter(r) \/ Hydrate(r) \/ EnterOffline(r) \/ EnterMissed(r) PROVE Good /\ Joins
  BY <1>1, <1>3, <1>13 DEF LookFast, Enter, Hydrate, EnterOffline, EnterMissed
<1>14. ASSUME EnsureProfile(r) \/ AskElsewhere(r) \/ RegisterElsewhere(r) \/ Enlist(r) PROVE Good /\ Joins
  <2>1. CASE EnsureProfile(r)
    <3>1. Kind(r) = "login" /\ (Goto(r, "caching") \/ Goto(r, "over"))
      BY <2>1 DEF EnsureProfile
    <3> QED BY <1>1, <1>3, <3>1
  <2>2. CASE AskElsewhere(r) \/ RegisterElsewhere(r)
    BY <1>1, <1>3, <2>2 DEF AskElsewhere, RegisterElsewhere, Go
  <2>3. CASE Enlist(r)
    <3>1. /\ at[r] = "session"
          /\ Goto(r, "caching") \/ Goto(r, "invalidating") \/ Goto(r, "over")
      BY <2>3 DEF Enlist
    <3> QED BY <1>1, <1>3, <3>1
  <2> QED BY <1>14, <2>1, <2>2, <2>3
<1>15. ASSUME Exchange(r) \/ UpsertProfile(r) \/ KeepTicket(r) PROVE Good /\ Joins
  <2>1. CASE UpsertProfile(r)
    <3>1. Kind(r) = "kakao" /\ (Goto(r, "ticketing") \/ Goto(r, "over"))
      BY <2>1 DEF UpsertProfile
    <3> QED BY <1>1, <1>3, <3>1
  <2>2. CASE Exchange(r) \/ KeepTicket(r)
    BY <1>1, <1>3, <1>4, <2>2 DEF Exchange, KeepTicket
  <2> QED BY <1>15, <2>1, <2>2
<1>16. ASSUME ReadTicket(r) \/ Redeem(r) PROVE Good /\ Joins
  BY <1>1, <1>3, <1>16 DEF ReadTicket, Redeem
<1> QED BY <1>2, <1>5, <1>6, <1>7, <1>8, <1>9, <1>10, <1>11, <1>12, <1>13, <1>14, <1>15, <1>16 DEF Step, Good

\* Who keeps, reads and redeems a ticket.
Pays(r) ==
    \/ UNCHANGED ticket /\ Kind(r) # "finalize"
    \/ /\ at[r] = "ticketing" /\ at'[r] = "over" /\ Kind(r) = "kakao"
       /\ ticket' = [ticket EXCEPT ![r] = [said |-> Word(got[r].yes), until |-> now + TICKET_TTL]]
    \/ /\ at[r] = "new" /\ Kind(r) = "finalize" /\ UNCHANGED <<ticket, said>>
       /\ (got'[r].yes => now < ticket[job[r].ticket].until)
    \/ /\ at[r] = "redeeming" /\ at'[r] = "over" /\ Kind(r) = "finalize" /\ UNCHANGED got
       /\ (said'[r].word = "in" => got[r].yes)
       /\ ticket' = [ticket EXCEPT ![job[r].ticket] = NoFast]

LEMMA StepPays ==
    ASSUME SocialLoginInv, NEW r \in REQUESTS, Step(r)
    PROVE  Pays(r)
<1> USE SocialLoginAssumption
<1>1. /\ Placed(r) /\ got \in [REQUESTS -> GotType] /\ got[r].yes \in BOOLEAN
      /\ \A place : Goto(r, place) => at'[r] = place
      /\ \A word \in {"in", "yes", "no", "refused", "done"} : Say(r, word) => said'[r].word = word
  <2>1. now \in Nat /\ TypesRequests /\ Placed(r)
    BY DEF SocialLoginInv, Types, Requests
  <2> QED BY <2>1, SaySaid DEF TypesRequests, GotType, Goto
<1> USE DEF Checking, Caching, Dropping, Placed
<1>2. CASE KeepTicket(r)
  BY <1>1, <1>2 DEF KeepTicket, Pays
<1>3. CASE ReadTicket(r)
  <2>1. got'[r].yes => now < ticket[job[r].ticket].until
    <3>1. CASE got' = [got EXCEPT ![r].yes = now < ticket[job[r].ticket].until]
      <4>1. got'[r] = [got[r] EXCEPT !.yes = now < ticket[job[r].ticket].until]
        BY Zenon, <1>1, <3>1
      <4>2. got'[r].yes = (now < ticket[job[r].ticket].until)
        BY <1>1, <4>1 DEF GotType
      <4> QED BY Zenon, <4>2
    <3>2. CASE got' = got
      BY <1>1, <1>3, <3>2 DEF ReadTicket
    <3> QED BY <1>3, <3>1, <3>2 DEF ReadTicket
  <2> QED BY <1>3, <2>1 DEF ReadTicket, Pays, kakao
<1>4. CASE Redeem(r)
  BY <1>1, <1>4 DEF Redeem, Pays
<1>5. CASE AnswerOffline(r) \/ Guess(r) \/ AnswerGuess(r)
  BY <1>1, <1>5 DEF AnswerOffline, Guess, AnswerGuess, Pays, kakao
<1>6. CASE ReadTokens(r) \/ Share(r) \/ VerifyLater(r) \/ Exchange(r)
  BY <1>1, <1>6 DEF ReadTokens, Share, VerifyLater, Exchange, Pays, kakao
<1>7. CASE \/ CheckExists(r) \/ SelectRow(r) \/ FillExists(r) \/ BeginLookup(r) \/ CacheUser(r)
           \/ ReadIndex(r) \/ WriteIndex(r) \/ DropTokens(r) \/ DropIndex(r) \/ LookFast(r)
           \/ EditProfile(r) \/ FindIndex(r) \/ EraseIndex(r)
  BY <1>1, <1>7 DEF CheckExists, SelectRow, FillExists, BeginLookup, CacheUser, ReadIndex, WriteIndex, DropTokens,
         DropIndex, LookFast, EditProfile, FindIndex, EraseIndex, Go, Pays, kakao
<1>8. CASE \/ Enter(r) \/ Hydrate(r) \/ EnterOffline(r) \/ EnterMissed(r) \/ EnsureProfile(r)
           \/ AskElsewhere(r) \/ RegisterElsewhere(r) \/ Enlist(r) \/ UpsertProfile(r)
  BY <1>1, <1>8 DEF Enter, Hydrate, EnterOffline, EnterMissed, EnsureProfile, AskElsewhere, RegisterElsewhere,
         Enlist, UpsertProfile, Go, Pays, kakao
<1> QED BY <1>2, <1>3, <1>4, <1>5, <1>6, <1>7, <1>8 DEF Step

\* How a request comes to say no to a user who may be registered.
LEMMA StepDenies ==
    ASSUME SocialLoginInv, NEW r \in REQUESTS, Step(r), said'[r] # said[r], Denied(r)'
    PROVE  /\ said'[r].time = now /\ Unseen(Person(r), now - LookupGrace - LATENCY)
           /\ Leads(r) => Unseen(Person(r), now - LookupGrace)
<1> USE SocialLoginAssumption, Graces
<1>1. /\ Placed(r) /\ Kind(r)' = Kind(r) /\ Token(r)' = Token(r) /\ Token(r) \in TOKENS /\ now \in Nat
      /\ Kind(r) = "lookup" => Person(r) = OWNER[Token(r)]
      /\ Asked(r) /\ Offline(r) /\ Guessed(r) /\ Shares(r) /\ Person(r) \in USERS /\ TypesStores /\ TypesRequests
      /\ \A word \in {"in", "yes", "no", "refused", "done"} : Say(r, word) =>
            said'[r] = [word |-> word, time |-> IF word = "no" THEN now ELSE 0]
  <2>1. now \in Nat /\ TypesRequests /\ Placed(r)
    BY DEF SocialLoginInv, Types, Requests
  <2>2. Carried(r)
    BY StepCarries
  <2> QED BY <2>1, <2>2, JobTypes, SaySaid DEF SocialLoginInv, Types, Requests, RegisteredInv, RequestSeen,
           Carried, Went, Kind, Token
<1>2. /\ said'[r].word = "no"
      /\ \/ Kind(r) = "lookup" /\ Token(r) \notin OPAQUE /\ said'[r].time < EXPIRES[Token(r)]
         \/ Kind(r) = "kakao"
  BY <1>1 DEF Denied
<1> DEFINE Does == /\ said'[r].time = now /\ Unseen(Person(r), now - LookupGrace - LATENCY)
                   /\ Leads(r) => Unseen(Person(r), now - LookupGrace)
           Soon == Unseen(Person(r), now - LookupGrace)
<1>3. said'[r].time = now /\ Soon => Does
  BY <1>1, UnseenEarlier
<1>4. ASSUME NEW time \in Int, Unseen(Person(r), time), now - LookupGrace <= time PROVE Soon
  BY <1>1, <1>4, UnseenEarlier
<1>5. \A yes \in BOOLEAN : Word(yes) \in {"yes", "no"} /\ (Word(yes) = "no" <=> ~yes)
  BY DEF Word
<1>6. ASSUME Active(r) PROVE began[r] \in Int /\ began[r] <= now /\ now <= began[r] + LATENCY
  BY <1>6, InTime
<1>7. got[r].yes \in BOOLEAN /\ got[r].cached \in {"unread", "none", "yes", "no"}
  BY <1>1 DEF TypesRequests, GotType
<1>8. ASSUME Kind(r) = "lookup", said'[r].time = now PROVE Reliable(Token(r))
  BY <1>1, <1>2, <1>8 DEF Reliable
<1>9. /\ memoryCheck[Token(r)].until \in Int /\ memoryCheck[Token(r)].yes \in BOOLEAN
      /\ sharedCheck[Token(r)].until \in Int /\ sharedCheck[Token(r)].yes \in BOOLEAN
  BY <1>1 DEF TypesStores, CheckType
<1>10. ASSUME RedisSays(Token(r)) = "no", Reliable(Token(r)), Kind(r) = "lookup" PROVE Soon
  <2>1. now < sharedCheck[Token(r)].until /\ ~sharedCheck[Token(r)].yes
    BY <1>5, <1>9, <1>10 DEF RedisSays
  <2>2. Unseen(Person(r), sharedCheck[Token(r)].until - SharedGrace)
    BY <1>1, <1>10, <2>1 DEF SocialLoginInv, RegisteredInv, TokenSeen, RequestSeen
  <2>3. now - LookupGrace <= sharedCheck[Token(r)].until - SharedGrace /\ sharedCheck[Token(r)].until - SharedGrace \in Int
    BY <1>1, <1>9, <2>1
  <2> QED BY <1>4, <2>2, <2>3
<1>11. ASSUME BeginLookup(r) PROVE Does
  <2>1. Kind(r) = "lookup" /\ now <= memoryCheck[Token(r)].until /\ Say(r, Word(memoryCheck[Token(r)].yes))
    BY <1>11 DEF BeginLookup
  <2>2. ~memoryCheck[Token(r)].yes /\ said'[r].time = now
    BY <1>1, <1>2, <1>5, <1>9, <2>1
  <2>3. Unseen(Person(r), memoryCheck[Token(r)].until - MemoryGrace)
    BY <1>1, <1>8, <2>1, <2>2 DEF SocialLoginInv, RegisteredInv, TokenSeen, RequestSeen
  <2>4. now - LookupGrace <= memoryCheck[Token(r)].until - MemoryGrace /\ memoryCheck[Token(r)].until - MemoryGrace \in Int
    BY <1>1, <1>9, <2>1
  <2> QED BY <1>3, <1>4, <2>2, <2>3, <2>4
<1>12. ASSUME Share(r) PROVE Does
  <2> DEFINE k == at[r]
  <2>1. k \in REQUESTS /\ said[k].word # "none" /\ Say(r, said[k].word)
    BY <1>12 DEF Share
  <2>2. said[k].word \in {"in", "yes", "no", "refused", "done"} /\ said[k].time \in Int
    BY <1>1, <2>1 DEF TypesRequests, SaidType
  <2>3. said[k].word = "no" /\ said'[r].time = now
    BY <1>1, <1>2, <2>1, <2>2
  <2>4. Kind(r) = "lookup" /\ Kind(k) = "lookup" /\ Token(k) = Token(r) /\ ~Leads(r) /\ Active(r)
    <3>1. k \notin PLACES
      BY <2>1
    <3> QED BY <1>1, <2>1, <3>1 DEF Placed, Shares, Leads, Asking, Checking, Active, PLACES
  <2>5. said[k].time <= now
    BY <2>1, <2>3 DEF SocialLoginInv, RegisteredInv, TokenSeen, RequestSeen
  <2>6. Denied(k)
    BY <1>1, <1>2, <2>2, <2>3, <2>4, <2>5 DEF Denied
  <2>7. began[r] <= said[k].time /\ Unseen(Person(r), said[k].time - LookupGrace)
    BY <1>1, <2>1, <2>6 DEF Shares
  <2>8. now - LookupGrace - LATENCY <= said[k].time - LookupGrace
    BY <1>1, <1>6, <2>2, <2>4, <2>7
  <2>9. Unseen(Person(r), now - LookupGrace - LATENCY)
    BY <1>1, <2>2, <2>7, <2>8, UnseenEarlier
  <2> QED BY <2>3, <2>4, <2>9
<1>13. ASSUME AnswerOffline(r) PROVE Does
  <2> DEFINE cached == IF got[r].cached = "unread" THEN RedisSays(Token(r)) ELSE got[r].cached
  <2>1. /\ Kind(r) = "lookup" /\ at[r] = "checked" /\ got[r].path = "offline"
        /\ (cached # "none" /\ Say(r, cached)) \/ (cached = "none" /\ Say(r, Word(got[r].yes)))
    BY <1>13 DEF AnswerOffline, Answer
  <2>2. cached \in {"none", "yes", "no"}
    BY <1>5, <1>7, <1>9 DEF RedisSays
  <2>3. said'[r].time = now /\ (cached = "no" \/ (cached = "none" /\ ~got[r].yes))
    BY <1>1, <1>2, <1>5, <1>7, <2>1, <2>2
  <2>4. CASE got[r].cached = "no"
    <3>1. Unseen(Person(r), began[r] - SharedGrace + 1)
      BY <1>1, <2>1, <2>4 DEF Offline, Checking
    <3>2. Active(r)
      BY <2>1 DEF Active
    <3> QED BY <1>1, <1>3, <1>4, <1>6, <2>3, <3>1, <3>2
  <2>5. CASE cached = "no" /\ got[r].cached = "unread"
    BY <1>3, <1>8, <1>10, <2>1, <2>3, <2>5
  <2>6. CASE cached = "none" /\ ~got[r].yes
    <3>1. Unseen(Person(r), now - RowGrace)
      BY <2>1, <2>6, CheckedUnseen
    <3> QED BY <1>1, <1>3, <1>4, <2>3, <3>1
  <2> QED BY <2>3, <2>4, <2>5, <2>6
<1>14. ASSUME Guess(r) PROVE Does
  <2>1. /\ at[r] = "guessing" /\ Kind(r) = "lookup"
        /\ Say(r, Word(sharedCheck[Token(r)].yes)) \/ Say(r, "refused")
    BY <1>1, <1>14 DEF Guess, Answer, Placed
  <2>2. said'[r].time = now
    BY <1>1, <1>2, <1>5, <1>9, <2>1
  <2> QED BY <1>1, <1>8, <2>1, <2>2 DEF Guessed
<1>15. ASSUME AnswerGuess(r) PROVE Does
  <2>1. at[r] = "checked" /\ Kind(r) = "lookup" /\ got[r].path \in {"hit", "miss"} /\ Say(r, Word(got[r].yes))
    BY <1>15 DEF AnswerGuess, Answer
  <2>2. said'[r].time = now
    BY <1>1, <1>2, <1>5, <1>7, <2>1
  <2> QED BY <1>1, <1>8, <2>1, <2>2 DEF Guessed, Checking
<1>16. ASSUME KeepTicket(r) PROVE Does
  <2>1. at[r] = "ticketing" /\ Say(r, Word(got[r].yes)) /\ Active(r)
    BY <1>16 DEF KeepTicket, Active
  <2>2. said'[r].time = now /\ ~got[r].yes
    BY <1>1, <1>2, <1>5, <1>7, <2>1
  <2>3. Unseen(Person(r), began[r] - SharedGrace + 1)
    BY <1>1, <2>1, <2>2 DEF Asked
  <2> QED BY <1>1, <1>3, <1>4, <1>6, <2>1, <2>2, <2>3
<1>17. /\ ~Exchange(r) /\ ~LookFast(r) /\ ~EnterMissed(r) /\ ~Enlist(r) /\ ~Redeem(r)
       /\ ~EnsureProfile(r) /\ ~UpsertProfile(r)
  <2>1. ~Exchange(r)
    BY <1>1, <1>2 DEF Exchange
  <2>2. ~LookFast(r) /\ ~EnterMissed(r)
    BY <1>1, <1>2 DEF LookFast, EnterMissed
  <2>3. ~Enlist(r) /\ ~Redeem(r)
    BY <1>1, <1>2 DEF Enlist, Redeem, Placed
  <2>4. ~EnsureProfile(r) /\ ~UpsertProfile(r)
    BY <1>1, <1>2 DEF EnsureProfile, UpsertProfile
  <2> QED BY <2>1, <2>2, <2>3, <2>4
<1>18. ~CheckExists(r) /\ ~SelectRow(r) /\ ~FillExists(r) /\ ~VerifyLater(r) /\ ~CacheUser(r) /\ ~ReadIndex(r)
       /\ ~WriteIndex(r) /\ ~ReadTokens(r) /\ ~DropTokens(r) /\ ~DropIndex(r)
       /\ ~EditProfile(r) /\ ~FindIndex(r) /\ ~EraseIndex(r)
  BY DEF CheckExists, SelectRow, FillExists, VerifyLater, CacheUser, ReadIndex, WriteIndex, ReadTokens, DropTokens,
         DropIndex, EditProfile, FindIndex, EraseIndex, Go
<1>19. ~Enter(r) /\ ~Hydrate(r) /\ ~EnterOffline(r) /\ ~AskElsewhere(r) /\ ~RegisterElsewhere(r) /\ ~ReadTicket(r)
  BY DEF Enter, Hydrate, EnterOffline, AskElsewhere, RegisterElsewhere, ReadTicket, Go
<1> QED BY <1>11, <1>12, <1>13, <1>14, <1>15, <1>16, <1>17, <1>18, <1>19 DEF Step

LEMMA TrackedTypes ==
    ASSUME NEW t \in TOKENS, NEW keys \in Seq(TOKENS)
    PROVE  Tracked(t, keys) \in Seq(TOKENS) /\ t \in Keys(Tracked(t, keys))
<1> DEFINE n == Len(keys) + IF t \in Keys(keys) THEN 0 ELSE 1
           m == IF n < INDEX_LIMIT THEN n ELSE INDEX_LIMIT
           tracked(i) == IF i = 1 THEN t
                         ELSE IF \E j \in 1 .. i - 1 : keys[j] = t THEN keys[i] ELSE keys[i - 1]
<1>1. INDEX_LIMIT \in Nat /\ INDEX_LIMIT >= 1
  BY SocialLoginAssumption
<1>2. n \in Nat /\ n >= 1
  <2>1. CASE t \in Keys(keys)
    <3>1. DOMAIN keys # {}
      BY <2>1 DEF Keys
    <3> QED BY <2>1, <3>1
  <2>2. CASE t \notin Keys(keys)
    BY <2>2
  <2> QED BY <2>1, <2>2
<1>3. m \in Nat /\ m >= 1 /\ m <= n
  BY <1>1, <1>2
<1>4. ASSUME NEW i \in 1 .. m PROVE tracked(i) \in TOKENS
  <2>1. CASE i = 1
    BY <2>1
  <2>2. CASE i # 1 /\ \E j \in 1 .. i - 1 : keys[j] = t
    <3>1. PICK j \in 1 .. i - 1 : keys[j] = t
      BY <2>2
    <3>2. i <= Len(keys)
      <4>1. CASE t \in Keys(keys)
        BY <1>3, <4>1
      <4>2. CASE t \notin Keys(keys)
        <5>1. j \notin DOMAIN keys
          BY <3>1, <4>2 DEF Keys
        <5> QED BY <1>2, <1>3, <3>1, <4>2, <5>1
      <4> QED BY <4>1, <4>2
    <3> QED BY <1>3, <2>2, <3>2
  <2>3. CASE i # 1 /\ ~\E j \in 1 .. i - 1 : keys[j] = t
    <3>1. i - 1 \in 1 .. Len(keys)
      BY <1>2, <1>3, <2>3
    <3> QED BY <2>3, <3>1
  <2> QED BY <2>1, <2>2, <2>3
<1>5. Tracked(t, keys) = [i \in 1 .. m |-> tracked(i)]
  BY DEF Tracked
<1> HIDE DEF m, tracked
<1>6. Tracked(t, keys) \in Seq(TOKENS)
  BY <1>3, <1>4, <1>5
<1>7. DOMAIN Tracked(t, keys) = 1 .. m /\ Tracked(t, keys)[1] = tracked(1) /\ 1 \in 1 .. m
  BY <1>3, <1>5
<1>8. tracked(1) = t
  BY DEF tracked
<1> QED BY <1>6, <1>7, <1>8 DEF Keys

\* What a request does to the tokens of its user in Redis.
Indexing == {"tracking", "indexing"} \cup Dropping
Kept == UNCHANGED <<sharedUser, index, crowded, orphaned>>
Files(r) ==
    \/ UNCHANGED <<sharedUser, index, crowded, orphaned, raced>> /\ {at[r], at'[r]} \cap Indexing = {}
    \/ /\ at[r] = "caching" /\ at'[r] = "tracking" /\ UNCHANGED <<index, crowded, orphaned, raced, got>>
       /\ \E complete \in BOOLEAN :
            sharedUser' = [sharedUser EXCEPT ![Token(r)] = [complete |-> complete, until |-> now + USER_TTL]]
    \/ /\ \/ at[r] = "tracking" /\ at'[r] = "indexing"
          \/ at[r] \notin Indexing /\ at'[r] = "dropping"
       /\ got'[r].keys = Listed(Person(r)) /\ Overlap(r) /\ Kept
    \/ /\ at[r] = "indexing" /\ at'[r] \in {"session", "over"} /\ UNCHANGED <<sharedUser, raced, got>>
       /\ index' = [index EXCEPT ![Person(r)] =
                       [keys |-> Tracked(Token(r), got[r].keys), until |-> now + INDEX_TTL]]
       /\ crowded' = (crowded \cup (Keys(got[r].keys) \ Keys(Tracked(Token(r), got[r].keys)))) \ {Token(r)}
       /\ orphaned' = orphaned \ {Token(r)}
    \/ /\ at[r] = "dropping" /\ at'[r] = "unlisting" /\ Overlap(r) /\ UNCHANGED <<index, crowded, orphaned, got>>
       /\ sharedUser' = [t \in TOKENS |-> IF t \in Keys(got[r].keys) THEN NoUser ELSE sharedUser[t]]
    \/ /\ at[r] = "unlisting" /\ at'[r] = "over" /\ Overlap(r) /\ UNCHANGED <<sharedUser, crowded, orphaned, got>>
       /\ index' = [index EXCEPT ![Person(r)] = NoIndex]
    \/ /\ {at[r], at'[r]} \cap Indexing = {} /\ UNCHANGED <<sharedUser, raced, crowded, got>>
       /\ index' = [index EXCEPT ![Person(r)] = NoIndex]
       /\ orphaned' = orphaned \cup Keys(Listed(Person(r)))

LEMMA StepFiles ==
    ASSUME SocialLoginInv, NEW r \in REQUESTS, Step(r)
    PROVE  Files(r) /\ memoryUser' \in [TOKENS -> UserType]
<1> USE SocialLoginAssumption
<1>1. /\ Placed(r) /\ got \in [REQUESTS -> GotType] /\ Token(r) \in TOKENS /\ TypesStores /\ now \in Nat
      /\ \A place : Goto(r, place) => at'[r] = place
      /\ got[r].yes \in BOOLEAN
  BY JobTypes DEF SocialLoginInv, Types, Requests, TypesRequests, Goto, GotType
<1> DEFINE Does == Files(r) /\ memoryUser' \in [TOKENS -> UserType]
<1>2. memoryUser \in [TOKENS -> UserType] /\ sharedUser \in [TOKENS -> UserType] /\ MEMORY_TTL \in Nat
  BY <1>1 DEF TypesStores
<1>3. ASSUME FindUser(Token(r)) PROVE UNCHANGED <<sharedUser, index, crowded, orphaned, raced>> /\ memoryUser' \in [TOKENS -> UserType]
  <2>1. [sharedUser[Token(r)] EXCEPT !.until = now + MEMORY_TTL] \in UserType
    BY <1>1, <1>2 DEF UserType
  <2> QED BY <1>1, <1>2, <1>3, <2>1 DEF FindUser
<1>4. \A k \in REQUESTS : k \notin Indexing
  BY DEF PLACES, Indexing, Caching, Dropping
<1>keys. ASSUME NEW keys, got' = [got EXCEPT ![r].keys = keys] PROVE got'[r].keys = keys
  BY <1>1, <1>keys DEF GotType
<1> USE DEF Checking, Caching, Dropping, Indexing, Placed
<1>5. ASSUME CacheUser(r) PROVE Does
  <2>1. PICK complete \in BOOLEAN :
          /\ memoryUser' = [memoryUser EXCEPT ![Token(r)] = [complete |-> complete, until |-> now + MEMORY_TTL]]
          /\ sharedUser' = [sharedUser EXCEPT ![Token(r)] = [complete |-> complete, until |-> now + USER_TTL]]
    <3>1. (/\ Person(r) \in COMPLETE
           /\ (Kind(r) = "login" /\ got[r].path = "offline" => got[r].yes)) \in BOOLEAN
      OBVIOUS
    <3> QED BY Zenon, <1>5, <3>1 DEF CacheUser
  <2>2. memoryUser' \in [TOKENS -> UserType]
    BY <1>1, <1>2, <2>1 DEF UserType
  <2>3. at[r] = "caching" /\ at'[r] = "tracking" /\ UNCHANGED <<index, crowded, orphaned, raced, got>>
    BY <1>1, <1>5 DEF CacheUser, Go
  <2> QED BY <2>1, <2>2, <2>3 DEF Files
<1>6. ASSUME ReadIndex(r) PROVE Does
  <2>1. at[r] = "tracking" /\ at'[r] = "indexing" /\ got'[r].keys = Listed(Person(r)) /\ Overlap(r) /\ Kept
    BY <1>1, <1>6, <1>keys DEF ReadIndex, Kept
  <2> QED BY <1>2, <1>6, <2>1 DEF Files, ReadIndex
<1>7. ASSUME WriteIndex(r) PROVE Does
  <2>1. at[r] = "indexing" /\ at'[r] \in {"session", "over"} /\ UNCHANGED <<sharedUser, raced, got, memoryUser>>
    BY <1>1, <1>7 DEF WriteIndex, Go
  <2> QED BY <1>2, <1>7, <2>1 DEF Files, WriteIndex, IndexLife
<1>8. ASSUME ReadTokens(r) PROVE Does
  <2>1. CASE Goto(r, "dropping") /\ got' = [got EXCEPT ![r].keys = Listed(Person(r))] /\ Overlap(r)
    <3>1. at[r] \notin Indexing /\ at'[r] = "dropping" /\ got'[r].keys = Listed(Person(r)) /\ Overlap(r) /\ Kept
      BY <1>1, <1>8, <1>keys, <2>1 DEF ReadTokens, Kept
    <3> QED BY <1>2, <1>8, <3>1 DEF Files, ReadTokens
  <2>2. CASE Goto(r, "over") /\ UNCHANGED raced
    <3>1. UNCHANGED <<sharedUser, index, crowded, orphaned, raced, memoryUser>> /\ {at[r], at'[r]} \cap Indexing = {}
      BY <1>1, <1>8, <2>2 DEF ReadTokens
    <3> QED BY <1>2, <3>1 DEF Files
  <2> QED BY <1>8, <2>1, <2>2 DEF ReadTokens
<1>9. ASSUME DropTokens(r) PROVE Does
  <2>1. at[r] = "dropping" /\ at'[r] = "unlisting" /\ Overlap(r) /\ UNCHANGED <<index, crowded, orphaned, got, memoryUser>>
    BY <1>1, <1>9 DEF DropTokens, Go
  <2> QED BY <1>2, <1>9, <2>1 DEF Files, DropTokens
<1>10. ASSUME DropIndex(r) PROVE Does
  <2>1. at[r] = "unlisting" /\ at'[r] = "over" /\ Overlap(r) /\ UNCHANGED <<sharedUser, crowded, orphaned, got, memoryUser>>
    BY <1>1, <1>10 DEF DropIndex, Go
  <2> QED BY <1>2, <1>10, <2>1 DEF Files, DropIndex
<1>19. ASSUME EraseIndex(r) PROVE Does
  <2>1. /\ at[r] = "erasing" /\ at'[r] = "over"
        /\ UNCHANGED <<sharedUser, raced, crowded, got, memoryUser>>
        /\ index' = [index EXCEPT ![Person(r)] = NoIndex]
        /\ orphaned' = orphaned \cup Keys(Listed(Person(r)))
    BY <1>1, <1>19 DEF EraseIndex, Go
  <2>2. {at[r], at'[r]} \cap Indexing = {}
    BY <2>1
  <2> QED BY <1>2, <2>1, <2>2 DEF Files
<1> DEFINE Quiet == /\ UNCHANGED <<sharedUser, index, crowded, orphaned, raced>> /\ memoryUser' \in [TOKENS -> UserType]
                    /\ at[r] \notin Indexing /\ at'[r] \notin Indexing
<1>11. Quiet => Does
  BY DEF Files
<1>12. ASSUME BeginLookup(r) PROVE Quiet
  <2>1. now <= flight[Token(r)].until => flight[Token(r)].by \in REQUESTS
    BY <1>1 DEF SocialLoginInv, LookupsInv
  <2> QED BY <1>1, <1>2, <1>4, <1>12, <2>1 DEF BeginLookup, users
<1>13. ASSUME Share(r) PROVE Quiet
  BY <1>1, <1>2, <1>4, <1>13 DEF Share, users
<1>14. ASSUME Guess(r) PROVE Quiet
  BY <1>1, <1>3, <1>14 DEF Guess
<1>15. ASSUME Enter(r) PROVE Quiet
  <2>1. at[r] = "entering" /\ at'[r] \in {"offline", "session", "hydrating"}
    BY <1>1, <1>15 DEF Enter
  <2> QED BY <1>1, <1>3, <1>15, <2>1 DEF Enter
<1>16. ASSUME Enlist(r) PROVE Quiet
  <2>1. at[r] = "session" /\ at'[r] \in {"caching", "invalidating", "over"}
    BY <1>1, <1>16 DEF Enlist
  <2> QED BY <1>2, <1>16, <2>1 DEF Enlist, users
<1>17. ASSUME \/ CheckExists(r) \/ SelectRow(r) \/ FillExists(r) \/ AnswerOffline(r) \/ VerifyLater(r)
            \/ AnswerGuess(r) \/ LookFast(r) \/ Hydrate(r) \/ EnterOffline(r)
       PROVE Quiet
  BY <1>1, <1>2, <1>17 DEF CheckExists, SelectRow, FillExists, AnswerOffline, VerifyLater, AnswerGuess, LookFast, Hydrate,
         EnterOffline, Go, users
<1>18. ASSUME \/ EnterMissed(r) \/ EnsureProfile(r) \/ AskElsewhere(r) \/ RegisterElsewhere(r)
            \/ Exchange(r) \/ UpsertProfile(r) \/ KeepTicket(r) \/ ReadTicket(r) \/ Redeem(r)
       PROVE Quiet
  BY <1>1, <1>2, <1>18 DEF EnterMissed, EnsureProfile, AskElsewhere, RegisterElsewhere, Exchange, UpsertProfile,
         KeepTicket, ReadTicket, Redeem, Go, users
<1>20. ASSUME EditProfile(r) \/ FindIndex(r) PROVE Quiet
  BY <1>1, <1>2, <1>20 DEF EditProfile, FindIndex, Go, users
<1> QED BY <1>5, <1>6, <1>7, <1>8, <1>9, <1>10, <1>11, <1>12, <1>13, <1>14, <1>15, <1>16, <1>17, <1>18,
           <1>19, <1>20 DEF Step

\* What a step may post for later, and what it may remember.
Posted(r, w) ==
    \/ \E yes \in BOOLEAN : w = Later("check", Token(r), yes)
    \/ w = Later("fast", Token(r), "in") \/ w = Later("ensure", Person(r), TRUE)
    \/ w = Later("fast", job[r].code, Word(got[r].yes))

LEMMA AnsweredPosted ==
    ASSUME NEW r \in REQUESTS, Answered(r)
    PROVE  /\ \A w \in late' : w \in late \/ Posted(r, w)
           /\ \/ memoryCheck' = memoryCheck
              \/ \E yes \in BOOLEAN :
                    memoryCheck' = [memoryCheck EXCEPT ![Token(r)] = [yes |-> yes, until |-> now + CHECK_TTL]]
<1>1. CASE UNCHANGED <<memoryCheck, late>>
  BY <1>1
<1>2. ASSUME NEW yes \in BOOLEAN, late' = late \cup {Later("check", Token(r), yes)},
             memoryCheck' = [memoryCheck EXCEPT ![Token(r)] = [yes |-> yes, until |-> now + CHECK_TTL]]
      PROVE  /\ \A w \in late' : w \in late \/ Posted(r, w)
             /\ \E value \in BOOLEAN :
                   memoryCheck' = [memoryCheck EXCEPT ![Token(r)] = [yes |-> value, until |-> now + CHECK_TTL]]
  BY Zenon, <1>2 DEF Posted
<1>3. CASE /\ memoryCheck' = memoryCheck
           /\ late' \subseteq late \cup {Later("fast", Token(r), "in"), Later("ensure", Person(r), TRUE)}
  BY Zenon, <1>3 DEF Posted
<1>4. CASE memoryCheck' = memoryCheck /\ late' = late \cup {Later("fast", job[r].code, Word(got[r].yes))}
  BY Zenon, <1>4 DEF Posted
<1> QED BY Zenon, <1>1, <1>2, <1>3, <1>4 DEF Answered

-----------------------------------------------------------------------------
(* A step of a request keeps the invariant.                                   *)

LEMMA StepTypes ==
    ASSUME SocialLoginInv, NEW r \in REQUESTS, Step(r)
    PROVE  Types'
<1>1. /\ now \in Nat /\ TypesRequests /\ TypesStores /\ Carried(r) /\ Token(r) \in TOKENS /\ Person(r) \in USERS
      /\ job[r].code \in CODES /\ got[r] \in GotType
      /\ {EXISTS_TTL, WINDOW, TICKET_TTL, USER_TTL, INDEX_TTL, CHECK_TTL} \subseteq Nat
  BY SocialLoginAssumption, StepCarries, JobTypes DEF SocialLoginInv, Types, TypesRequests
<1>2. now' \in Nat /\ TypesRequests'
  BY <1>1 DEF TypesRequests, Carried, Went
<1>3. row' \subseteq USERS /\ unseenAt' \in [USERS -> Int]
  BY StepGrows DEF Grows
<1>4. exists' \in [USERS -> CheckType]
  <2>1. /\ NoCheck \in CheckType /\ [yes |-> got[r].yes, until |-> now + EXISTS_TTL] \in CheckType
        /\ exists \in [USERS -> CheckType]
    BY <1>1 DEF NoCheck, CheckType, GotType, TypesStores
  <2> QED BY <1>1, <2>1, StepExists
<1>5. flight' \in [TOKENS -> FlightType]
  <2>1. /\ NoFlight \in FlightType /\ [by |-> r, until |-> now + WINDOW] \in FlightType
        /\ flight \in [TOKENS -> FlightType]
    BY <1>1 DEF NoFlight, FlightType, TypesStores
  <2> QED BY <1>1, <2>1, StepFlies DEF Flies, lookups
<1>6. ticket' \in [REQUESTS -> FastType]
  <2>1. /\ NoFast \in FastType /\ [said |-> Word(got[r].yes), until |-> now + TICKET_TTL] \in FastType
        /\ ticket \in [REQUESTS -> FastType] /\ job[r].ticket \in REQUESTS
    BY <1>1, JobTypes DEF NoFast, FastType, Word, TypesStores
  <2> QED BY <1>1, <2>1, StepPays DEF Pays
<1>7. /\ sharedUser' \in [TOKENS -> UserType] /\ index' \in [USERS -> IndexType]
      /\ memoryUser' \in [TOKENS -> UserType]
  <2>1. NoUser \in UserType /\ NoIndex \in IndexType
    BY DEF NoUser, UserType, NoIndex, IndexType
  <2>2. /\ \A complete \in BOOLEAN : [complete |-> complete, until |-> now + USER_TTL] \in UserType
        /\ [keys |-> Tracked(Token(r), got[r].keys), until |-> now + INDEX_TTL] \in IndexType
    <3>1. Tracked(Token(r), got[r].keys) \in Seq(TOKENS)
      BY <1>1, TrackedTypes DEF GotType
    <3> QED BY <1>1, <3>1 DEF UserType, IndexType
  <2>3. sharedUser \in [TOKENS -> UserType] /\ index \in [USERS -> IndexType]
    BY <1>1 DEF TypesStores
  <2> QED BY <1>1, <2>1, <2>2, <2>3, StepFiles DEF Files, Kept
<1>8. /\ memoryCheck' \in [TOKENS -> CheckType] /\ sharedCheck' \in [TOKENS -> CheckType]
      /\ fast' \in [TOKENS \cup CODES -> FastType] /\ late' \subseteq LateCheck \cup LateFast \cup LateEnsure
  <2>1. /\ \A yes \in BOOLEAN : /\ [yes |-> yes, until |-> now + CHECK_TTL] \in CheckType
                                /\ Later("check", Token(r), yes) \in LateCheck
        /\ Later("fast", Token(r), "in") \in LateFast /\ Later("ensure", Person(r), TRUE) \in LateEnsure
        /\ Later("fast", job[r].code, Word(got[r].yes)) \in LateFast
    BY <1>1 DEF CheckType, Later, LateCheck, LateFast, LateEnsure, Word
  <2>2. /\ memoryCheck \in [TOKENS -> CheckType] /\ sharedCheck \in [TOKENS -> CheckType]
        /\ fast \in [TOKENS \cup CODES -> FastType] /\ late \subseteq LateCheck \cup LateFast \cup LateEnsure
    BY <1>1 DEF TypesStores
  <2>3. Answered(r)
    BY StepAnswered
  <2>4. sharedCheck' = sharedCheck /\ fast' = fast
    BY <2>3 DEF Answered
  <2>5. memoryCheck' \in [TOKENS -> CheckType]
    <3>1. CASE memoryCheck' = memoryCheck
      BY <2>2, <3>1
    <3>2. ASSUME NEW yes \in BOOLEAN,
                 memoryCheck' = [memoryCheck EXCEPT ![Token(r)] = [yes |-> yes, until |-> now + CHECK_TTL]]
          PROVE  memoryCheck' \in [TOKENS -> CheckType]
      BY <2>1, <2>2, <3>2
    <3> QED BY <2>3, <3>1, <3>2, AnsweredPosted
  <2>6. late' \subseteq LateCheck \cup LateFast \cup LateEnsure
    BY <2>1, <2>2, <2>3, AnsweredPosted DEF Posted
  <2> QED BY <2>2, <2>4, <2>5, <2>6
<1> QED BY <1>2, <1>3, <1>4, <1>5, <1>6, <1>7, <1>8 DEF Types, TypesStores

LEMMA StepRequests ==
    ASSUME SocialLoginInv, NEW r \in REQUESTS, Step(r)
    PROVE  Requests'
<1>1. /\ now \in Nat /\ now' = now /\ Carried(r) /\ Clock /\ TypesRequests /\ TypesStores
      /\ job' = job /\ \A s \in REQUESTS : Placed(s)
  BY StepCarries DEF SocialLoginInv, Types, Requests, Carried, Went
<1>2. ASSUME NEW s \in REQUESTS, s # r
      PROVE  Placed(s)' /\ (Active(s)' => began'[s] <= now /\ now <= began'[s] + LATENCY)
  <2>1. at'[s] = at[s] /\ began'[s] = began[s] /\ ended'[s] = ended[s] /\ got'[s] = got[s] /\ said'[s] = said[s]
    BY <1>1, <1>2 DEF Carried, Went
  <2> QED BY <1>1, <2>1 DEF Placed, Active, Clock, Kind
<1>3. Active(r)' => began'[r] <= now /\ now <= began'[r] + LATENCY
  <2>1. at[r] # "over" /\ (at'[r] # "over" => began'[r] = IF at[r] = "new" THEN now ELSE began[r])
    BY <1>1 DEF Carried, Went
  <2> QED BY <1>1, <2>1, Graces DEF Active, Clock
<1>4. \A w \in late' : w.since <= now /\ now <= w.since + LATENCY
  <2>1. \A w : Posted(r, w) => w.since = now
    BY DEF Later, Posted
  <2>2. ASSUME NEW w, w.since = now PROVE w.since <= now /\ now <= w.since + LATENCY
    BY <1>1, <2>2, Graces
  <2>3. \A w \in late' : w \in late \/ w.since = now
    BY <2>1, StepAnswered, AnsweredPosted
  <2> QED BY <1>1, <2>2, <2>3 DEF Clock
<1>5. \A u \in USERS : unseenAt'[u] <= now
  <2>1. \A u \in USERS : unseenAt[u] <= now
    BY <1>1 DEF Clock
  <2>2. \A u \in USERS : unseenAt'[u] = unseenAt[u] \/ unseenAt'[u] = now
    BY StepGrows DEF Grows
  <2> QED BY <1>1, <2>1, <2>2
<1> QED BY <1>1, <1>2, <1>3, <1>4, <1>5, StepPlaced DEF Requests, Clock

LEMMA StepTickets ==
    ASSUME SocialLoginInv, NEW r \in REQUESTS, Step(r)
    PROVE  TicketsInv'
<1>1. /\ now \in Nat /\ now' = now /\ Carried(r) /\ TypesRequests /\ TypesStores /\ TicketsInv /\ Pays(r)
      /\ at[r] # "over" /\ at'[r] # "new" /\ job' = job
      /\ \A s \in REQUESTS : /\ job[s].ticket \in REQUESTS /\ Placed(s)
                             /\ said[s].word = "in" /\ Kind(s) = "finalize" => at[s] = "over"
  <2>1. at'[r] # "new" /\ Pays(r) /\ Carried(r)
    BY StepPlaced, StepPays, StepCarries
  <2> QED BY <2>1, JobTypes DEF SocialLoginInv, Types, Requests, Carried, Went, Placed
<1>2. \A s \in REQUESTS \ {r} : at'[s] = at[s] /\ ended'[s] = ended[s] /\ got'[s] = got[s] /\ said'[s] = said[s]
  BY <1>1 DEF Carried, Went
<1>3. \A s \in REQUESTS : at[s] = "over" => s # r /\ at'[s] = "over"
  BY <1>1, <1>2
<1>4. ticket \in [REQUESTS -> FastType]
  BY <1>1 DEF TypesStores
\* Nobody gets a session but from a ticket that is good.
<1>5. ASSUME NEW s \in REQUESTS, Kind(s) = "finalize", Takes(s)'
      PROVE  Takes(s) \/ (s = r /\ at[r] = "new" /\ now < ticket[job[r].ticket].until)
  <2>1. CASE s # r
    BY <1>2, <1>5, <2>1 DEF Takes
  <2>2. CASE s = r
    BY <1>1, <1>5, <2>2 DEF Pays, Takes, Placed
  <2> QED BY <2>1, <2>2
<1>6. ASSUME NEW k \in REQUESTS, now < ticket'[k].until
      PROVE  at'[k] = "over" /\ (now < ticket[k].until \/ k = r)
  <2>1. now < ticket[k].until \/ (k = r /\ at'[r] = "over")
    BY <1>1, <1>4, <1>6 DEF Pays, NoFast
  <2> QED BY <1>1, <1>3, <2>1 DEF TicketsInv
<1>7. ASSUME NEW s \in REQUESTS, Kind(s) = "finalize"
      PROVE  /\ Takes(s)' => at'[job[s].ticket] = "over"
             /\ said'[s].word = "in" => ticket'[job[s].ticket].until <= now
  <2>1. Takes(s)' => at[job[s].ticket] = "over"
    BY <1>1, <1>5, <1>7 DEF TicketsInv
  <2>2. ASSUME said'[s].word = "in" PROVE ticket'[job[s].ticket].until <= now
    <3>1. CASE said[s].word = "in"
      <4>1. /\ job[s].ticket # r /\ ticket[job[s].ticket].until <= now /\ ticket[job[s].ticket].until \in Int
            /\ ticket'[job[s].ticket].until \in Int
        <5>1. ticket' \in [REQUESTS -> FastType]
          BY StepTypes DEF Types, TypesStores
        <5> QED BY <1>1, <1>4, <1>7, <3>1, <5>1 DEF TicketsInv, Takes, FastType
      <4>2. ~(now < ticket'[job[s].ticket].until)
        BY <1>1, <1>6, <4>1
      <4> QED BY <1>1, <4>1, <4>2
    <3>2. CASE said[s].word # "in"
      <4>1. s = r
        BY <1>2, <2>2, <3>2
      <4>2. ticket' = [ticket EXCEPT ![job[r].ticket] = NoFast]
        BY <1>1, <1>7, <2>2, <3>2, <4>1 DEF Pays
      <4> QED BY <1>1, <1>4, <4>1, <4>2 DEF NoFast
    <3> QED BY <3>1, <3>2
  <2> QED BY <1>1, <1>3, <2>1, <2>2
<1>8. ASSUME NEW q \in REQUESTS, NEW s \in REQUESTS, Kind(q) = "finalize", Kind(s) = "finalize", s \in ended'[q]
      PROVE  said'[s].word = "in" /\ (job[s].ticket = job[q].ticket => ~Takes(q)')
  <2>1. said[s].word = "in" /\ at[s] = "over" /\ s # r
    <3>1. CASE q = r /\ at[r] = "new"
      BY <1>1, <1>8, <3>1 DEF Carried, Went
    <3>2. CASE ~(q = r /\ at[r] = "new")
      <4>1. s \in ended[q]
        BY <1>1, <1>2, <1>8, <3>2 DEF Carried, Went
      <4> QED BY <1>1, <1>8, <4>1 DEF TicketsInv
    <3> QED BY <3>1, <3>2
  <2>2. said'[s].word = "in"
    BY <1>2, <2>1
  <2>3. ASSUME job[s].ticket = job[q].ticket, Takes(q)' PROVE FALSE
    <3>1. ~(now < ticket[job[q].ticket].until)
      <4>1. ticket[job[s].ticket].until <= now /\ ticket[job[s].ticket].until \in Int
        BY <1>1, <1>4, <1>8, <2>1 DEF TicketsInv, FastType
      <4> QED BY <1>1, <2>3, <4>1
    <3>2. Takes(q)
      BY <1>5, <1>8, <2>3, <3>1
    <3>3. s \notin ended[q]
      BY <1>1, <1>8, <2>3, <3>2 DEF TicketsInv
    <3>4. q = r /\ at[r] = "new"
      BY <1>1, <1>2, <1>8, <3>3 DEF Carried, Went
    <3> QED BY <1>1, <1>8, <3>2, <3>4 DEF Takes, Placed
  <2> QED BY <2>2, <2>3
<1> QED BY <1>1, <1>6, <1>7, <1>8 DEF TicketsInv, Takes, Kind

LEMMA OwnFlight ==
    ASSUME LookupsInv, NEW s \in REQUESTS, Leads(s), Token(s) \notin outlived, now <= began[s] + WINDOW
    PROVE  flight[Token(s)].by = s /\ flight[Token(s)].until = began[s] + WINDOW
<1>1. flight[Token(s)] = [by |-> s, until |-> began[s] + WINDOW]
  BY DEF LookupsInv
<1> QED BY <1>1

LEMMA StepLookups ==
    ASSUME SocialLoginInv, NEW r \in REQUESTS, Step(r)
    PROVE  LookupsInv'
<1>1. /\ now \in Nat /\ now' = now /\ TypesRequests /\ LookupsInv /\ Flies(r) /\ WINDOW \in Nat
      /\ flight \in [TOKENS -> FlightType] /\ job' = job /\ began \in [REQUESTS -> Int]
      /\ \A s \in REQUESTS : Token(s) \in TOKENS
      /\ \A s \in REQUESTS \ {r} : at'[s] = at[s] /\ began'[s] = began[s]
      /\ at'[r] # "over" => began'[r] = IF at[r] = "new" THEN now ELSE began[r]
  BY SocialLoginAssumption, StepFlies, StepCarries, JobTypes
     DEF SocialLoginInv, Types, TypesRequests, TypesStores, Carried, Went
<1> DEFINE leads(s) == Kind(s) = "lookup" /\ at'[s] \in Asking
           apart1(s, q) == began'[s] - began'[q] > WINDOW \/ began'[q] - began'[s] > WINDOW
           Found == \A t \in TOKENS : now <= flight'[t].until =>
                       flight'[t].by \in REQUESTS /\ leads(flight'[t].by) /\ Token(flight'[t].by) = t
           Flown == \A s \in REQUESTS : leads(s) /\ Token(s) \notin outlived' /\ now <= began'[s] + WINDOW =>
                       flight'[Token(s)] = [by |-> s, until |-> began'[s] + WINDOW]
           Apart == \A s, q \in REQUESTS :
                       s # q /\ leads(s) /\ leads(q) /\ Token(s) = Token(q) /\ Token(s) \notin outlived' =>
                          apart1(s, q)
<1>2. \A s \in REQUESTS : Kind(s)' = Kind(s) /\ Token(s)' = Token(s)
  BY <1>1 DEF Kind, Token
<1>3. Leads(r)' = leads(r) /\ \A s \in REQUESTS \ {r} : leads(s) <=> Leads(s)
  BY <1>1 DEF Leads, Kind
<1>4. leads(r) => began'[r] = IF at[r] = "new" THEN now ELSE began[r]
  BY <1>1 DEF Asking, Checking
<1>5. Leads(r) => at[r] # "new"
  BY DEF Leads, Asking, Checking
<1>6. \A t \in TOKENS : flight[t].until \in Int
  BY <1>1 DEF FlightType
<1>7. ASSUME Found, Flown, Apart PROVE LookupsInv'
  BY <1>1, <1>7 DEF LookupsInv, Leads, Kind, Token
<1>8. CASE UNCHANGED lookups /\ (Leads(r) <=> Leads(r)')
  <2>1. \A s \in REQUESTS : (leads(s) <=> Leads(s)) /\ (leads(s) => began'[s] = began[s])
    BY <1>1, <1>3, <1>4, <1>5, <1>8
  <2>2. flight' = flight /\ outlived' = outlived
    BY <1>8 DEF lookups
  <2> HIDE DEF leads
  <2> QED BY <1>1, <1>7, <2>1, <2>2 DEF LookupsInv
<1>9. CASE /\ at[r] = "new" /\ Leads(r)' /\ now > flight[Token(r)].until /\ outlived' = outlived
           /\ flight' = [flight EXCEPT ![Token(r)] = [by |-> r, until |-> now + WINDOW]]
  <2>1. leads(r) /\ ~Leads(r) /\ began'[r] = now /\ \A s \in REQUESTS \ {r} : leads(s) <=> Leads(s)
    BY <1>3, <1>4, <1>9 DEF Leads, Asking, Checking
  <2>2. flight'[Token(r)] = [by |-> r, until |-> now + WINDOW] /\ \A t \in TOKENS \ {Token(r)} : flight'[t] = flight[t]
    BY <1>1, <1>9
  <2> HIDE DEF leads
\* Whoever leads another lookup of the token is out of the window.
  <2>3. ASSUME NEW s \in REQUESTS \ {r}, leads(s), Token(s) = Token(r), Token(s) \notin outlived
        PROVE  now - began[s] > WINDOW
    <3>1. now <= began[s] + WINDOW => flight[Token(s)].until = began[s] + WINDOW
      <4>1. Leads(s) /\ Token(s) \notin outlived
        BY <2>1, <2>3
      <4> QED BY <1>1, <4>1, OwnFlight
    <3> QED BY <1>1, <1>6, <1>9, <2>3, <3>1
  <2>4. Found
    BY <1>1, <2>1, <2>2 DEF LookupsInv
  <2>5. Flown
    <3>1. ASSUME NEW s \in REQUESTS, leads(s), Token(s) \notin outlived, now <= began'[s] + WINDOW
          PROVE  flight'[Token(s)] = [by |-> s, until |-> began'[s] + WINDOW]
      <4>1. CASE s = r
        BY <2>1, <2>2, <4>1
      <4>2. CASE s # r
        <5>1. began'[s] = began[s] /\ began[s] \in Int
          BY <1>1, <4>2
        <5>2. Token(s) # Token(r)
          BY <1>1, <2>3, <3>1, <4>2, <5>1
        <5> QED BY <1>1, <2>1, <2>2, <3>1, <4>2, <5>1, <5>2 DEF LookupsInv
      <4> QED BY <4>1, <4>2
    <3> QED BY <1>9, <3>1
  <2>6. Apart
    <3>1. ASSUME NEW s \in REQUESTS, NEW q \in REQUESTS, s # q, leads(s), leads(q), Token(s) = Token(q),
                 Token(s) \notin outlived
          PROVE  apart1(s, q)
      <4>1. CASE s # r /\ q # r
        BY <1>1, <2>1, <3>1, <4>1 DEF LookupsInv
      <4>2. CASE s = r
        BY <1>1, <2>1, <2>3, <3>1, <4>2
      <4>3. CASE q = r
        BY <1>1, <2>1, <2>3, <3>1, <4>3
      <4> QED BY <4>1, <4>2, <4>3
    <3> QED BY <1>9, <3>1
  <2> QED BY <1>7, <2>4, <2>5, <2>6
<1>10. CASE /\ Leads(r) /\ ~Leads(r)' /\ flight' = [flight EXCEPT ![Token(r)] = NoFlight]
            /\ outlived' = IF now - began[r] > WINDOW THEN outlived \cup {Token(r)} ELSE outlived
  <2>1. ~leads(r) /\ \A s \in REQUESTS \ {r} : (leads(s) <=> Leads(s)) /\ began'[s] = began[s]
    BY <1>1, <1>3, <1>10
  <2>2. flight'[Token(r)].until = -1 /\ \A t \in TOKENS \ {Token(r)} : flight'[t] = flight[t]
    BY <1>1, <1>10 DEF NoFlight
  <2>3. outlived \subseteq outlived'
    BY <1>10
  <2> HIDE DEF leads
  <2>4. Found
    BY <1>1, <1>10, <2>1, <2>2 DEF LookupsInv
\* Its entry was its own, as long as no lookup of the token has outlived the window.
  <2>5. ASSUME NEW s \in REQUESTS, leads(s), Token(s) \notin outlived', now <= began'[s] + WINDOW
        PROVE  Token(s) # Token(r)
    <3>1. SUFFICES ASSUME Token(s) = Token(r) PROVE FALSE
      OBVIOUS
    <3>2. s # r /\ Leads(s) /\ Token(s) \notin outlived /\ now <= began[s] + WINDOW
      BY <2>1, <2>3, <2>5
    <3>3. now <= began[r] + WINDOW
      BY <1>1, <1>10, <2>5, <3>1
    <3>4. ASSUME NEW q \in REQUESTS, Leads(q), Token(q) \notin outlived, now <= began[q] + WINDOW
          PROVE  flight[Token(q)].by = q
      BY <1>1, <3>4, OwnFlight
    <3> QED BY <1>10, <3>1, <3>2, <3>3, <3>4
  <2>6. Flown
    BY <1>1, <2>1, <2>2, <2>3, <2>5 DEF LookupsInv
  <2>7. Apart
    BY <1>1, <2>1, <2>3 DEF LookupsInv
  <2> QED BY <1>7, <2>4, <2>6, <2>7
<1> QED BY <1>1, <1>8, <1>9, <1>10 DEF Flies

\* Who is about to change an index, and whom Overlap sees.
LEMMA Overlapped ==
    ASSUME NEW r \in REQUESTS, Overlap(r)
    PROVE  /\ raced \subseteq raced'
           /\ Person(r) \notin raced' =>
                 \A s \in REQUESTS \ {r} : Person(s) = Person(r) => at[s] \notin Indexing
BY DEF Overlap, Owned, Indexing, Dropping

LEMMA StepIndex ==
    ASSUME SocialLoginInv, NEW r \in REQUESTS, Step(r)
    PROVE  IndexInv'
<1> DEFINE u == Person(r)
           listed(v) == IF now < index'[v].until THEN index'[v].keys ELSE <<>>
           holds(s) == at'[s] \in {"indexing"} \cup Dropping
           Alone == \A s \in REQUESTS : holds(s) /\ Person(s) \notin raced' =>
                       /\ \A q \in REQUESTS \ {s} : Person(q) = Person(s) => ~holds(q)
                       /\ Keys(listed(Person(s))) \subseteq Keys(got'[s].keys)
           Dropped == \A s \in REQUESTS : at'[s] = "unlisting" /\ Person(s) \notin raced' =>
                         \A t \in TOKENS :
                            t \in Keys(got'[s].keys) /\ OWNER[t] = Person(s) /\ now < sharedUser'[t].until =>
                               \E q \in REQUESTS : at'[q] = "tracking" /\ Token(q) = t
           Bounded == \A t \in TOKENS : sharedUser'[t].until <= now + USER_TTL
           Found == \A t \in TOKENS : now < sharedUser'[t].until /\ OWNER[t] \notin raced' /\ t \notin crowded' \cup orphaned' =>
                       \/ t \in Keys(listed(OWNER[t])) /\ sharedUser'[t].until <= index'[OWNER[t]].until
                       \/ \E q \in REQUESTS : at'[q] \in {"tracking", "indexing"} /\ Token(q) = t
<1>1. /\ now \in Nat /\ now' = now /\ job' = job /\ Placed(r) /\ Files(r) /\ Token(r) \in TOKENS
      /\ got[r].keys \in Seq(TOKENS) /\ u \in USERS
      /\ \A t \in TOKENS : OWNER[t] \in USERS /\ sharedUser[t].until \in Int
      /\ \A v \in USERS : index[v].until \in Int
      /\ sharedUser \in [TOKENS -> UserType] /\ index \in [USERS -> IndexType]
      /\ \A s \in REQUESTS : Person(s) \in USERS
      /\ \A s \in REQUESTS \ {r} : at'[s] = at[s] /\ got'[s] = got[s]
      /\ USER_TTL \in Nat /\ INDEX_TTL \in Nat /\ USER_TTL <= INDEX_TTL
      /\ at[r] \in {"tracking", "indexing"} => OWNER[Token(r)] = u
  <2>1. TypesRequests /\ TypesStores /\ Placed(r) /\ Carried(r) /\ Files(r) /\ now \in Nat
    BY StepCarries, StepFiles DEF SocialLoginInv, Types, Requests
  <2>2. OWNER \in [TOKENS -> USERS] /\ USER_TTL \in Nat /\ INDEX_TTL \in Nat /\ USER_TTL <= INDEX_TTL
    BY SocialLoginAssumption
  <2>3. got[r].keys \in Seq(TOKENS)
    BY <2>1 DEF TypesRequests, GotType
  <2>4. at[r] \in {"tracking", "indexing"} => OWNER[Token(r)] = u
    BY <2>1, JobTypes DEF Placed, Caching
  <2>5. (\A t \in TOKENS : sharedUser[t].until \in Int) /\ \A v \in USERS : index[v].until \in Int
    BY <2>1 DEF TypesStores, UserType, IndexType
  <2> QED BY <2>1, <2>2, <2>3, <2>4, <2>5, JobTypes DEF TypesStores, Carried, Went
<1>2. /\ \A s \in REQUESTS : HeldAlone(s) /\ DroppedFirst(s)
      /\ \A t \in TOKENS : sharedUser[t].until <= now + USER_TTL /\ Findable(t)
  BY DEF SocialLoginInv, IndexInv
<1>3. ASSUME Alone, Dropped, Bounded, Found PROVE IndexInv'
  <2>1. \A v : listed(v) = Listed(v)'
    BY <1>1 DEF Listed
  <2> HIDE DEF listed
  <2>2. \A s \in REQUESTS : HeldAlone(s)'
    BY <1>1, <1>3, <2>1 DEF HeldAlone, Holds, Owned, Person, Kind, Token
  <2>3. \A s \in REQUESTS : DroppedFirst(s)'
    BY <1>1, <1>3 DEF DroppedFirst, Person, Kind, Token
  <2>4. \A t \in TOKENS : Findable(t)'
    BY <1>1, <1>3, <2>1 DEF Findable, Tracks, Token
  <2>5. \A t \in TOKENS : sharedUser'[t].until <= now' + USER_TTL
    BY <1>1, <1>3
  <2> QED BY <2>2, <2>3, <2>4, <2>5 DEF IndexInv
\* What the invariant says, in the words of the definitions above.
<1>4. \A s \in REQUESTS : Holds(s) /\ Person(s) \notin raced =>
         /\ \A q \in REQUESTS \ {s} : Person(q) = Person(s) => ~Holds(q)
         /\ Keys(Listed(Person(s))) \subseteq Keys(got[s].keys)
  BY <1>2 DEF HeldAlone, Owned
<1>5. \A s \in REQUESTS : at[s] = "unlisting" /\ Person(s) \notin raced =>
         \A t \in TOKENS : t \in Keys(got[s].keys) /\ OWNER[t] = Person(s) /\ now < sharedUser[t].until =>
            \E q \in REQUESTS : at[q] = "tracking" /\ Token(q) = t
  BY <1>2 DEF DroppedFirst
<1>6. \A t \in TOKENS : now < sharedUser[t].until /\ OWNER[t] \notin raced /\ t \notin crowded \cup orphaned =>
         \/ t \in Keys(Listed(OWNER[t])) /\ sharedUser[t].until <= index[OWNER[t]].until
         \/ \E q \in REQUESTS : at[q] \in {"tracking", "indexing"} /\ Token(q) = t
  BY <1>2 DEF Findable, Tracks
<1>7. \A s \in REQUESTS \ {r} : holds(s) <=> Holds(s)
  BY <1>1 DEF Holds
<1>8. \A v \in USERS : index'[v] = index[v] => listed(v) = Listed(v)
  BY DEF Listed
<1>9. (holds(r) <=> at'[r] \in {"indexing", "dropping", "unlisting"}) /\ (Holds(r) <=> at[r] \in {"indexing", "dropping", "unlisting"})
  BY DEF Holds, Dropping
<1> HIDE DEF holds, listed
<1>10. CASE UNCHANGED <<sharedUser, index, crowded, orphaned, raced>> /\ {at[r], at'[r]} \cap Indexing = {}
  <2>1. /\ ~holds(r) /\ ~Holds(r) /\ at[r] \notin {"tracking", "indexing"} /\ at'[r] # "unlisting"
        /\ \A v \in USERS : listed(v) = Listed(v)
    BY <1>8, <1>9, <1>10 DEF Indexing, Dropping
  <2>2. Alone
    BY <1>1, <1>4, <1>7, <1>10, <2>1
  <2>3. Dropped
    BY <1>1, <1>5, <1>10, <2>1
  <2>4. Found
    BY <1>1, <1>6, <1>10, <2>1
  <2> QED BY <1>2, <1>3, <1>10, <2>2, <2>3, <2>4
<1>11. ASSUME at[r] = "caching", at'[r] = "tracking", UNCHANGED <<index, crowded, orphaned, raced, got>>,
              NEW complete \in BOOLEAN,
              sharedUser' = [sharedUser EXCEPT ![Token(r)] = [complete |-> complete, until |-> now + USER_TTL]]
       PROVE  IndexInv'
  <2>1. /\ ~holds(r) /\ ~Holds(r) /\ \A v \in USERS : listed(v) = Listed(v)
        /\ sharedUser'[Token(r)].until = now + USER_TTL
        /\ \A t \in TOKENS \ {Token(r)} : sharedUser'[t] = sharedUser[t]
    BY <1>1, <1>8, <1>9, <1>11
  <2>2. Alone
    BY <1>1, <1>4, <1>7, <1>11, <2>1
  <2>3. Dropped
    <3>1. ASSUME NEW s \in REQUESTS, at'[s] = "unlisting", Person(s) \notin raced', NEW t \in TOKENS,
                 t \in Keys(got'[s].keys), OWNER[t] = Person(s), now < sharedUser'[t].until
          PROVE  \E q \in REQUESTS : at'[q] = "tracking" /\ Token(q) = t
      <4>1. s # r /\ at[s] = "unlisting"
        BY <1>1, <1>11, <3>1
      <4>2. CASE t = Token(r)
        BY <1>11, <4>2
      <4>3. CASE t # Token(r)
        <5>1. PICK q \in REQUESTS : at[q] = "tracking" /\ Token(q) = t
          BY <1>1, <1>5, <1>11, <2>1, <3>1, <4>1, <4>3
        <5> QED BY <1>1, <1>11, <5>1
      <4> QED BY <4>2, <4>3
    <3> QED BY <3>1
  <2>4. Found
    BY <1>1, <1>6, <1>11, <2>1
  <2>5. Bounded
    BY <1>1, <1>2, <2>1
  <2> QED BY <1>3, <2>2, <2>3, <2>4, <2>5
<1>12. CASE /\ \/ at[r] = "tracking" /\ at'[r] = "indexing"
               \/ at[r] \notin Indexing /\ at'[r] = "dropping"
            /\ got'[r].keys = Listed(u) /\ Overlap(r) /\ Kept
  <2>1. /\ ~Holds(r) /\ at'[r] # "unlisting" /\ sharedUser' = sharedUser /\ index' = index
        /\ crowded' = crowded /\ orphaned' = orphaned
        /\ \A v \in USERS : listed(v) = Listed(v)
    BY <1>8, <1>9, <1>12 DEF Kept, Indexing, Dropping
  <2>2. /\ raced \subseteq raced'
        /\ u \notin raced' => \A s \in REQUESTS \ {r} : Person(s) = u => at[s] \notin Indexing
    BY <1>12, Overlapped
  <2>3. \A s \in REQUESTS \ {r} : Person(s) = u /\ u \notin raced' => ~Holds(s)
    BY <2>2 DEF Holds, Indexing
  <2>4. Alone
    <3>1. ASSUME NEW s \in REQUESTS, holds(s), Person(s) \notin raced'
          PROVE  /\ \A q \in REQUESTS \ {s} : Person(q) = Person(s) => ~holds(q)
                 /\ Keys(listed(Person(s))) \subseteq Keys(got'[s].keys)
      <4>1. CASE s = r
        BY <1>1, <1>7, <1>12, <2>1, <2>3, <3>1, <4>1
      <4>2. CASE s # r
        BY <1>1, <1>4, <1>7, <2>1, <2>2, <2>3, <3>1, <4>2
      <4> QED BY <4>1, <4>2
    <3> QED BY <3>1
  <2>5. Dropped
    <3>1. ASSUME NEW s \in REQUESTS, at'[s] = "unlisting", Person(s) \notin raced', NEW t \in TOKENS,
                 t \in Keys(got'[s].keys), OWNER[t] = Person(s), now < sharedUser'[t].until
          PROVE  \E q \in REQUESTS : at'[q] = "tracking" /\ Token(q) = t
      <4>1. s # r /\ at[s] = "unlisting" /\ Person(s) # u
        <5>1. s # r /\ at[s] = "unlisting"
          BY <1>1, <2>1, <3>1
        <5> QED BY <2>2, <3>1, <5>1 DEF Indexing, Dropping
      <4>2. PICK q \in REQUESTS : at[q] = "tracking" /\ Token(q) = t
        BY <1>1, <1>5, <2>1, <2>2, <3>1, <4>1
      <4> QED BY <1>1, <3>1, <4>1, <4>2
    <3> QED BY <3>1
  <2>6. Found
    <3>1. ASSUME NEW t \in TOKENS, NEW q \in REQUESTS, at[q] \in {"tracking", "indexing"}, Token(q) = t
          PROVE  \E k \in REQUESTS : at'[k] \in {"tracking", "indexing"} /\ Token(k) = t
      <4>1. at'[q] \in {"tracking", "indexing"}
        BY <1>1, <1>12, <3>1 DEF Indexing
      <4> QED BY <3>1, <4>1
    <3> QED BY <1>1, <1>6, <2>1, <2>2, <3>1
  <2> QED BY <1>2, <1>3, <2>1, <2>4, <2>5, <2>6
<1>13. CASE /\ at[r] = "indexing" /\ at'[r] \in {"session", "over"} /\ UNCHANGED <<sharedUser, raced, got>>
            /\ index' = [index EXCEPT ![u] = [keys |-> Tracked(Token(r), got[r].keys), until |-> now + INDEX_TTL]]
            /\ crowded' = (crowded \cup (Keys(got[r].keys) \ Keys(Tracked(Token(r), got[r].keys)))) \ {Token(r)}
            /\ orphaned' = orphaned \ {Token(r)}
  <2> DEFINE keys == Tracked(Token(r), got[r].keys)
  <2>1. Token(r) \in Keys(keys)
    BY <1>1, TrackedTypes
  <2> HIDE DEF keys
  <2>2. /\ index'[u] = [keys |-> keys, until |-> now + INDEX_TTL]
        /\ \A v \in USERS \ {u} : index'[v] = index[v] /\ listed(v) = Listed(v)
    BY <1>1, <1>8, <1>13 DEF keys
  <2>3. listed(u) = IF now < now + INDEX_TTL THEN keys ELSE <<>>
    BY <2>2 DEF listed
  <2>4. ~holds(r) /\ Holds(r) /\ OWNER[Token(r)] = u
    BY <1>1, <1>9, <1>13
  <2>5. Alone
    <3>1. ASSUME NEW s \in REQUESTS, holds(s), Person(s) \notin raced'
          PROVE  /\ \A q \in REQUESTS \ {s} : Person(q) = Person(s) => ~holds(q)
                 /\ Keys(listed(Person(s))) \subseteq Keys(got'[s].keys)
      <4>1. s # r /\ Holds(s) /\ Person(s) \notin raced
        BY <1>7, <1>13, <2>4, <3>1
      <4>2. Person(s) # u
        BY <1>4, <2>4, <4>1
      <4> QED BY <1>1, <1>4, <1>7, <2>2, <2>4, <4>1, <4>2
    <3> QED BY <3>1
  <2>6. Dropped
    <3>1. ASSUME NEW s \in REQUESTS, at'[s] = "unlisting", Person(s) \notin raced', NEW t \in TOKENS,
                 t \in Keys(got'[s].keys), OWNER[t] = Person(s), now < sharedUser'[t].until
          PROVE  \E q \in REQUESTS : at'[q] = "tracking" /\ Token(q) = t
      <4>1. s # r /\ at[s] = "unlisting"
        BY <1>1, <1>13, <3>1
      <4>2. PICK q \in REQUESTS : at[q] = "tracking" /\ Token(q) = t
        BY <1>1, <1>5, <1>13, <3>1, <4>1
      <4> QED BY <1>1, <1>13, <4>2
    <3> QED BY <3>1
  <2>7. Found
    <3>1. ASSUME NEW t \in TOKENS, now < sharedUser[t].until, OWNER[t] \notin raced, t \notin crowded' \cup orphaned'
          PROVE  \/ t \in Keys(listed(OWNER[t])) /\ sharedUser[t].until <= index'[OWNER[t]].until
                 \/ \E q \in REQUESTS : at'[q] \in {"tracking", "indexing"} /\ Token(q) = t
      <4>1. t # Token(r) => /\ t \notin crowded \cup orphaned
                            /\ OWNER[t] = u => t \in Keys(keys) \/ t \notin Keys(got[r].keys)
        BY <1>13, <3>1 DEF keys
      <4>2. CASE \E q \in REQUESTS \ {r} : at[q] \in {"tracking", "indexing"} /\ Token(q) = t
        BY <1>1, <4>2
      <4>3. CASE OWNER[t] # u
        <5>1. \A q \in REQUESTS : at[q] \in {"tracking", "indexing"} /\ Token(q) = t => q # r
          BY <2>4, <4>3
        <5>2. t # Token(r) /\ t \notin crowded \cup orphaned /\ OWNER[t] \in USERS \ {u}
          BY <1>1, <2>4, <4>1, <4>3, SocialLoginAssumption
        <5>3. CASE t \in Keys(Listed(OWNER[t])) /\ sharedUser[t].until <= index[OWNER[t]].until
          BY <2>2, <5>2, <5>3
        <5> QED BY <1>6, <3>1, <4>2, <5>1, <5>2, <5>3
      <4>4. CASE OWNER[t] = u /\ t \in Keys(keys)
        <5>1. sharedUser[t].until <= now + INDEX_TTL /\ now < now + INDEX_TTL
          BY <1>1, <1>2, <3>1
        <5> QED BY <2>2, <2>3, <4>4, <5>1
      <4>5. CASE OWNER[t] = u /\ t \notin Keys(keys)
        <5>1. t \notin Keys(Listed(u)) /\ t # Token(r)
          BY <1>4, <2>1, <2>4, <3>1, <4>1, <4>5
        <5> QED BY <1>6, <3>1, <4>1, <4>2, <4>5, <5>1
      <4> QED BY <4>3, <4>4, <4>5
    <3> QED BY <1>13, <3>1
  <2> QED BY <1>2, <1>3, <1>13, <2>5, <2>6, <2>7
<1>14. CASE /\ at[r] = "dropping" /\ at'[r] = "unlisting" /\ Overlap(r) /\ UNCHANGED <<index, crowded, orphaned, got>>
            /\ sharedUser' = [t \in TOKENS |-> IF t \in Keys(got[r].keys) THEN NoUser ELSE sharedUser[t]]
  <2>1. /\ raced \subseteq raced' /\ Holds(r) /\ holds(r) /\ \A v \in USERS : listed(v) = Listed(v)
        /\ u \notin raced' => \A s \in REQUESTS \ {r} : Person(s) = u => at[s] \notin Indexing
    BY <1>8, <1>9, <1>14, Overlapped
  <2>2. \A t \in TOKENS : /\ now < sharedUser'[t].until => sharedUser'[t] = sharedUser[t] /\ t \notin Keys(got[r].keys)
                          /\ sharedUser'[t] = sharedUser[t] \/ sharedUser'[t].until = -1
    <3>1. ASSUME NEW t \in TOKENS
          PROVE  /\ now < sharedUser'[t].until => sharedUser'[t] = sharedUser[t] /\ t \notin Keys(got[r].keys)
                 /\ sharedUser'[t] = sharedUser[t] \/ sharedUser'[t].until = -1
      <4>1. sharedUser'[t] = IF t \in Keys(got[r].keys) THEN NoUser ELSE sharedUser[t]
        BY <1>14
      <4> QED BY <1>1, <4>1 DEF NoUser
    <3> QED BY <3>1
  <2>3. Alone
    <3>1. ASSUME NEW s \in REQUESTS, Holds(s), Person(s) \notin raced
          PROVE  /\ \A q \in REQUESTS \ {s} : Person(q) = Person(s) => ~Holds(q)
                 /\ Keys(Listed(Person(s))) \subseteq Keys(got[s].keys)
      BY <1>4, <3>1
    <3>2. \A s \in REQUESTS : holds(s) <=> Holds(s)
      BY <1>7, <2>1
    <3> QED BY <1>1, <1>14, <2>1, <3>1, <3>2
  <2>4. Dropped
    <3>1. ASSUME NEW s \in REQUESTS, at'[s] = "unlisting", Person(s) \notin raced', NEW t \in TOKENS,
                 t \in Keys(got'[s].keys), OWNER[t] = Person(s), now < sharedUser'[t].until
          PROVE  \E q \in REQUESTS : at'[q] = "tracking" /\ Token(q) = t
      <4>1. s # r /\ at[s] = "unlisting"
        BY <1>1, <1>14, <2>2, <3>1
      <4>2. PICK q \in REQUESTS : at[q] = "tracking" /\ Token(q) = t
        BY <1>1, <1>5, <1>14, <2>1, <2>2, <3>1, <4>1
      <4> QED BY <1>1, <1>14, <4>2
    <3> QED BY <3>1
  <2>5. Found
    <3>1. ASSUME NEW t \in TOKENS, NEW q \in REQUESTS, at[q] \in {"tracking", "indexing"}, Token(q) = t
          PROVE  \E k \in REQUESTS : at'[k] \in {"tracking", "indexing"} /\ Token(k) = t
      BY <1>1, <1>14, <3>1
    <3> QED BY <1>1, <1>6, <1>14, <2>1, <2>2, <3>1
  <2>6. Bounded
    BY <1>1, <1>2, <2>2
  <2> QED BY <1>3, <2>3, <2>4, <2>5, <2>6
<1>15. CASE /\ at[r] = "unlisting" /\ at'[r] = "over" /\ Overlap(r) /\ UNCHANGED <<sharedUser, crowded, orphaned, got>>
            /\ index' = [index EXCEPT ![u] = NoIndex]
  <2>1. /\ raced \subseteq raced' /\ Holds(r) /\ ~holds(r) /\ \A v \in USERS \ {u} : index'[v] = index[v] /\ listed(v) = Listed(v)
        /\ u \notin raced' => \A s \in REQUESTS \ {r} : Person(s) = u => at[s] \notin Indexing
    BY <1>1, <1>8, <1>9, <1>15, Overlapped
  <2>2. \A s \in REQUESTS \ {r} : Person(s) = u /\ u \notin raced' => ~Holds(s)
    BY <2>1 DEF Holds, Indexing
  <2>3. Alone
    <3>1. ASSUME NEW s \in REQUESTS, holds(s), Person(s) \notin raced'
          PROVE  /\ \A q \in REQUESTS \ {s} : Person(q) = Person(s) => ~holds(q)
                 /\ Keys(listed(Person(s))) \subseteq Keys(got'[s].keys)
      <4>1. s # r /\ Holds(s) /\ Person(s) \notin raced /\ Person(s) # u
        BY <1>7, <2>1, <2>2, <3>1
      <4> QED BY <1>1, <1>4, <1>7, <2>1, <4>1
    <3> QED BY <3>1
  <2>4. Dropped
    <3>1. ASSUME NEW s \in REQUESTS, at'[s] = "unlisting", Person(s) \notin raced', NEW t \in TOKENS,
                 t \in Keys(got'[s].keys), OWNER[t] = Person(s), now < sharedUser'[t].until
          PROVE  \E q \in REQUESTS : at'[q] = "tracking" /\ Token(q) = t
      <4>1. s # r /\ at[s] = "unlisting"
        BY <1>1, <1>15, <3>1
      <4>2. PICK q \in REQUESTS : at[q] = "tracking" /\ Token(q) = t
        BY <1>1, <1>5, <1>15, <2>1, <3>1, <4>1
      <4> QED BY <1>1, <1>15, <4>2
    <3> QED BY <3>1
\* Who leaves the index was dropped before.
  <2>5. Found
    <3>1. ASSUME NEW t \in TOKENS, now < sharedUser[t].until, OWNER[t] \notin raced', t \notin crowded \cup orphaned
          PROVE  \/ t \in Keys(listed(OWNER[t])) /\ sharedUser[t].until <= index'[OWNER[t]].until
                 \/ \E q \in REQUESTS : at'[q] \in {"tracking", "indexing"} /\ Token(q) = t
      <4>1. CASE \E q \in REQUESTS : at[q] \in {"tracking", "indexing"} /\ Token(q) = t
        BY <1>1, <1>15, <4>1
      <4>2. CASE OWNER[t] # u
        BY <1>1, <1>6, <2>1, <3>1, <4>1, <4>2
      <4>3. CASE OWNER[t] = u /\ t \in Keys(Listed(u))
        <5>1. t \in Keys(got[r].keys)
          BY <1>4, <2>1, <3>1, <4>3
        <5>2. \E q \in REQUESTS : at[q] = "tracking" /\ Token(q) = t
          BY <1>5, <1>15, <2>1, <3>1, <4>3, <5>1
        <5> QED BY <4>1, <5>2
      <4> QED BY <1>6, <2>1, <3>1, <4>1, <4>2, <4>3
    <3> QED BY <1>15, <3>1
  <2> QED BY <1>2, <1>3, <1>15, <2>3, <2>4, <2>5
\* Who leaves the index with an edit is known to have.
<1>16. CASE /\ {at[r], at'[r]} \cap Indexing = {} /\ UNCHANGED <<sharedUser, raced, crowded, got>>
            /\ index' = [index EXCEPT ![u] = NoIndex]
            /\ orphaned' = orphaned \cup Keys(Listed(u))
  <2>1. /\ ~holds(r) /\ ~Holds(r) /\ at[r] \notin {"tracking", "indexing"} /\ at'[r] # "unlisting"
        /\ \A v \in USERS \ {u} : index'[v] = index[v] /\ listed(v) = Listed(v)
    BY <1>1, <1>8, <1>9, <1>16 DEF Indexing, Dropping
  <2>2. listed(u) = <<>>
    <3>1. index'[u].until = -1
      BY <1>1, <1>16 DEF NoIndex
    <3> QED BY <1>1, <3>1 DEF listed
  <2>3. Keys(listed(u)) = {}
    BY <2>2 DEF Keys
  <2>4. Alone
    <3>1. ASSUME NEW s \in REQUESTS, holds(s), Person(s) \notin raced'
          PROVE  /\ \A q \in REQUESTS \ {s} : Person(q) = Person(s) => ~holds(q)
                 /\ Keys(listed(Person(s))) \subseteq Keys(got'[s].keys)
      <4>1. s # r /\ Holds(s) /\ Person(s) \notin raced /\ Person(s) \in USERS
        BY <1>1, <1>7, <1>16, <2>1, <3>1
      <4>2. \A q \in REQUESTS \ {s} : Person(q) = Person(s) => ~holds(q)
        BY <1>4, <1>7, <2>1, <4>1
      <4>3. Keys(listed(Person(s))) \subseteq Keys(got[s].keys)
        BY <1>4, <2>1, <2>3, <4>1
      <4> QED BY <1>16, <4>2, <4>3
    <3> QED BY <3>1
  <2>5. Dropped
    <3>1. ASSUME NEW s \in REQUESTS, at'[s] = "unlisting", Person(s) \notin raced', NEW t \in TOKENS,
                 t \in Keys(got'[s].keys), OWNER[t] = Person(s), now < sharedUser'[t].until
          PROVE  \E q \in REQUESTS : at'[q] = "tracking" /\ Token(q) = t
      <4>1. s # r /\ at[s] = "unlisting"
        BY <1>1, <2>1, <3>1
      <4>2. PICK q \in REQUESTS : at[q] = "tracking" /\ Token(q) = t
        BY <1>5, <1>16, <3>1, <4>1
      <4> QED BY <1>1, <2>1, <4>2
    <3> QED BY <3>1
  <2>6. Found
    <3>1. ASSUME NEW t \in TOKENS, now < sharedUser[t].until, OWNER[t] \notin raced,
                 t \notin crowded \cup orphaned'
          PROVE  \/ t \in Keys(listed(OWNER[t])) /\ sharedUser[t].until <= index'[OWNER[t]].until
                 \/ \E q \in REQUESTS : at'[q] \in {"tracking", "indexing"} /\ Token(q) = t
      <4>1. t \notin crowded \cup orphaned /\ (OWNER[t] = u => t \notin Keys(Listed(u)))
        BY <1>16, <3>1
      <4>2. CASE \E q \in REQUESTS : at[q] \in {"tracking", "indexing"} /\ Token(q) = t
        BY <1>1, <2>1, <4>2
      <4>3. CASE t \in Keys(Listed(OWNER[t])) /\ sharedUser[t].until <= index[OWNER[t]].until
        BY <1>1, <2>1, <4>1, <4>3
      <4> QED BY <1>6, <3>1, <4>1, <4>2, <4>3
    <3> QED BY <1>16, <3>1
  <2> QED BY <1>2, <1>3, <1>16, <2>4, <2>5, <2>6
<1>17. Files(r)
  BY <1>1
<1> QED BY <1>10, <1>11, <1>12, <1>13, <1>14, <1>15, <1>16, <1>17 DEF Files

\* What was unseen by now still is: a registration that comes now was asked for in vain.
StillUnseen(u, time) == u \in row' => time <= unseenAt'[u]

LEMMA UnseenKept ==
    ASSUME now \in Nat, TypesStores, Grows, NEW u \in USERS, NEW time \in Int, time <= now, Unseen(u, time)
    PROVE  StillUnseen(u, time)
<1>1. unseenAt[u] \in Int /\ (unseenAt'[u] = unseenAt[u] \/ unseenAt'[u] = now)
  BY DEF TypesStores, Grows
<1>2. CASE u \in row
  BY <1>1, <1>2 DEF Unseen, StillUnseen
<1>3. CASE u \notin row
  BY <1>1, <1>3 DEF StillUnseen, Grows
<1> QED BY <1>2, <1>3

CodeStillUnseen(code, time) ==
    \A r \in REQUESTS : Kind(r) = "kakao" /\ job[r].code = code => StillUnseen(Person(r), time)

LEMMA CodeKept ==
    ASSUME now \in Nat, TypesRequests, TypesStores, Grows, NEW c, NEW time \in Int, time <= now, CodeUnseen(c, time)
    PROVE  CodeStillUnseen(c, time)
BY UnseenKept, JobTypes DEF CodeUnseen, CodeStillUnseen

LEMMA UserSeenKept ==
    ASSUME SocialLoginInv, Grows, now' = now, NEW u \in USERS, exists'[u] = exists[u]
    PROVE  UserSeen(u)'
<1>1. now \in Nat /\ TypesStores /\ exists[u].until \in Int /\ UserSeen(u)
  BY DEF SocialLoginInv, Types, TypesStores, CheckType, RegisteredInv
<1>2. ASSUME now < exists[u].until, ~exists[u].yes
      PROVE  StillUnseen(u, exists[u].until - EXISTS_TTL - LATENCY)
  BY <1>1, <1>2, UnseenKept, Graces DEF UserSeen
<1>3. now < exists[u].until /\ ~exists[u].yes =>
         (u \in row' => exists[u].until - EXISTS_TTL - LATENCY <= unseenAt'[u])
  BY <1>2 DEF StillUnseen
<1> QED BY <1>1, <1>3 DEF UserSeen, Unseen

LEMMA StepUserSeen ==
    ASSUME SocialLoginInv, NEW r \in REQUESTS, Step(r), NEW u \in USERS
    PROVE  UserSeen(u)'
<1>1. /\ now \in Nat /\ now' = now /\ TypesStores /\ Grows /\ exists[u].until \in Int /\ UserSeen(u) /\ Asked(r)
      /\ exists \in [USERS -> CheckType]
  BY StepCarries, StepGrows DEF SocialLoginInv, Types, TypesStores, CheckType, Carried, RegisteredInv, RequestSeen
<1>2. CASE exists'[u] = exists[u]
  BY <1>1, <1>2, UserSeenKept
<1>3. CASE exists'[u] = NoCheck
  BY <1>1, <1>3, Graces DEF UserSeen, NoCheck
<1>4. CASE /\ at[r] = "filling" /\ UNCHANGED rows /\ u = Person(r)
           /\ exists'[u] = [yes |-> got[r].yes, until |-> now + EXISTS_TTL]
  <2>1. ASSUME ~got[r].yes PROVE Unseen(u, now - LATENCY)
    <3>1. Unseen(u, began[r]) /\ Active(r)
      BY <1>1, <1>4, <2>1 DEF Asked, Active
    <3>2. began[r] \in Int /\ now - LATENCY <= began[r]
      BY <1>1, <3>1, InTime, Graces
    <3> QED BY <1>1, <3>1, <3>2, UnseenEarlier, Graces
  <2>2. ~got[r].yes => (u \in row' => now - LATENCY <= unseenAt'[u])
    BY <1>4, <2>1 DEF rows, Unseen
  <2>3. now + EXISTS_TTL - EXISTS_TTL - LATENCY = now - LATENCY
    BY <1>1, Graces
  <2> QED BY <1>1, <1>4, <2>2, <2>3, Graces DEF UserSeen, Unseen
<1>5. Person(r) \in USERS
  BY JobTypes DEF SocialLoginInv, Types
<1> QED BY <1>1, <1>2, <1>3, <1>4, <1>5, StepExists

LEMMA StepTokenSeen ==
    ASSUME SocialLoginInv, NEW r \in REQUESTS, Step(r), NEW t \in TOKENS
    PROVE  TokenSeen(t)'
<1>1. /\ now \in Nat /\ now' = now /\ TypesStores /\ Grows /\ TokenSeen(t) /\ Answered(r) /\ OWNER[t] \in USERS
      /\ memoryCheck \in [TOKENS -> CheckType] /\ memoryCheck[t].until \in Int /\ sharedCheck[t].until \in Int
      /\ Token(r) \in TOKENS
  BY StepCarries, StepGrows, StepAnswered, SocialLoginAssumption, JobTypes
     DEF SocialLoginInv, Types, TypesStores, CheckType, Carried, RegisteredInv
<1>2. Reliable(t)' <=> Reliable(t)
  BY <1>1 DEF Reliable
<1> DEFINE unseen(time) == StillUnseen(OWNER[t], time)
<1>3. ASSUME NEW time \in Int, time <= now, Unseen(OWNER[t], time) PROVE unseen(time)
  BY <1>1, <1>3, UnseenKept
<1>4. /\ sharedCheck' = sharedCheck
      /\ now < sharedCheck[t].until /\ ~sharedCheck[t].yes /\ Reliable(t) => unseen(sharedCheck[t].until - SharedGrace)
  BY <1>1, <1>3, Graces DEF TokenSeen, Answered
<1>5. /\ memoryCheck'[t].until <= now + CHECK_TTL
      /\ now <= memoryCheck'[t].until /\ ~memoryCheck'[t].yes /\ Reliable(t) => unseen(memoryCheck'[t].until - MemoryGrace)
  <2>1. CASE memoryCheck'[t] = memoryCheck[t]
    BY <1>1, <1>3, <2>1, Graces DEF TokenSeen
  <2>2. ASSUME NEW yes \in BOOLEAN, memoryCheck'[t] = [yes |-> yes, until |-> now + CHECK_TTL],
               ~yes /\ Reliable(t) => Unseen(OWNER[t], now - RowGrace)
        PROVE  /\ memoryCheck'[t].until <= now + CHECK_TTL
               /\ now <= memoryCheck'[t].until /\ ~memoryCheck'[t].yes /\ Reliable(t) =>
                     unseen(memoryCheck'[t].until - MemoryGrace)
    <3>1. memoryCheck'[t].until = now + CHECK_TTL /\ (memoryCheck'[t].yes <=> yes)
      BY <2>2
    <3>2. now + CHECK_TTL - MemoryGrace = now - RowGrace /\ now - RowGrace \in Int /\ now - RowGrace <= now
      BY <1>1, Graces
    <3> QED BY <1>1, <1>3, <2>2, <3>1, <3>2, Graces
  <2>3. \/ memoryCheck'[t] = memoryCheck[t]
        \/ \E yes \in BOOLEAN : /\ memoryCheck'[t] = [yes |-> yes, until |-> now + CHECK_TTL]
                                /\ ~yes /\ Reliable(t) => Unseen(OWNER[t], now - RowGrace)
    <3>1. ASSUME NEW yes \in BOOLEAN,
                 memoryCheck' = [memoryCheck EXCEPT ![Token(r)] = [yes |-> yes, until |-> now + CHECK_TTL]],
                 ~yes /\ Reliable(Token(r)) => Unseen(OWNER[Token(r)], now - RowGrace)
          PROVE  \/ memoryCheck'[t] = memoryCheck[t]
                 \/ \E value \in BOOLEAN : /\ memoryCheck'[t] = [yes |-> value, until |-> now + CHECK_TTL]
                                           /\ ~value /\ Reliable(t) => Unseen(OWNER[t], now - RowGrace)
      <4>1. CASE t = Token(r)
        <5>1. memoryCheck'[t] = [yes |-> yes, until |-> now + CHECK_TTL]
          BY <1>1, <3>1, <4>1
        <5> QED BY Zenon, <3>1, <4>1, <5>1
      <4>2. CASE t # Token(r)
        BY <1>1, <3>1, <4>2
      <4> QED BY <4>1, <4>2
    <3>2. CASE memoryCheck' = memoryCheck
      BY <3>2
    <3> QED BY Zenon, <1>1, <3>1, <3>2 DEF Answered
  <2> QED BY Zenon, <2>1, <2>2, <2>3
<1> HIDE DEF unseen
<1>6. /\ Unseen(OWNER[t], memoryCheck[t].until - MemoryGrace)' <=> unseen(memoryCheck'[t].until - MemoryGrace)
      /\ Unseen(OWNER[t], sharedCheck[t].until - SharedGrace)' <=> unseen(sharedCheck'[t].until - SharedGrace)
  BY DEF Unseen, unseen, StillUnseen, MemoryGrace, SharedGrace, RowGrace
<1> QED BY <1>1, <1>2, <1>4, <1>5, <1>6 DEF TokenSeen

\* What a change of the rows leaves true of the answers under a code.
LEMMA CodeSeenKept ==
    ASSUME SocialLoginInv, Grows, now' = now, job' = job, NEW c \in CODES, fast'[c] = fast[c]
    PROVE  CodeSeen(c)'
<1> DEFINE time == fast[c].until - FAST_TTL - RowGrace - LATENCY
<1>1. /\ now \in Nat /\ TypesRequests /\ TypesStores /\ CodeSeen(c) /\ fast[c].until \in Int
  BY DEF SocialLoginInv, Types, TypesStores, FastType, RegisteredInv
<1>2. now < fast[c].until /\ fast[c].said # "yes" => CodeStillUnseen(c, time)
  <2>1. time \in Int /\ (fast[c].until <= now + FAST_TTL => time <= now)
    BY <1>1, Graces
  <2> QED BY <1>1, <2>1, CodeKept DEF CodeSeen
<1> QED BY <1>1, <1>2
        DEF CodeSeen, CodeStillUnseen, StillUnseen, CodeUnseen, Unseen, Person, Kind, Token, RowGrace

LEMMA LateTypes ==
    ASSUME SocialLoginInv, NEW w \in late
    PROVE  /\ w.since \in Int /\ w.since <= now /\ now <= w.since + LATENCY
           /\ w.kind = "check" => w.key \in TOKENS /\ w.value \in BOOLEAN /\ OWNER[w.key] \in USERS
           /\ w.kind = "fast" => w.key \in TOKENS \cup CODES /\ w.value \in {"in", "yes", "no"}
           /\ w.kind = "ensure" => w.key \in USERS
<1>1. w \in LateCheck \cup LateFast \cup LateEnsure
  BY DEF SocialLoginInv, Types, TypesStores
<1>2. w.since <= now /\ now <= w.since + LATENCY
  BY DEF SocialLoginInv, Requests, Clock
<1> QED BY <1>1, <1>2, SocialLoginAssumption DEF LateCheck, LateFast, LateEnsure

LEMMA WriteSeenKept ==
    ASSUME SocialLoginInv, Grows, now' = now, job' = job, NEW w \in late
    PROVE  WriteSeen(w)'
<1> DEFINE time == w.since - RowGrace
<1>1. /\ now \in Nat /\ TypesRequests /\ TypesStores /\ WriteSeen(w) /\ time \in Int /\ time <= now
  BY LateTypes, Graces DEF SocialLoginInv, Types, RegisteredInv
<1>2. (w.kind = "check" => OWNER[w.key] \in USERS) /\ (Reliable(w.key)' <=> Reliable(w.key))
  BY LateTypes DEF Reliable
<1> HIDE DEF time
<1>3. ASSUME w.kind = "check", ~w.value, Reliable(w.key) PROVE StillUnseen(OWNER[w.key], time)
  BY <1>1, <1>2, <1>3, UnseenKept DEF WriteSeen, time
<1>4. ASSUME w.kind = "fast", w.value # "yes", w.key \in CODES PROVE CodeStillUnseen(w.key, time)
  BY <1>1, <1>4, CodeKept DEF WriteSeen, time
<1>5. w.kind = "check" /\ ~w.value /\ Reliable(w.key)' => (OWNER[w.key] \in row' => time <= unseenAt'[OWNER[w.key]])
  BY <1>2, <1>3 DEF StillUnseen
<1> QED BY <1>4, <1>5
        DEF WriteSeen, CodeStillUnseen, StillUnseen, CodeUnseen, Unseen, Person, Kind, Token, time, RowGrace

LEMMA StepWriteSeen ==
    ASSUME SocialLoginInv, NEW r \in REQUESTS, Step(r), NEW w \in late'
    PROVE  WriteSeen(w)'
<1>1. /\ now \in Nat /\ now' = now /\ job' = job /\ TypesRequests /\ TypesStores /\ Grows /\ Answered(r)
      /\ Token(r) \in TOKENS /\ OWNER[Token(r)] \in USERS /\ TOKENS \cap CODES = {} /\ job \in PLANS
      /\ got[r].yes \in BOOLEAN /\ Person(r) \in USERS
  BY StepCarries, StepGrows, StepAnswered, SocialLoginAssumption, JobTypes
     DEF SocialLoginInv, Types, TypesRequests, GotType, Carried, Went
<1>2. CASE w \in late
  BY <1>1, <1>2, WriteSeenKept
<1> DEFINE time == now - RowGrace
<1>3. time \in Int /\ time <= now
  BY <1>1, Graces
<1> HIDE DEF time
<1>4. ASSUME NEW yes \in BOOLEAN, w = Later("check", Token(r), yes),
             ~yes /\ Reliable(Token(r)) => Unseen(OWNER[Token(r)], time)
      PROVE  WriteSeen(w)'
  <2>1. w.kind = "check" /\ w.key = Token(r) /\ (w.value <=> yes) /\ w.since = now
    BY <1>4 DEF Later
  <2>2. ~w.value /\ Reliable(w.key) => StillUnseen(OWNER[w.key], time)
    BY <1>1, <1>3, <1>4, <2>1, UnseenKept
  <2>3. Reliable(w.key)' <=> Reliable(w.key)
    BY <1>1 DEF Reliable
  <2> QED BY <2>1, <2>2, <2>3 DEF WriteSeen, Unseen, StillUnseen, time, RowGrace
<1>5. CASE w = Later("fast", Token(r), "in") \/ w = Later("ensure", Person(r), TRUE)
  BY <1>1, <1>5 DEF Later, WriteSeen
<1>6. ASSUME w = Later("fast", job[r].code, Word(got[r].yes)), Kind(r) = "kakao",
             ~got[r].yes => Unseen(Person(r), time)
      PROVE  WriteSeen(w)'
  <2>1. w.kind = "fast" /\ w.key = job[r].code /\ w.since = now /\ (w.value # "yes" => ~got[r].yes)
    BY <1>1, <1>6 DEF Later, Word
  <2>2. ASSUME NEW s \in REQUESTS, Kind(s) = "kakao", job[s].code = w.key, w.value # "yes"
        PROVE  StillUnseen(Person(s), time)
    <3>1. Person(s) = Person(r)
      BY <1>1, <1>6, <2>1, <2>2, SocialLoginAssumption DEF Person, Kind
    <3> QED BY <1>1, <1>3, <1>6, <2>1, <2>2, <3>1, UnseenKept
  <2>3. w.value # "yes" => CodeStillUnseen(w.key, time)
    BY <2>2 DEF CodeStillUnseen
  <2> QED BY <1>1, <2>1, <2>3
          DEF WriteSeen, CodeStillUnseen, StillUnseen, CodeUnseen, Unseen, Person, Kind, Token, time, RowGrace
<1>7. CASE w \notin late
  <2>1. \/ \E yes \in BOOLEAN : /\ w = Later("check", Token(r), yes)
                                /\ ~yes /\ Reliable(Token(r)) => Unseen(OWNER[Token(r)], time)
        \/ w = Later("fast", Token(r), "in") \/ w = Later("ensure", Person(r), TRUE)
        \/ /\ w = Later("fast", job[r].code, Word(got[r].yes)) /\ Kind(r) = "kakao"
           /\ ~got[r].yes => Unseen(Person(r), time)
    <3>1. ASSUME NEW yes \in BOOLEAN, late' = late \cup {Later("check", Token(r), yes)},
                 ~yes /\ Reliable(Token(r)) => Unseen(OWNER[Token(r)], now - RowGrace)
          PROVE  \E value \in BOOLEAN : /\ w = Later("check", Token(r), value)
                                        /\ ~value /\ Reliable(Token(r)) => Unseen(OWNER[Token(r)], time)
      BY Zenon, <1>7, <3>1 DEF time
    <3>2. CASE late' \subseteq late \cup {Later("fast", Token(r), "in"), Later("ensure", Person(r), TRUE)}
      BY Zenon, <1>7, <3>2
    <3>3. CASE /\ late' = late \cup {Later("fast", job[r].code, Word(got[r].yes))}
               /\ Kind(r) = "kakao" /\ (~got[r].yes => Unseen(Person(r), now - RowGrace))
      BY Zenon, <1>7, <3>3 DEF time
    <3>4. late' # late
      BY <1>7
    <3>5. Answered(r)
      BY <1>1
    <3> QED BY Zenon, <1>7, <3>1, <3>2, <3>3, <3>4, <3>5 DEF Answered, time
  <2> QED BY Zenon, <1>4, <1>5, <1>6, <2>1
<1> QED BY <1>2, <1>7

\* Whoever does not move is answered as before.
LEMMA RequestSeenKept ==
    ASSUME SocialLoginInv, Grows, now' = now, job' = job, NEW s \in REQUESTS,
           at'[s] = at[s], began'[s] = began[s], got'[s] = got[s], said'[s] = said[s]
    PROVE  RequestSeen(s)'
<1>1. /\ now \in Nat /\ TypesStores /\ RequestSeen(s) /\ Person(s) \in USERS /\ began[s] \in Int
      /\ said[s].time \in Int /\ (Active(s) => began[s] <= now)
  BY JobTypes, InTime DEF SocialLoginInv, Types, TypesRequests, SaidType, RegisteredInv
<1> DEFINE unseen(time) == StillUnseen(Person(s), time)
<1>2. ASSUME NEW time \in Int, time <= now, Unseen(Person(s), time) PROVE unseen(time)
  BY <1>1, <1>2, UnseenKept
<1>3. /\ began[s] - RowGrace + LATENCY \in Int /\ began[s] - SharedGrace + 1 \in Int
      /\ said[s].time - LookupGrace - LATENCY \in Int
      /\ Active(s) => /\ began[s] - RowGrace + LATENCY <= now
                      /\ began[s] - SharedGrace + 1 <= now
      /\ said[s].time <= now => said[s].time - LookupGrace - LATENCY <= now
  BY <1>1, Graces
<1>4. at[s] \in Checking \cup {"ticketing"} => Active(s)
  BY DEF Active, Checking
<1> HIDE DEF unseen
<1>5. /\ at[s] = "filling" /\ ~got[s].yes => unseen(began[s])
      /\ at[s] = "checked" /\ ~got[s].yes => unseen(began[s] - RowGrace + LATENCY)
      /\ at[s] = "ticketing" /\ ~got[s].yes => unseen(began[s] - SharedGrace + 1)
  BY <1>1, <1>2, <1>3, <1>4 DEF RequestSeen, Asked, Checking
<1>6. Kind(s) = "lookup" /\ at[s] \in Checking /\ got[s].path = "offline" /\ got[s].cached = "no" =>
         unseen(began[s] - SharedGrace + 1)
  BY <1>2, <1>3, <1>4, <1>1 DEF RequestSeen, Offline
<1>7. said[s].word = "no" => said[s].time <= now
  BY <1>1 DEF RequestSeen
<1>8. Denied(s) => unseen(said[s].time - LookupGrace - LATENCY)
  BY <1>1, <1>2, <1>3, <1>7 DEF RequestSeen, Denied
<1>9. Asked(s)'
  BY <1>5 DEF Asked, Unseen, unseen, StillUnseen, Person, Kind, Token, RowGrace, SharedGrace, MemoryGrace
<1>10. Offline(s)'
  BY <1>6 DEF Offline, Unseen, unseen, StillUnseen, Person, Kind, Token, RowGrace, SharedGrace, MemoryGrace
<1>11. Guessed(s)'
  BY <1>1 DEF RequestSeen, Guessed, Reliable, Kind, Token
<1>12. Denied(s)' => Unseen(Person(s), said[s].time - LookupGrace - LATENCY)'
  BY <1>8 DEF Denied, Unseen, unseen, StillUnseen, Person, Kind, Token, RowGrace, SharedGrace, MemoryGrace, LookupGrace
<1> QED BY <1>7, <1>9, <1>10, <1>11, <1>12 DEF RequestSeen

\* What the request itself finds.
LEMMA StepAsked ==
    ASSUME SocialLoginInv, NEW r \in REQUESTS, Step(r)
    PROVE  /\ at'[r] = "filling" /\ ~got'[r].yes => StillUnseen(Person(r), began'[r])
           /\ at'[r] = "checked" /\ ~got'[r].yes => StillUnseen(Person(r), began'[r] - RowGrace + LATENCY)
           /\ at'[r] = "ticketing" /\ ~got'[r].yes => StillUnseen(Person(r), began'[r] - SharedGrace + 1)
<1> DEFINE Finds ==
              /\ at'[r] = "filling" /\ ~got'[r].yes => StillUnseen(Person(r), began'[r])
              /\ at'[r] = "checked" /\ ~got'[r].yes => StillUnseen(Person(r), began'[r] - RowGrace + LATENCY)
              /\ at'[r] = "ticketing" /\ ~got'[r].yes => StillUnseen(Person(r), began'[r] - SharedGrace + 1)
<1>1. /\ now \in Nat /\ now' = now /\ TypesRequests /\ TypesStores /\ Grows /\ Person(r) \in USERS /\ Asked(r)
      /\ began[r] \in Int /\ got \in [REQUESTS -> GotType] /\ got[r] \in GotType
      /\ \A place : Goto(r, place) => at'[r] = place
      /\ at'[r] # "over" => began'[r] = IF at[r] = "new" THEN now ELSE began[r]
      /\ at[r] # "over"
  BY StepCarries, StepGrows, JobTypes
     DEF SocialLoginInv, Types, TypesRequests, RegisteredInv, RequestSeen, Carried, Went, Goto
<1>2. ASSUME NEW time \in Int, time <= now, Unseen(Person(r), time) PROVE StillUnseen(Person(r), time)
  BY <1>1, <1>2, UnseenKept
<1>3. at[r] # "new" => began[r] <= now /\ now <= began[r] + LATENCY
  BY <1>1, InTime DEF Active
<1>4. ASSUME NEW value, got' = [got EXCEPT ![r].yes = value] PROVE got'[r].yes = value
  BY <1>1, <1>4 DEF GotType
<1>5. CASE CheckExists(r)
  <2>1. CASE at'[r] = "checked" /\ ~got'[r].yes
    <3>1. now < exists[Person(r)].until /\ ~exists[Person(r)].yes /\ at[r] = "checking"
      <4>1. CASE now < exists[Person(r)].until
        <5>1. got'[r].yes = exists[Person(r)].yes
          BY <1>4, <1>5, <4>1 DEF CheckExists
        <5> QED BY <1>5, <2>1, <4>1, <5>1 DEF CheckExists
      <4>2. CASE ~(now < exists[Person(r)].until)
        BY <1>1, <1>5, <2>1, <4>2 DEF CheckExists
      <4> QED BY <4>1, <4>2
    <3>2. exists[Person(r)].until \in Int /\ UserSeen(Person(r))
      BY <1>1 DEF SocialLoginInv, RegisteredInv, TypesStores, CheckType
    <3>3. Unseen(Person(r), exists[Person(r)].until - EXISTS_TTL - LATENCY)
      BY <3>1, <3>2 DEF UserSeen
    <3>4. /\ began[r] - RowGrace + LATENCY <= exists[Person(r)].until - EXISTS_TTL - LATENCY
          /\ began[r] - RowGrace + LATENCY \in Int /\ exists[Person(r)].until - EXISTS_TTL - LATENCY \in Int
          /\ began[r] - RowGrace + LATENCY <= now
      BY <1>1, <1>3, <3>1, <3>2, Graces
    <3>5. Unseen(Person(r), began[r] - RowGrace + LATENCY)
      BY <1>1, <3>3, <3>4, UnseenEarlier
    <3>6. StillUnseen(Person(r), began[r] - RowGrace + LATENCY)
      BY <1>2, <3>4, <3>5
    <3> QED BY <1>1, <2>1, <3>1, <3>6
  <2> QED BY <1>1, <1>5, <2>1 DEF CheckExists
<1>6. CASE SelectRow(r)
  <2>1. CASE Goto(r, "filling") /\ got' = [got EXCEPT ![r].yes = Person(r) \in row]
    <3>1. at'[r] = "filling" /\ row' = row
      BY <1>1, <1>6, <2>1 DEF SelectRow
    <3>2. got'[r].yes = (Person(r) \in row)
      BY Zenon, <1>4, <2>1
    <3>3. ~got'[r].yes => Person(r) \notin row'
      BY <3>1, <3>2
    <3> QED BY <3>1, <3>3 DEF StillUnseen
  <2>2. CASE Goto(r, "checked")
    <3>1. at'[r] = "checked" /\ unseenAt' = [unseenAt EXCEPT ![Person(r)] = now] /\ at[r] = "selecting"
      BY <1>1, <1>6, <2>2 DEF SelectRow
    <3>2. unseenAt'[Person(r)] = now
      BY <1>1, <3>1 DEF TypesStores
    <3>3. began'[r] - RowGrace + LATENCY <= now
      BY <1>1, <1>3, <3>1, Graces
    <3> QED BY <3>1, <3>2, <3>3 DEF StillUnseen
  <2> QED BY <1>6, <2>1, <2>2 DEF SelectRow
<1>7. CASE FillExists(r)
  <2>1. at[r] = "filling" /\ at'[r] = "checked" /\ got' = got
    BY <1>1, <1>7 DEF FillExists, Go
  <2>2. /\ began'[r] = began[r] /\ began[r] - RowGrace + LATENCY \in Int
        /\ began[r] - RowGrace + LATENCY <= began[r] /\ began[r] <= now
        /\ began[r] - RowGrace + LATENCY <= now
    BY <1>1, <1>3, <2>1, Graces
  <2>3. ~got[r].yes => Unseen(Person(r), began[r] - RowGrace + LATENCY)
    BY <1>1, <2>1, <2>2, UnseenEarlier DEF Asked
  <2> QED BY <1>2, <2>1, <2>2, <2>3
<1>8. CASE LookFast(r)
  <2>1. CASE /\ Kind(r) = "kakao" /\ now < fast[Key(r)].until /\ Goto(r, "ticketing") /\ at[r] = "new"
             /\ got' = [got EXCEPT ![r].yes = fast[Key(r)].said = "yes"]
    <3> DEFINE c == job[r].code
    <3>1. at'[r] = "ticketing" /\ Key(r) = c /\ c \in CODES /\ began'[r] = now
      BY <1>1, <2>1, JobTypes DEF Key
    <3>2. got'[r].yes = (fast[c].said = "yes")
      BY Zenon, <1>4, <2>1, <3>1
    <3>3. fast[c].until \in Int /\ CodeSeen(c)
      BY <1>1, <3>1 DEF SocialLoginInv, RegisteredInv, TypesStores, FastType
    <3>4. ~got'[r].yes => CodeUnseen(c, fast[c].until - FAST_TTL - RowGrace - LATENCY)
      BY <2>1, <3>1, <3>2, <3>3 DEF CodeSeen
    <3>5. ~got'[r].yes => Unseen(Person(r), fast[c].until - FAST_TTL - RowGrace - LATENCY)
      BY <2>1, <3>4 DEF CodeUnseen
    <3>6. /\ now - SharedGrace + 1 <= fast[c].until - FAST_TTL - RowGrace - LATENCY
          /\ now - SharedGrace + 1 \in Int /\ fast[c].until - FAST_TTL - RowGrace - LATENCY \in Int
          /\ now - SharedGrace + 1 <= now
      BY <1>1, <2>1, <3>1, <3>3, Graces
    <3>7. ~got'[r].yes => Unseen(Person(r), now - SharedGrace + 1)
      BY <1>1, <3>5, <3>6, UnseenEarlier
    <3>8. ~got'[r].yes => StillUnseen(Person(r), now - SharedGrace + 1)
      BY <1>2, <3>6, <3>7
    <3> QED BY <3>1, <3>8
  <2>2. CASE Goto(r, "over") \/ Goto(r, "entering")
    BY <1>1, <2>2
  <2> QED BY <1>8, <2>1, <2>2 DEF LookFast
<1>9. CASE UpsertProfile(r) /\ at'[r] = "ticketing"
  <2>1. at[r] = "checked" /\ at'[r] = "ticketing" /\ got' = got
    BY <1>1, <1>9 DEF UpsertProfile
  <2>2. /\ began'[r] = began[r] /\ began[r] - SharedGrace + 1 \in Int /\ began[r] - RowGrace + LATENCY \in Int
        /\ began[r] - SharedGrace + 1 <= began[r] - RowGrace + LATENCY /\ began[r] - SharedGrace + 1 <= now
    BY <1>1, <1>3, <2>1, Graces
  <2>3. ~got[r].yes => Unseen(Person(r), began[r] - SharedGrace + 1)
    BY <1>1, <2>1, <2>2, UnseenEarlier DEF Asked
  <2> QED BY <1>2, <2>1, <2>2, <2>3
<1> DEFINE Elsewhere == at'[r] \notin {"filling", "checked", "ticketing"}
<1>10. Elsewhere => Finds
  OBVIOUS
<1>11. ASSUME BeginLookup(r) PROVE Elsewhere
  <2>1. now <= flight[Token(r)].until => flight[Token(r)].by \in REQUESTS
    BY JobTypes DEF SocialLoginInv, Types, LookupsInv
  <2>2. \A k \in REQUESTS : k \notin {"filling", "checked", "ticketing"}
    BY SocialLoginAssumption DEF PLACES, Checking
  <2> QED BY <1>1, <1>11, <2>1, <2>2 DEF BeginLookup
<1>12. ASSUME AnswerGuess(r) PROVE Elsewhere
  BY <1>1, <1>12 DEF AnswerGuess
<1>13. ASSUME WriteIndex(r) PROVE Elsewhere
  BY <1>1, <1>13 DEF WriteIndex, Go
<1>14. ASSUME Enter(r) PROVE Elsewhere
  <2>1. Goto(r, "offline") \/ Goto(r, "session") \/ Goto(r, "hydrating")
    BY <1>14 DEF Enter
  <2> QED BY <1>1, <2>1
<1>15. ASSUME Enlist(r) PROVE Elsewhere
  <2>1. Goto(r, "caching") \/ Goto(r, "invalidating") \/ Goto(r, "over")
    BY <1>15 DEF Enlist
  <2> QED BY <1>1, <2>1
<1>16. ASSUME \/ Share(r) \/ AnswerOffline(r) \/ VerifyLater(r) \/ Guess(r) \/ CacheUser(r)
            \/ ReadIndex(r) \/ ReadTokens(r) \/ DropTokens(r) \/ DropIndex(r) \/ Hydrate(r)
            \/ EditProfile(r) \/ FindIndex(r) \/ EraseIndex(r)
       PROVE Elsewhere
  BY <1>1, <1>16 DEF Share, AnswerOffline, VerifyLater, Guess, CacheUser, ReadIndex, ReadTokens, DropTokens,
         DropIndex, EditProfile, FindIndex, EraseIndex, Hydrate, Go
<1>17. ASSUME \/ EnterOffline(r) \/ EnterMissed(r) \/ EnsureProfile(r) \/ AskElsewhere(r)
            \/ RegisterElsewhere(r) \/ Exchange(r) \/ KeepTicket(r) \/ ReadTicket(r) \/ Redeem(r)
       PROVE Elsewhere
  BY <1>1, <1>17 DEF EnterOffline, EnterMissed, EnsureProfile, AskElsewhere, RegisterElsewhere, Exchange, KeepTicket,
         ReadTicket, Redeem, Go
<1>18. ASSUME UpsertProfile(r), at'[r] # "ticketing" PROVE Elsewhere
  BY <1>1, <1>18 DEF UpsertProfile
<1> QED BY <1>5, <1>6, <1>7, <1>8, <1>9, <1>10, <1>11, <1>12, <1>13, <1>14, <1>15, <1>16, <1>17, <1>18 DEF Step

\* What a lookup has from Redis, and which path it takes.
LEMMA StepOffline ==
    ASSUME SocialLoginInv, NEW r \in REQUESTS, Step(r)
    PROVE  /\ Kind(r) = "lookup" /\ at'[r] \in Checking /\ got'[r].path = "offline" /\ got'[r].cached = "no" =>
                 StillUnseen(Person(r), began'[r] - SharedGrace + 1)
           /\ /\ Kind(r) = "lookup"
              /\ at'[r] = "guessing" \/ (at'[r] \in Checking /\ got'[r].path \in {"hit", "miss"})
              => ~Reliable(Token(r))
<1> DEFINE Seen == /\ Kind(r) = "lookup" /\ at'[r] \in Checking /\ got'[r].path = "offline" /\ got'[r].cached = "no" =>
                         StillUnseen(Person(r), began'[r] - SharedGrace + 1)
                   /\ /\ Kind(r) = "lookup"
                      /\ at'[r] = "guessing" \/ (at'[r] \in Checking /\ got'[r].path \in {"hit", "miss"})
                      => ~Reliable(Token(r))
<1>1. /\ now \in Nat /\ now' = now /\ TypesRequests /\ TypesStores /\ Grows /\ Person(r) \in USERS /\ Token(r) \in TOKENS
      /\ Kind(r) = "lookup" => Person(r) = OWNER[Token(r)]
      /\ began[r] \in Int /\ got \in [REQUESTS -> GotType] /\ got[r] \in GotType
      /\ \A place : Goto(r, place) => at'[r] = place
      /\ at'[r] # "over" => began'[r] = IF at[r] = "new" THEN now ELSE began[r]
      /\ Placed(r) /\ Offline(r) /\ Guessed(r)
  BY StepCarries, StepGrows, JobTypes
     DEF SocialLoginInv, Types, TypesRequests, Requests, RegisteredInv, RequestSeen, Carried, Went, Goto
<1>2. ASSUME NEW time \in Int, time <= now, Unseen(Person(r), time) PROVE StillUnseen(Person(r), time)
  BY <1>1, <1>2, UnseenKept
<1>3. at[r] # "new" /\ at[r] # "over" => began[r] <= now
  BY <1>1, InTime DEF Active
<1>4. CASE BeginLookup(r)
  <2>1. /\ Kind(r) = "lookup" /\ at[r] = "new"
        /\ \/ Goto(r, "over")
           \/ now <= flight[Token(r)].until /\ Goto(r, flight[Token(r)].by)
           \/ /\ Token(r) \notin OPAQUE /\ now < EXPIRES[Token(r)] /\ Goto(r, "checking")
              /\ \E cached \in {"unread", RedisSays(Token(r))} :
                    got' = [got EXCEPT ![r].path = "offline", ![r].cached = cached]
           \/ ~(Token(r) \notin OPAQUE /\ now < EXPIRES[Token(r)]) /\ Goto(r, "guessing")
    BY <1>4 DEF BeginLookup
  <2>2. CASE Goto(r, "over")
    BY <1>1, <2>2 DEF Checking
  <2>3. CASE now <= flight[Token(r)].until /\ Goto(r, flight[Token(r)].by)
    <3>1. at'[r] \in REQUESTS
      BY <1>1, <2>3 DEF SocialLoginInv, LookupsInv
    <3>2. \A k \in REQUESTS : k \notin Checking \cup {"guessing"}
      BY SocialLoginAssumption DEF PLACES
    <3> QED BY <3>1, <3>2
  <2>4. ASSUME Token(r) \notin OPAQUE, now < EXPIRES[Token(r)], Goto(r, "checking"),
               NEW cached \in {"unread", RedisSays(Token(r))},
               got' = [got EXCEPT ![r].path = "offline", ![r].cached = cached]
        PROVE  Seen
    <3>1. got'[r].path = "offline" /\ got'[r].cached = cached /\ at'[r] = "checking" /\ began'[r] = now
      BY <1>1, <2>1, <2>4 DEF GotType
    <3>2. sharedCheck[Token(r)].until \in Int /\ sharedCheck[Token(r)].yes \in BOOLEAN /\ TokenSeen(Token(r))
      BY <1>1 DEF TypesStores, CheckType, SocialLoginInv, RegisteredInv
    <3>3. cached = "no" => now < sharedCheck[Token(r)].until /\ ~sharedCheck[Token(r)].yes
      BY <2>4, <3>2 DEF RedisSays, Word
    <3>4. cached = "no" => Unseen(Person(r), sharedCheck[Token(r)].until - SharedGrace)
      BY <1>1, <2>1, <2>4, <3>2, <3>3 DEF TokenSeen, Reliable
    <3>5. /\ now < sharedCheck[Token(r)].until => now - SharedGrace + 1 <= sharedCheck[Token(r)].until - SharedGrace
          /\ now - SharedGrace + 1 \in Int /\ sharedCheck[Token(r)].until - SharedGrace \in Int
          /\ now - SharedGrace + 1 <= now
      BY <1>1, <3>2, Graces
    <3>6. cached = "no" => Unseen(Person(r), now - SharedGrace + 1)
      BY <1>1, <3>3, <3>4, <3>5, UnseenEarlier
    <3>7. cached = "no" => StillUnseen(Person(r), now - SharedGrace + 1)
      BY <1>2, <3>5, <3>6
    <3> QED BY <3>1, <3>7
  <2>5. CASE ~(Token(r) \notin OPAQUE /\ now < EXPIRES[Token(r)]) /\ Goto(r, "guessing")
    BY <1>1, <2>5 DEF Reliable, Checking
  <2> QED BY <2>1, <2>2, <2>3, <2>4, <2>5
<1>5. CASE Guess(r)
  <2>1. CASE Goto(r, "over")
    BY <1>1, <2>1 DEF Checking
  <2>2. ASSUME NEW path \in {"hit", "miss"}, Goto(r, "checking"), got' = [got EXCEPT ![r].path = path] PROVE Seen
    <3>1. at[r] = "guessing" /\ got'[r].path = path
      BY <1>1, <1>5, <2>2 DEF Guess, GotType
    <3> QED BY <1>1, <2>2, <3>1 DEF Guessed
  <2> QED BY <1>5, <2>1, <2>2 DEF Guess
\* The table is asked without a change of the path.
<1>6. CASE CheckExists(r) \/ SelectRow(r) \/ FillExists(r)
  <2>1. got'[r].path = got[r].path /\ got'[r].cached = got[r].cached
    <3>1. ASSUME NEW value, got' = [got EXCEPT ![r].yes = value]
          PROVE  got'[r].path = got[r].path /\ got'[r].cached = got[r].cached
      BY <1>1, <3>1 DEF GotType
    <3> QED BY <1>6, <3>1 DEF CheckExists, SelectRow, FillExists, Go
  <2>2. at[r] \in Checking /\ at[r] # "new" /\ at[r] # "over" /\ at'[r] \in Checking /\ at'[r] # "guessing"
    BY <1>1, <1>6 DEF CheckExists, SelectRow, FillExists, Go, Checking
  <2>3. began'[r] = began[r] /\ began[r] - SharedGrace + 1 \in Int /\ began[r] - SharedGrace + 1 <= now
    BY <1>1, <1>3, <2>2, Graces DEF Checking
  <2> QED BY <1>1, <1>2, <2>1, <2>2, <2>3 DEF Offline, Guessed
<1> DEFINE Elsewhere == Kind(r) = "lookup" => at'[r] \notin Checking \cup {"guessing"}
<1>7. Elsewhere => Seen
  OBVIOUS
<1> USE DEF Checking, Placed
<1>8. ASSUME Share(r) PROVE Elsewhere
  BY <1>1, <1>8 DEF Share
<1>9. ASSUME AnswerGuess(r) PROVE Elsewhere
  BY <1>1, <1>9 DEF AnswerGuess
<1>10. ASSUME WriteIndex(r) PROVE Elsewhere
  BY <1>1, <1>10 DEF WriteIndex, Go
<1>11. ASSUME Enter(r) \/ Enlist(r) PROVE Elsewhere
  BY <1>1, <1>11 DEF Enter, Enlist
<1>12. ASSUME \/ AnswerOffline(r) \/ VerifyLater(r) \/ CacheUser(r) \/ ReadIndex(r) \/ ReadTokens(r)
            \/ DropTokens(r) \/ DropIndex(r) \/ EditProfile(r) \/ FindIndex(r) \/ EraseIndex(r)
            \/ LookFast(r) \/ Hydrate(r) \/ EnterOffline(r)
       PROVE Elsewhere
  BY <1>1, <1>12 DEF AnswerOffline, VerifyLater, CacheUser, ReadIndex, ReadTokens, DropTokens, DropIndex,
         EditProfile, FindIndex, EraseIndex, LookFast, Hydrate, EnterOffline, Go
<1>13. ASSUME \/ EnterMissed(r) \/ EnsureProfile(r) \/ AskElsewhere(r) \/ RegisterElsewhere(r)
            \/ Exchange(r) \/ UpsertProfile(r) \/ KeepTicket(r) \/ ReadTicket(r) \/ Redeem(r)
       PROVE Elsewhere
  BY <1>1, <1>13 DEF EnterMissed, EnsureProfile, AskElsewhere, RegisterElsewhere, Exchange, UpsertProfile,
         KeepTicket, ReadTicket, Redeem, Go
<1> QED BY <1>4, <1>5, <1>6, <1>7, <1>8, <1>9, <1>10, <1>11, <1>12, <1>13 DEF Step

LEMMA StepRequestSeen ==
    ASSUME SocialLoginInv, NEW r \in REQUESTS, Step(r), NEW s \in REQUESTS
    PROVE  RequestSeen(s)'
<1>1. Carried(r) /\ Grows
  BY StepCarries, StepGrows
<1>2. CASE s # r
  BY <1>1, <1>2, RequestSeenKept DEF Carried, Went
<1>3. CASE s = r
  <2>1. /\ now \in Nat /\ now' = now /\ job' = job /\ TypesStores /\ RequestSeen(r) /\ Person(r) \in USERS
        /\ said[r].time \in Int
    BY <1>1, JobTypes DEF Carried, Went, SocialLoginInv, Types, TypesRequests, SaidType, RegisteredInv
  <2>2. Asked(r)'
    BY <2>1, StepAsked DEF Asked, Unseen, StillUnseen, Person, Kind, Token, RowGrace, SharedGrace, MemoryGrace
  <2>3. Offline(r)'
    BY <2>1, StepOffline DEF Offline, Unseen, StillUnseen, Person, Kind, Token, RowGrace, SharedGrace, MemoryGrace
  <2>4. Guessed(r)'
    BY <2>1, StepOffline DEF Guessed, Reliable, Kind, Token
  <2>5. CASE said'[r] = said[r]
    <3>1. Denied(r)' => Denied(r)
      BY <2>1, <2>5 DEF Denied, Kind, Token
    <3>2. said[r].word = "no" => said[r].time <= now
      BY <2>1 DEF RequestSeen
    <3>3. Denied(r) => StillUnseen(Person(r), said[r].time - LookupGrace - LATENCY)
      <4>1. /\ said[r].time - LookupGrace - LATENCY \in Int
            /\ said[r].time <= now => said[r].time - LookupGrace - LATENCY <= now
        BY <2>1, Graces
      <4> QED BY <1>1, <2>1, <3>2, <4>1, UnseenKept DEF RequestSeen, Denied
    <3>4. Denied(r)' => Unseen(Person(r), said[r].time - LookupGrace - LATENCY)'
      BY <2>1, <2>5, <3>1, <3>3
         DEF Unseen, StillUnseen, Person, Kind, Token, RowGrace, SharedGrace, MemoryGrace, LookupGrace
    <3> QED BY <1>3, <2>1, <2>2, <2>3, <2>4, <2>5, <3>2, <3>4 DEF RequestSeen
  <2>6. CASE said'[r] # said[r]
    <3>1. Denied(r)' => said'[r].time = now /\ StillUnseen(Person(r), now - LookupGrace - LATENCY)
      <4>1. now - LookupGrace - LATENCY \in Int /\ now - LookupGrace - LATENCY <= now
        BY <2>1, Graces
      <4> QED BY <1>1, <2>1, <2>6, <4>1, StepDenies, UnseenKept
    <3>2. Denied(r)' => Unseen(Person(r), said[r].time - LookupGrace - LATENCY)'
      BY <2>1, <3>1
         DEF Unseen, StillUnseen, Person, Kind, Token, RowGrace, SharedGrace, MemoryGrace, LookupGrace
    <3>3. said'[r].word = "no" => said'[r].time <= now
      BY <1>1, <2>1, <2>6 DEF Carried
    <3> QED BY <1>3, <2>1, <2>2, <2>3, <2>4, <3>2, <3>3 DEF RequestSeen
  <2> QED BY <2>5, <2>6
<1> QED BY <1>2, <1>3

\* Only a lookup that leads is answered on its way, and only such a one is shared.
LEMMA StepTalks ==
    ASSUME SocialLoginInv, NEW r \in REQUESTS, Step(r)
    PROVE  /\ Kind(r) = "lookup" /\ at[r] \notin REQUESTS \cup {"new"} /\ said'[r] # said[r] => Leads(r)
           /\ at'[r] \in REQUESTS => Leads(at'[r]) /\ Token(at'[r]) = Token(r)
<1>1. /\ Placed(r) /\ \A place : Goto(r, place) => at'[r] = place
      /\ \A k \in REQUESTS : k \notin PLACES
  <2>1. Carried(r)
    BY StepCarries
  <2> QED BY <2>1, SocialLoginAssumption
          DEF SocialLoginInv, Types, TypesRequests, Requests, Carried, Goto
<1> DEFINE Silent == said' = said \/ Kind(r) # "lookup" \/ Leads(r)
           Away == at'[r] \notin REQUESTS
<1> USE DEF PLACES, Asking, Checking, Caching, Dropping, Placed, Leads
<1>2. CASE BeginLookup(r)
  <2>1. /\ Kind(r) = "lookup" /\ at[r] = "new"
        /\ \/ Goto(r, "over") \/ Goto(r, "checking") \/ Goto(r, "guessing")
           \/ now <= flight[Token(r)].until /\ Goto(r, flight[Token(r)].by)
    BY <1>2 DEF BeginLookup
  <2>2. CASE Goto(r, "over") \/ Goto(r, "checking") \/ Goto(r, "guessing")
    BY <1>1, <2>1, <2>2
  <2>3. CASE now <= flight[Token(r)].until /\ Goto(r, flight[Token(r)].by)
    <3>1. Leads(flight[Token(r)].by) /\ Token(flight[Token(r)].by) = Token(r)
      BY <2>3, JobTypes DEF SocialLoginInv, Types, LookupsInv
    <3> QED BY <1>1, <2>1, <2>3, <3>1
  <2> QED BY <2>1, <2>2, <2>3
<1>3. ASSUME Share(r) PROVE Away /\ at[r] \in REQUESTS
  BY <1>1, <1>3 DEF Share
<1>4. ASSUME AnswerOffline(r) \/ Guess(r) \/ AnswerGuess(r) PROVE Away /\ Silent
  BY <1>1, <1>4 DEF AnswerOffline, Guess, AnswerGuess
<1>5. ASSUME CheckExists(r) \/ SelectRow(r) \/ FillExists(r) \/ VerifyLater(r) \/ CacheUser(r) PROVE Away /\ Silent
  BY <1>1, <1>5 DEF CheckExists, SelectRow, FillExists, VerifyLater, CacheUser, Go
<1>6. ASSUME \/ ReadIndex(r) \/ WriteIndex(r) \/ ReadTokens(r) \/ DropTokens(r) \/ DropIndex(r)
             \/ EditProfile(r) \/ FindIndex(r) \/ EraseIndex(r)
      PROVE  Away /\ Silent
  BY <1>1, <1>6 DEF ReadIndex, WriteIndex, ReadTokens, DropTokens, DropIndex, EditProfile, FindIndex, EraseIndex, Go
<1>7. ASSUME LookFast(r) \/ Enter(r) \/ Hydrate(r) \/ EnterOffline(r) \/ EnterMissed(r) PROVE Away /\ Silent
  BY <1>1, <1>7 DEF LookFast, Enter, Hydrate, EnterOffline, EnterMissed
<1>8. ASSUME EnsureProfile(r) \/ AskElsewhere(r) \/ RegisterElsewhere(r) \/ Enlist(r) PROVE Away /\ Silent
  BY <1>1, <1>8 DEF EnsureProfile, AskElsewhere, RegisterElsewhere, Enlist, Go
<1>9. ASSUME \/ Exchange(r) \/ UpsertProfile(r) \/ KeepTicket(r) \/ ReadTicket(r) \/ Redeem(r)
      PROVE  Away /\ (Silent \/ at[r] = "new")
  BY <1>1, <1>9 DEF Exchange, UpsertProfile, KeepTicket, ReadTicket, Redeem, Go
<1> QED BY <1>2, <1>3, <1>4, <1>5, <1>6, <1>7, <1>8, <1>9 DEF Step

LEMMA StepShares ==
    ASSUME SocialLoginInv, NEW r \in REQUESTS, Step(r), NEW s \in REQUESTS
    PROVE  Shares(s)'
<1>1. /\ now \in Nat /\ now' = now /\ job' = job /\ TypesStores /\ Grows /\ Carried(r) /\ Placed(s) /\ Placed(r)
      /\ Person(s) \in USERS /\ Shares(s) /\ (Kind(s) = "lookup" => Person(s) = OWNER[Token(s)])
      /\ at'[r] # "new" /\ (at'[r] \in REQUESTS => at[r] = "new" /\ UNCHANGED <<said, got>>)
      /\ \A k \in REQUESTS : k \notin PLACES
  BY StepCarries, StepGrows, StepPlaced, JobTypes, SocialLoginAssumption
     DEF Carried, Went, SocialLoginInv, Types, TypesRequests, Requests, RegisteredInv
<1> DEFINE Bound(k) == said'[k].time - LookupGrace
<1>2. ASSUME NEW k \in REQUESTS, at'[s] = k,
             Kind(k) = "lookup", Token(k) = Token(s), at'[k] \notin REQUESTS \cup {"new"},
             Denied(k)' => began'[s] <= said'[k].time /\ StillUnseen(Person(s), Bound(k))
      PROVE  Shares(s)'
  BY <1>1, <1>2
     DEF Shares, Denied, Unseen, StillUnseen, Person, Kind, Token, RowGrace, SharedGrace, MemoryGrace, LookupGrace
<1>3. at'[s] \notin REQUESTS => Shares(s)'
  BY DEF Shares
<1>4. ASSUME s # r, at'[s] \in REQUESTS PROVE Shares(s)'
  <2> PICK k \in REQUESTS : k = at'[s]
    BY <1>4
  <2>1. /\ at[s] = k /\ began'[s] = began[s] /\ Kind(k) = "lookup" /\ Token(k) = Token(s)
        /\ at[k] \notin REQUESTS \cup {"new"} /\ Kind(s) = "lookup" /\ Active(s)
        /\ k # r => at'[k] = at[k] /\ said'[k] = said[k]
    BY <1>1, <1>4 DEF Carried, Went, Shares, Placed, Active, PLACES
  <2>2. at'[k] \notin REQUESTS \cup {"new"}
    BY <1>1, <2>1
  <2>3. Person(k) = Person(s)
    BY <1>1, <2>1, JobTypes DEF SocialLoginInv, Types
  <2>4. ASSUME said'[k] = said[k], Denied(k)' PROVE began'[s] <= said'[k].time /\ StillUnseen(Person(s), Bound(k))
    <3>1. Denied(k) /\ RequestSeen(k)
      BY <1>1, <2>1, <2>4 DEF Denied, Kind, Token, SocialLoginInv, RegisteredInv
    <3>2. began[s] <= said[k].time /\ Unseen(Person(s), said[k].time - LookupGrace) /\ said[k].time <= now
      BY <1>1, <2>1, <3>1 DEF Shares, RequestSeen, Denied
    <3>3. said[k].time \in Int
      BY <2>1 DEF SocialLoginInv, Types, TypesRequests, SaidType
    <3>4. said[k].time - LookupGrace \in Int /\ said[k].time - LookupGrace <= now
      BY <1>1, <3>2, <3>3, Graces
    <3> QED BY <1>1, <2>1, <2>4, <3>2, <3>4, UnseenKept
  <2>5. ASSUME said'[k] # said[k], Denied(k)' PROVE began'[s] <= said'[k].time /\ StillUnseen(Person(s), Bound(k))
    <3>1. k = r /\ Leads(r)
      BY <2>1, <2>5, StepTalks
    <3>2. said'[r].time = now /\ Unseen(Person(r), now - LookupGrace)
      BY <2>5, <3>1, StepDenies
    <3>3. now - LookupGrace \in Int /\ now - LookupGrace <= now
      BY <1>1, Graces
    <3>4. StillUnseen(Person(s), now - LookupGrace)
      BY <1>1, <2>3, <3>1, <3>2, <3>3, UnseenKept
    <3> QED BY <2>1, <3>1, <3>2, <3>4, InTime
  <2> QED BY <1>2, <2>1, <2>2, <2>4, <2>5
<1>5. ASSUME s = r, at'[s] \in REQUESTS PROVE Shares(s)'
  <2> PICK k \in REQUESTS : k = at'[r]
    BY <1>5
  <2>1. /\ at[r] = "new" /\ said' = said /\ Leads(k) /\ Token(k) = Token(r)
    BY <1>1, <1>5, StepTalks
  <2>2. k # r /\ at'[k] = at[k] /\ at[k] \in Asking /\ Kind(k) = "lookup" /\ said[k].word = "none"
    <3>1. k # r /\ Placed(k)
      BY <2>1 DEF Leads, Asking, Checking, SocialLoginInv, Requests
    <3> QED BY <1>1, <2>1, <3>1 DEF Leads, Carried, Went, Placed
  <2>3. at'[k] \notin REQUESTS \cup {"new"} /\ ~Denied(k)'
    BY <1>1, <2>1, <2>2 DEF Denied, Asking, Checking, PLACES
  <2> QED BY <1>2, <1>5, <2>1, <2>2, <2>3
<1> QED BY <1>3, <1>4, <1>5

LEMMA StepKeeps ==
    ASSUME SocialLoginInv, NEW r \in REQUESTS, Step(r)
    PROVE  SocialLoginInv'
<1>1. /\ Grows /\ now' = now /\ job' = job /\ fast' = fast
  BY StepGrows, StepCarries, StepAnswered DEF Carried, Went, Answered
<1>2. \A u \in USERS : UserSeen(u)'
  BY StepUserSeen
<1>3. \A t \in TOKENS : TokenSeen(t)'
  BY StepTokenSeen
<1>4. \A c \in CODES : CodeSeen(c)'
  BY <1>1, CodeSeenKept
<1>5. \A w \in late' : WriteSeen(w)'
  BY StepWriteSeen
<1>6. \A s \in REQUESTS : RequestSeen(s)' /\ Shares(s)'
  BY StepRequestSeen, StepShares
<1>7. RegisteredInv'
  BY <1>2, <1>3, <1>4, <1>5, <1>6 DEF RegisteredInv
<1> QED BY <1>7, StepTypes, StepRequests, StepTickets, StepLookups, StepIndex DEF SocialLoginInv

-----------------------------------------------------------------------------
(* Time passes.                                                               *)

\* What a tick leaves of an entry.
Left(entry, none) == IF entry.until < now + 1 THEN none ELSE entry

Ticked ==
    /\ now \in Nat /\ now' = now + 1
    /\ UNCHANGED <<row, unseenAt, job, at, began, ended, outlived, raced, crowded, orphaned, late>>
    /\ \A t \in TOKENS :
          /\ memoryCheck'[t] = Left(memoryCheck[t], NoCheck) /\ sharedCheck'[t] = Left(sharedCheck[t], NoCheck)
          /\ flight'[t] = Left(flight[t], NoFlight) /\ sharedUser'[t] = Left(sharedUser[t], NoUser)
    /\ \A u \in USERS : exists'[u] = Left(exists[u], NoCheck) /\ index'[u] = Left(index[u], NoIndex)
    /\ \A c \in CODES : fast'[c] = Left(fast[c], NoFast)
    /\ \A r \in REQUESTS :
          /\ ticket'[r] = Left(ticket[r], NoFast)
          /\ at[r] # "over" => got'[r] = got[r] /\ said'[r] = said[r]
          /\ ~Over(r) => said'[r] = said[r]
          /\ said'[r] = said[r] \/ (said[r].word \in {"yes", "no"} /\ said'[r].word = "done")

LEMMA TickTicks ==
    ASSUME SocialLoginInv, Tick
    PROVE  Ticked /\ Types'
<1>1. /\ now \in Nat /\ TypesRequests /\ TypesStores /\ now' = now + 1
      /\ UNCHANGED <<row, unseenAt, job, at, began, ended, outlived, raced, crowded, orphaned, late>>
  BY DEF SocialLoginInv, Types, Tick, rows
<1>2. /\ NoCheck \in CheckType /\ NoUser \in UserType /\ NoFlight \in FlightType
      /\ NoFast \in FastType /\ NoIndex \in IndexType /\ Nothing \in GotType
      /\ [word |-> "done", time |-> 0] \in SaidType
  BY DEF NoCheck, CheckType, NoUser, UserType, NoFlight, FlightType, NoFast, FastType, NoIndex, IndexType,
         Nothing, GotType, SaidType
<1>3. /\ memoryCheck' \in [TOKENS -> CheckType] /\ sharedCheck' \in [TOKENS -> CheckType]
      /\ \A t \in TOKENS : /\ memoryCheck'[t] = Left(memoryCheck[t], NoCheck)
                           /\ sharedCheck'[t] = Left(sharedCheck[t], NoCheck)
  <2>1. memoryCheck' = Alive(memoryCheck, NoCheck) /\ sharedCheck' = Alive(sharedCheck, NoCheck)
    BY DEF Tick
  <2>2. memoryCheck \in [TOKENS -> CheckType] /\ sharedCheck \in [TOKENS -> CheckType]
    BY <1>1 DEF TypesStores
  <2> QED BY <1>1, <1>2, <2>1, <2>2 DEF Alive, Left
<1>4. /\ exists' \in [USERS -> CheckType] /\ index' \in [USERS -> IndexType]
      /\ \A u \in USERS : exists'[u] = Left(exists[u], NoCheck) /\ index'[u] = Left(index[u], NoIndex)
  <2>1. exists' = Alive(exists, NoCheck) /\ index' = Alive(index, NoIndex)
    BY DEF Tick
  <2>2. exists \in [USERS -> CheckType] /\ index \in [USERS -> IndexType]
    BY <1>1 DEF TypesStores
  <2> QED BY <1>1, <1>2, <2>1, <2>2 DEF Alive, Left
<1>5. /\ flight' \in [TOKENS -> FlightType] /\ memoryUser' \in [TOKENS -> UserType]
      /\ sharedUser' \in [TOKENS -> UserType]
      /\ \A t \in TOKENS : flight'[t] = Left(flight[t], NoFlight) /\ sharedUser'[t] = Left(sharedUser[t], NoUser)
  <2>1. /\ flight' = Alive(flight, NoFlight) /\ memoryUser' = Alive(memoryUser, NoUser)
        /\ sharedUser' = Alive(sharedUser, NoUser)
    BY DEF Tick
  <2>2. /\ flight \in [TOKENS -> FlightType] /\ memoryUser \in [TOKENS -> UserType]
        /\ sharedUser \in [TOKENS -> UserType]
    BY <1>1 DEF TypesStores
  <2> QED BY <1>1, <1>2, <2>1, <2>2 DEF Alive, Left
<1>6. /\ fast' \in [TOKENS \cup CODES -> FastType] /\ ticket' \in [REQUESTS -> FastType]
      /\ \A c \in CODES : fast'[c] = Left(fast[c], NoFast)
      /\ \A r \in REQUESTS : ticket'[r] = Left(ticket[r], NoFast)
  <2>1. fast' = Alive(fast, NoFast) /\ ticket' = Alive(ticket, NoFast)
    BY DEF Tick
  <2>2. fast \in [TOKENS \cup CODES -> FastType] /\ ticket \in [REQUESTS -> FastType]
    BY <1>1 DEF TypesStores
  <2>3. \A c \in CODES : c \in TOKENS \cup CODES
    OBVIOUS
  <2> QED BY <1>1, <1>2, <2>1, <2>2, <2>3 DEF Alive, Left
<1>7. /\ got' \in [REQUESTS -> GotType] /\ said' \in [REQUESTS -> SaidType]
      /\ \A r \in REQUESTS :
            /\ at[r] # "over" => got'[r] = got[r] /\ said'[r] = said[r]
            /\ ~Over(r) => said'[r] = said[r]
            /\ said'[r] = said[r] \/ (said[r].word \in {"yes", "no"} /\ said'[r].word = "done")
  BY <1>1, <1>2 DEF TypesRequests, Tick, Over
<1>8. Ticked
  BY <1>1, <1>3, <1>4, <1>5, <1>6, <1>7 DEF Ticked
<1>9. TypesRequests'
  BY <1>1, <1>7 DEF TypesRequests
<1>10. TypesStores'
  BY <1>1, <1>3, <1>4, <1>5, <1>6 DEF TypesStores
<1> QED BY <1>1, <1>8, <1>9, <1>10 DEF Types

LEMMA TickRequests ==
    ASSUME SocialLoginInv, Tick
    PROVE  Requests'
<1>1. Ticked /\ TypesRequests /\ TypesStores
  BY TickTicks DEF SocialLoginInv, Types
<1>2. ASSUME NEW r \in REQUESTS, Active(r)' PROVE began'[r] <= now' /\ now' <= began'[r] + LATENCY
  <2>1. Active(r) /\ now - began[r] < LATENCY
    BY <1>1, <1>2 DEF Active, Ticked, Tick
  <2> QED BY <1>1, <2>1, InTime, Graces DEF Ticked
<1>3. ASSUME NEW w \in late' PROVE w.since <= now' /\ now' <= w.since + LATENCY
  <2>1. w \in late /\ now - w.since < LATENCY
    BY <1>1 DEF Ticked, Tick
  <2> QED BY <1>1, <2>1, LateTypes, Graces DEF Ticked
<1>4. ASSUME NEW u \in USERS PROVE unseenAt'[u] <= now'
  BY <1>1 DEF Ticked, TypesStores, SocialLoginInv, Requests, Clock
<1>5. ASSUME NEW r \in REQUESTS PROVE Placed(r)'
  <2>1. Placed(r) /\ Kind(r)' = Kind(r) /\ at'[r] = at[r] /\ ended'[r] = ended[r]
    BY <1>1 DEF SocialLoginInv, Requests, Ticked, Kind
  <2>2. (said'[r].word = "none" <=> said[r].word = "none") /\ (at[r] = "new" => got'[r] = got[r])
    BY <1>1 DEF Ticked
  <2> QED BY <2>1, <2>2 DEF Placed
<1> QED BY <1>2, <1>3, <1>4, <1>5 DEF Requests, Clock

LEMMA TickTickets ==
    ASSUME SocialLoginInv, Tick
    PROVE  TicketsInv'
<1>1. Ticked /\ TypesRequests /\ TypesStores /\ TicketsInv /\ Requests
  BY TickTicks DEF SocialLoginInv, Types
<1>2. \A r \in REQUESTS : /\ Kind(r)' = Kind(r) /\ job'[r].ticket = job[r].ticket /\ job[r].ticket \in REQUESTS
                          /\ at'[r] = at[r] /\ ended'[r] = ended[r]
                          /\ (said'[r].word = "in" <=> said[r].word = "in") /\ (Takes(r)' <=> Takes(r))
  BY <1>1, JobTypes DEF Ticked, Kind, Takes
<1>3. \A k \in REQUESTS : /\ now' < ticket'[k].until => now < ticket[k].until
                          /\ ticket[k].until <= now => ticket'[k].until <= now'
  BY <1>1 DEF Ticked, Left, NoFast, TypesStores, FastType
<1>4. ASSUME NEW k \in REQUESTS, now' < ticket'[k].until PROVE at'[k] = "over"
  BY <1>1, <1>2, <1>3, <1>4 DEF TicketsInv
<1>5. ASSUME NEW r \in REQUESTS, Kind(r)' = "finalize"
      PROVE  /\ Takes(r)' => at'[job'[r].ticket] = "over"
             /\ said'[r].word = "in" => ticket'[job'[r].ticket].until <= now'
  BY <1>1, <1>2, <1>3, <1>5 DEF TicketsInv
<1>6. ASSUME NEW r \in REQUESTS, NEW s \in REQUESTS, Kind(r)' = "finalize", Kind(s)' = "finalize", s \in ended'[r]
      PROVE  said'[s].word = "in" /\ (job'[s].ticket = job'[r].ticket => ~Takes(r)')
  BY <1>1, <1>2, <1>6 DEF TicketsInv
<1> QED BY <1>4, <1>5, <1>6 DEF TicketsInv, Kind, Takes

LEMMA TickLookups ==
    ASSUME SocialLoginInv, Tick
    PROVE  LookupsInv'
<1>1. Ticked /\ TypesRequests /\ TypesStores /\ LookupsInv /\ WINDOW \in Nat
  BY TickTicks, SocialLoginAssumption DEF SocialLoginInv, Types
<1>2. \A r \in REQUESTS : /\ Leads(r)' <=> Leads(r)
                          /\ Token(r)' = Token(r) /\ Token(r) \in TOKENS /\ began'[r] = began[r] /\ began[r] \in Int
  BY <1>1, JobTypes DEF Ticked, Leads, Kind, Token, TypesRequests
<1>3. \A t \in TOKENS : /\ now' <= flight'[t].until => flight'[t] = flight[t] /\ now <= flight[t].until
                        /\ now' <= flight[t].until => flight'[t] = flight[t]
  BY <1>1 DEF Ticked, Left, NoFlight, TypesStores, FlightType
<1>4. ASSUME NEW t \in TOKENS, now' <= flight'[t].until
      PROVE  flight'[t].by \in REQUESTS /\ Leads(flight[t].by)' /\ Token(flight[t].by)' = t
  <2>1. PICK k \in REQUESTS : k = flight[t].by /\ Leads(k) /\ Token(k) = t /\ k = flight'[t].by
    BY <1>1, <1>3, <1>4 DEF LookupsInv
  <2>2. Leads(k)' /\ Token(k)' = t
    BY <1>2, <2>1
  <2> QED BY <2>1, <2>2 DEF Leads, Token, Kind
<1>5. ASSUME NEW r \in REQUESTS, Leads(r)', Token(r)' \notin outlived', now' <= began'[r] + WINDOW
      PROVE  flight'[Token(r)'] = [by |-> r, until |-> began'[r] + WINDOW]
  <2>1. flight[Token(r)] = [by |-> r, until |-> began[r] + WINDOW]
    BY <1>1, <1>2, <1>5 DEF LookupsInv, Ticked
  <2> QED BY <1>2, <1>3, <1>5, <2>1
<1>6. ASSUME NEW r \in REQUESTS, NEW s \in REQUESTS, r # s, Leads(r)', Leads(s)', Token(r)' = Token(s)',
             Token(r)' \notin outlived'
      PROVE  began'[r] - began'[s] > WINDOW \/ began'[s] - began'[r] > WINDOW
  BY <1>1, <1>2, <1>6 DEF LookupsInv, Ticked
<1> QED BY <1>4, <1>5, <1>6 DEF LookupsInv, Leads, Token, Kind

LEMMA TickIndex ==
    ASSUME SocialLoginInv, Tick
    PROVE  IndexInv'
<1>1. /\ Ticked /\ TypesRequests /\ TypesStores /\ IndexInv /\ OWNER \in [TOKENS -> USERS] /\ USER_TTL \in Nat
      /\ \A k \in REQUESTS : k \notin PLACES
  BY TickTicks, SocialLoginAssumption DEF SocialLoginInv, Types
<1>2. \A r \in REQUESTS : /\ Person(r)' = Person(r) /\ Person(r) \in USERS /\ Token(r)' = Token(r)
                          /\ at'[r] = at[r] /\ (Holds(r)' <=> Holds(r)) /\ (Holds(r) => got'[r] = got[r])
                          /\ \A t \in TOKENS : Tracks(r, t)' <=> Tracks(r, t)
  BY <1>1, JobTypes DEF Ticked, Person, Kind, Token, Holds, Dropping, Tracks
<1>3. \A u \in USERS : /\ now' < index[u].until => index'[u] = index[u] /\ Listed(u)' = Listed(u)
                       /\ Keys(Listed(u)') \subseteq Keys(Listed(u))
  <2>1. \A u \in USERS : now' < index[u].until => index'[u] = index[u] /\ now < index[u].until
    BY <1>1 DEF Ticked, Left, TypesStores, IndexType
  <2>2. \A u \in USERS : ~(now' < index[u].until) => Listed(u)' = <<>>
    BY <1>1 DEF Ticked, Left, NoIndex, TypesStores, IndexType, Listed
  <2>3. Keys(<<>>) = {}
    BY DEF Keys
  <2> QED BY <2>1, <2>2, <2>3 DEF Listed
<1>4. \A t \in TOKENS : /\ now' < sharedUser'[t].until => sharedUser'[t] = sharedUser[t] /\ now < sharedUser[t].until
                        /\ sharedUser'[t].until <= now' + USER_TTL
  <2>1. ASSUME NEW t \in TOKENS
        PROVE  sharedUser[t].until \in Int /\ sharedUser[t].until <= now + USER_TTL
    BY <1>1 DEF TypesStores, UserType, IndexInv
  <2> QED BY <1>1, <2>1 DEF Ticked, Left, NoUser
<1>5. ASSUME NEW r \in REQUESTS PROVE HeldAlone(r)'
  <2>1. ASSUME Holds(r), Person(r) \notin raced
        PROVE  /\ \A s \in Owned(Person(r)) \ {r} : ~Holds(s)
               /\ Keys(Listed(Person(r))) \subseteq Keys(got[r].keys)
    BY <1>1, <2>1 DEF IndexInv, HeldAlone
  <2>2. Owned(Person(r))' = Owned(Person(r)) /\ raced' = raced
    BY <1>1, <1>2 DEF Owned, Ticked
  <2>3. Holds(r) => /\ Keys(got[r].keys)' = Keys(got[r].keys)
                    /\ Keys(Listed(Person(r)))' \subseteq Keys(Listed(Person(r)))
    <3> PICK u \in USERS : u = Person(r) /\ u = Person(r)'
      BY <1>2
    <3>1. Keys(Listed(u))' \subseteq Keys(Listed(u))
      BY <1>3 DEF Keys
    <3>2. Keys(Listed(Person(r)))' = Keys(Listed(u))'
      BY DEF Listed, Keys
    <3> QED BY <1>2, <3>1, <3>2 DEF Keys
  <2>4. ASSUME Holds(r)', Person(r)' \notin raced'
        PROVE  /\ \A s \in (Owned(Person(r)) \ {r})' : ~Holds(s)'
               /\ Keys(Listed(Person(r)))' \subseteq Keys(got[r].keys)'
    <3>1. Holds(r) /\ Person(r) \notin raced
      BY <1>2, <2>2, <2>4
    <3>2. \A s \in REQUESTS : s \in Owned(Person(r)) \ {r} => ~Holds(s)'
      BY <1>2, <2>1, <3>1
    <3> QED BY <2>1, <2>2, <2>3, <3>1, <3>2 DEF Owned
  <2> QED BY <2>4 DEF HeldAlone
<1>6. ASSUME NEW r \in REQUESTS PROVE DroppedFirst(r)'
  <2>1. ASSUME at'[r] = "unlisting", Person(r)' \notin raced', NEW t \in TOKENS, t \in Keys(got'[r].keys),
               OWNER[t] = Person(r)', now' < sharedUser'[t].until
        PROVE  \E s \in REQUESTS : at'[s] = "tracking" /\ Token(s)' = t
    <3>1. at[r] = "unlisting" /\ Person(r) \notin raced /\ got'[r] = got[r]
      BY <1>1, <1>2, <2>1 DEF Ticked
    <3>2. \E s \in REQUESTS : at[s] = "tracking" /\ Token(s) = t
      BY <1>1, <1>2, <1>4, <2>1, <3>1 DEF IndexInv, DroppedFirst
    <3> QED BY <1>2, <3>2
  <2> QED BY <2>1 DEF DroppedFirst, Keys, Token
<1>7. ASSUME NEW t \in TOKENS PROVE Findable(t)'
  <2>1. ASSUME now' < sharedUser'[t].until, OWNER[t] \notin raced', t \notin crowded' \cup orphaned'
        PROVE  \/ t \in Keys(Listed(OWNER[t]))' /\ sharedUser'[t].until <= index'[OWNER[t]].until
               \/ \E s \in REQUESTS : Tracks(s, t)'
    <3>1. sharedUser'[t] = sharedUser[t] /\ now < sharedUser[t].until /\ OWNER[t] \in USERS
      BY <1>1, <1>4, <2>1
    <3>2. \/ t \in Keys(Listed(OWNER[t])) /\ sharedUser[t].until <= index[OWNER[t]].until
          \/ \E s \in REQUESTS : Tracks(s, t)
      BY <1>1, <2>1, <3>1 DEF IndexInv, Findable, Ticked
    <3>3. CASE t \in Keys(Listed(OWNER[t])) /\ sharedUser[t].until <= index[OWNER[t]].until
      <4>1. now' < index[OWNER[t]].until
        BY <1>1, <2>1, <3>1, <3>3 DEF TypesStores, UserType, IndexType, Ticked
      <4> QED BY <1>3, <3>1, <3>3, <4>1 DEF Keys, Listed
    <3> QED BY <1>2, <3>2, <3>3
  <2> QED BY <2>1 DEF Findable
<1> QED BY <1>4, <1>5, <1>6, <1>7 DEF IndexInv

LEMMA TickRegistered ==
    ASSUME SocialLoginInv, Tick
    PROVE  RegisteredInv'
<1>1. Ticked /\ TypesRequests /\ TypesStores /\ RegisteredInv /\ Requests
  BY TickTicks DEF SocialLoginInv, Types
<1>2. \A u, time : Unseen(u, time) <=> (u \in row' => time <= unseenAt'[u])
  BY <1>1 DEF Ticked, Unseen
<1>3. \A t \in TOKENS : Reliable(t)' => Reliable(t)
  BY <1>1, Graces DEF Reliable, Ticked
<1>4. \A r \in REQUESTS : /\ Kind(r)' = Kind(r) /\ Token(r)' = Token(r) /\ Person(r)' = Person(r)
                          /\ job'[r] = job[r] /\ at'[r] = at[r] /\ began'[r] = began[r] /\ Token(r) \in TOKENS
  BY <1>1, JobTypes DEF Ticked, Person, Kind, Token
<1>5. ASSUME NEW u \in USERS PROVE UserSeen(u)'
  <2>1. /\ now' < exists'[u].until => exists'[u] = exists[u] /\ now < exists[u].until
        /\ exists'[u].until <= now' + EXISTS_TTL /\ UserSeen(u)
    BY <1>1, Graces DEF Ticked, Left, NoCheck, TypesStores, CheckType, RegisteredInv, UserSeen
  <2>2. now' < exists'[u].until /\ ~exists'[u].yes => Unseen(u, exists'[u].until - EXISTS_TTL - LATENCY)
    BY <2>1 DEF UserSeen
  <2> QED BY <1>2, <2>1, <2>2 DEF UserSeen, Unseen
<1>6. ASSUME NEW t \in TOKENS PROVE TokenSeen(t)'
  <2>1. /\ now' <= memoryCheck'[t].until => memoryCheck'[t] = memoryCheck[t] /\ now <= memoryCheck[t].until
        /\ now' < sharedCheck'[t].until => sharedCheck'[t] = sharedCheck[t] /\ now < sharedCheck[t].until
        /\ memoryCheck'[t].until <= now' + CHECK_TTL /\ sharedCheck'[t].until <= now' + CHECK_TTL /\ TokenSeen(t)
    <3>1. /\ memoryCheck[t].until \in Int /\ sharedCheck[t].until \in Int /\ TokenSeen(t)
          /\ memoryCheck[t].until <= now + CHECK_TTL /\ sharedCheck[t].until <= now + CHECK_TTL
      BY <1>1 DEF TypesStores, CheckType, RegisteredInv, TokenSeen
    <3>2. /\ now' <= memoryCheck'[t].until => memoryCheck'[t] = memoryCheck[t] /\ now <= memoryCheck[t].until
          /\ memoryCheck'[t].until <= now' + CHECK_TTL
      BY <1>1, <3>1, Graces DEF Ticked, Left, NoCheck
    <3>3. /\ now' < sharedCheck'[t].until => sharedCheck'[t] = sharedCheck[t] /\ now < sharedCheck[t].until
          /\ sharedCheck'[t].until <= now' + CHECK_TTL
      BY <1>1, <3>1, Graces DEF Ticked, Left, NoCheck
    <3> QED BY <3>1, <3>2, <3>3
  <2>2. /\ now' <= memoryCheck'[t].until /\ ~memoryCheck'[t].yes /\ Reliable(t)' =>
              Unseen(OWNER[t], memoryCheck'[t].until - MemoryGrace)
        /\ now' < sharedCheck'[t].until /\ ~sharedCheck'[t].yes /\ Reliable(t)' =>
              Unseen(OWNER[t], sharedCheck'[t].until - SharedGrace)
    BY <1>3, <2>1 DEF TokenSeen
  <2> QED BY <1>2, <2>1, <2>2 DEF TokenSeen, Unseen, MemoryGrace, SharedGrace, RowGrace
<1>7. ASSUME NEW c \in CODES PROVE CodeSeen(c)'
  <2>1. /\ now' < fast'[c].until => fast'[c] = fast[c] /\ now < fast[c].until
        /\ fast'[c].until <= now' + FAST_TTL /\ CodeSeen(c)
    BY <1>1, Graces DEF Ticked, Left, NoFast, TypesStores, FastType, RegisteredInv, CodeSeen
  <2>2. now' < fast'[c].until /\ fast'[c].said # "yes" =>
           CodeUnseen(c, fast'[c].until - FAST_TTL - RowGrace - LATENCY)
    BY <2>1 DEF CodeSeen
  <2>3. \A time : CodeUnseen(c, time) =>
           \A r \in REQUESTS : Kind(r)' = "kakao" /\ job'[r].code = c => (Person(r)' \in row' => time <= unseenAt'[Person(r)'])
    BY <1>2, <1>4 DEF CodeUnseen
  <2> QED BY <1>4, <2>1, <2>2, <2>3 DEF CodeSeen, CodeUnseen, Unseen, Person, Kind, Token, RowGrace
<1>8. ASSUME NEW w \in late' PROVE WriteSeen(w)'
  <2>1. w \in late /\ WriteSeen(w) /\ (w.kind = "check" => w.key \in TOKENS)
    BY <1>1, LateTypes DEF Ticked, RegisteredInv
  <2>2. \A time : CodeUnseen(w.key, time) =>
           \A r \in REQUESTS : Kind(r)' = "kakao" /\ job'[r].code = w.key =>
              (Person(r)' \in row' => time <= unseenAt'[Person(r)'])
    BY <1>2, <1>4 DEF CodeUnseen
  <2>3. /\ w.kind = "check" /\ ~w.value /\ Reliable(w.key)' => Unseen(OWNER[w.key], w.since - RowGrace)
        /\ w.kind = "fast" /\ w.value # "yes" /\ w.key \in CODES => CodeUnseen(w.key, w.since - RowGrace)
    BY <1>3, <2>1 DEF WriteSeen
  <2> QED BY <1>2, <2>2, <2>3 DEF WriteSeen, CodeUnseen, Unseen, Person, Kind, Token, RowGrace
<1>9. ASSUME NEW r \in REQUESTS PROVE RequestSeen(r)' /\ Shares(r)'
  <2>1. /\ RequestSeen(r) /\ Shares(r) /\ (at[r] # "over" => got'[r] = got[r])
        /\ said'[r] = said[r] \/ said'[r].word = "done"
    BY <1>1 DEF RegisteredInv, Ticked
  <2>2. Asked(r)'
    BY <1>2, <1>4, <2>1 DEF RequestSeen, Asked, Unseen, RowGrace, SharedGrace, MemoryGrace
  <2>3. Offline(r)'
    BY <1>2, <1>4, <2>1 DEF RequestSeen, Offline, Unseen, Checking, SharedGrace, MemoryGrace, RowGrace
  <2>4. Guessed(r)'
    BY <1>3, <1>4, <2>1 DEF RequestSeen, Guessed, Checking
  <2>5. said'[r].word = "no" => said'[r].time <= now'
    <3>1. said'[r].word = "no" => said'[r] = said[r] /\ said[r].time <= now /\ said[r].time \in Int
      BY <1>1, <2>1 DEF RequestSeen, TypesRequests, SaidType
    <3> QED BY <1>1, <3>1 DEF Ticked
  <2>6. Denied(r)' => Denied(r) /\ said'[r] = said[r]
    BY <1>4, <2>1 DEF Denied
  <2>7. Denied(r)' => Unseen(Person(r), said[r].time - LookupGrace - LATENCY)'
    BY <1>2, <1>4, <2>1, <2>6
       DEF RequestSeen, Unseen, LookupGrace, SharedGrace, MemoryGrace, RowGrace
  <2>8. Shares(r)'
    <3>1. CASE at[r] \in REQUESTS
      <4> PICK k \in REQUESTS : k = at[r]
        BY <3>1
      <4>1. ~Over(k)
        BY DEF Over
      <4>2. said'[k] = said[k]
        BY <1>1, <4>1 DEF Ticked
      <4>3. Denied(k)' => Denied(k)
        BY <1>4, <4>2 DEF Denied
      <4>4. /\ Kind(k)' = "lookup" /\ Token(k)' = Token(r)' /\ at'[k] \notin REQUESTS \cup {"new"}
            /\ Denied(k)' => /\ began'[r] <= said'[k].time
                             /\ Person(r)' \in row' => said'[k].time - LookupGrace <= unseenAt'[Person(r)']
        BY <1>2, <1>4, <2>1, <4>2, <4>3 DEF Shares
      <4>5. at'[r] = k
        BY <1>4
      <4> QED BY <4>4, <4>5
              DEF Shares, Denied, Unseen, Person, Kind, Token, LookupGrace, SharedGrace, MemoryGrace, RowGrace
    <3>2. CASE at[r] \notin REQUESTS
      BY <1>4, <3>2 DEF Shares
    <3> QED BY <3>1, <3>2
  <2> QED BY <1>4, <2>2, <2>3, <2>4, <2>5, <2>6, <2>7, <2>8 DEF RequestSeen
<1> QED BY <1>5, <1>6, <1>7, <1>8, <1>9 DEF RegisteredInv

LEMMA TickKeeps ==
    ASSUME SocialLoginInv, Tick
    PROVE  SocialLoginInv'
BY TickTicks, TickRequests, TickTickets, TickLookups, TickIndex, TickRegistered DEF SocialLoginInv

-----------------------------------------------------------------------------
(* What nobody waits for arrives.                                             *)

Arrived(w) ==
    /\ UNCHANGED <<now, job, at, began, got, said, ended, memoryCheck, exists, flight, outlived, memoryUser,
                   sharedUser, index, raced, crowded, orphaned, ticket>>
    /\ late' = late \ {w} /\ Grows
    /\ \/ sharedCheck' = sharedCheck
       \/ /\ w.kind = "check" /\ UNCHANGED rows
          /\ sharedCheck' = [sharedCheck EXCEPT ![w.key] = [yes |-> w.value, until |-> now + CHECK_TTL]]
    /\ \/ fast' = fast
       \/ /\ w.kind = "fast" /\ UNCHANGED rows
          /\ fast' = [fast EXCEPT ![w.key] = [said |-> w.value, until |-> now + FAST_TTL]]

LEMMA ArriveArrived ==
    ASSUME SocialLoginInv, NEW w \in late, Arrive(w)
    PROVE  Arrived(w)
<1>1. now \in Nat /\ TypesStores
  BY DEF SocialLoginInv, Types
<1>2. UNCHANGED rows => Grows
  BY <1>1 DEF rows, Grows, TypesStores
<1>3. w.kind = "ensure" /\ Register(w.key) => Grows
  BY <1>1, LateTypes, RegisterGrows
<1>4. /\ UNCHANGED <<now, job, at, began, got, said, ended, memoryCheck, exists, flight, outlived, memoryUser,
                     sharedUser, index, raced, crowded, orphaned, ticket>>
      /\ late' = late \ {w}
  BY DEF Arrive, requests, lookups, users
<1> QED BY <1>2, <1>3, <1>4 DEF Arrive, Arrived

LEMMA ArriveTypes ==
    ASSUME SocialLoginInv, NEW w \in late, Arrived(w)
    PROVE  Types' /\ Requests'
<1>1. now \in Nat /\ TypesRequests /\ TypesStores /\ Clock /\ \A r \in REQUESTS : Placed(r)
  BY DEF SocialLoginInv, Types, Requests
<1>2. sharedCheck' \in [TOKENS -> CheckType]
  <2>1. w.kind = "check" => w.key \in TOKENS /\ [yes |-> w.value, until |-> now + CHECK_TTL] \in CheckType
    BY <1>1, LateTypes, Graces DEF CheckType
  <2> QED BY <1>1, <2>1 DEF Arrived, TypesStores
<1>3. fast' \in [TOKENS \cup CODES -> FastType]
  <2>1. w.kind = "fast" => w.key \in TOKENS \cup CODES /\ [said |-> w.value, until |-> now + FAST_TTL] \in FastType
    BY <1>1, LateTypes, Graces DEF FastType
  <2> QED BY <1>1, <2>1 DEF Arrived, TypesStores
<1>4. TypesRequests'
  BY <1>1 DEF Arrived, TypesRequests
<1>5. TypesStores'
  BY <1>1, <1>2, <1>3 DEF Arrived, Grows, TypesStores
<1>6. Clock'
  <2>1. \A u \in USERS : unseenAt'[u] <= now
    BY <1>1 DEF Clock, Arrived, Grows
  <2> QED BY <1>1, <2>1 DEF Clock, Arrived, Active
<1>7. \A r \in REQUESTS : Placed(r)'
  BY <1>1 DEF Arrived, Placed, Kind
<1> QED BY <1>1, <1>4, <1>5, <1>6, <1>7 DEF Arrived, Types, Requests

LEMMA ArriveOthers ==
    ASSUME SocialLoginInv, NEW w \in late, Arrived(w)
    PROVE  TicketsInv' /\ LookupsInv' /\ IndexInv'
<1>1. TicketsInv /\ LookupsInv /\ IndexInv
  BY DEF SocialLoginInv
<1>2. TicketsInv'
  BY <1>1 DEF Arrived, TicketsInv, Takes, Kind
<1>3. LookupsInv'
  BY <1>1 DEF Arrived, LookupsInv, Leads, Kind, Token
<1>4. ASSUME NEW r \in REQUESTS PROVE HeldAlone(r)' /\ DroppedFirst(r)'
  <2>1. HeldAlone(r) /\ DroppedFirst(r)
    BY <1>1 DEF IndexInv
  <2>2. HeldAlone(r)'
    <3>1. Person(r)' = Person(r) /\ Owned(Person(r))' = Owned(Person(r)) /\ Listed(Person(r))' = Listed(Person(r))
      BY DEF Arrived, Owned, Person, Kind, Token, Listed
    <3>2. /\ Keys(Listed(Person(r)))' = Keys(Listed(Person(r))) /\ Keys(got[r].keys)' = Keys(got[r].keys)
          /\ raced' = raced /\ \A s : Holds(s)' <=> Holds(s)
      BY <3>1 DEF Arrived, Keys, Holds
    <3> QED BY <2>1, <3>1, <3>2 DEF HeldAlone
  <2>3. DroppedFirst(r)'
    BY <2>1 DEF Arrived, DroppedFirst, Person, Kind, Token, Keys
  <2> QED BY <2>2, <2>3
<1>5. \A t \in TOKENS : sharedUser'[t].until <= now' + USER_TTL /\ Findable(t)'
  BY <1>1 DEF Arrived, IndexInv, Findable, Tracks, Token, Keys, Listed
<1> QED BY <1>2, <1>3, <1>4, <1>5 DEF IndexInv

LEMMA ArriveRegistered ==
    ASSUME SocialLoginInv, NEW w \in late, Arrived(w)
    PROVE  RegisteredInv'
<1>1. /\ now \in Nat /\ TypesRequests /\ TypesStores /\ RegisteredInv /\ Grows /\ now' = now /\ job' = job
      /\ WriteSeen(w) /\ w.since <= now /\ now <= w.since + LATENCY /\ w.since \in Int
  BY LateTypes DEF SocialLoginInv, Types, Arrived, RegisteredInv
<1>2. \A u \in USERS : UserSeen(u)'
  BY <1>1, UserSeenKept DEF Arrived
<1>3. ASSUME NEW t \in TOKENS PROVE TokenSeen(t)'
  <2>1. /\ TokenSeen(t) /\ OWNER[t] \in USERS /\ memoryCheck[t].until \in Int /\ sharedCheck[t].until \in Int
        /\ Reliable(t)' <=> Reliable(t)
    BY <1>1, SocialLoginAssumption DEF RegisteredInv, TypesStores, CheckType, Reliable
  <2> DEFINE unseen(time) == StillUnseen(OWNER[t], time)
  <2>2. ASSUME NEW time \in Int, time <= now, Unseen(OWNER[t], time) PROVE unseen(time)
    BY <1>1, <2>1, <2>2, UnseenKept
  <2>3. /\ memoryCheck' = memoryCheck
        /\ now <= memoryCheck[t].until /\ ~memoryCheck[t].yes /\ Reliable(t) => unseen(memoryCheck[t].until - MemoryGrace)
    BY <1>1, <2>1, <2>2, Graces DEF TokenSeen, Arrived
  <2>4. /\ sharedCheck'[t].until <= now + CHECK_TTL
        /\ now < sharedCheck'[t].until /\ ~sharedCheck'[t].yes /\ Reliable(t) => unseen(sharedCheck'[t].until - SharedGrace)
    <3>1. CASE sharedCheck'[t] = sharedCheck[t]
      BY <1>1, <2>1, <2>2, <3>1, Graces DEF TokenSeen
    <3>2. CASE w.kind = "check" /\ w.key = t /\ sharedCheck'[t] = [yes |-> w.value, until |-> now + CHECK_TTL]
      <4>1. ~w.value /\ Reliable(t) => Unseen(OWNER[t], w.since - RowGrace)
        BY <1>1, <3>2 DEF WriteSeen
      <4>2. /\ now + CHECK_TTL - SharedGrace = now - RowGrace - LATENCY /\ now - RowGrace - LATENCY \in Int
            /\ w.since - RowGrace \in Int /\ now - RowGrace - LATENCY <= w.since - RowGrace
            /\ now - RowGrace - LATENCY <= now
        BY <1>1, Graces
      <4>3. ~w.value /\ Reliable(t) => unseen(now - RowGrace - LATENCY)
        BY <1>1, <2>1, <2>2, <4>1, <4>2, UnseenEarlier
      <4>4. sharedCheck'[t].until = now + CHECK_TTL /\ (sharedCheck'[t].yes <=> w.value)
        BY <3>2
      <4> QED BY <1>1, <4>2, <4>3, <4>4, Graces
    <3>3. \/ sharedCheck'[t] = sharedCheck[t]
          \/ w.kind = "check" /\ w.key = t /\ sharedCheck'[t] = [yes |-> w.value, until |-> now + CHECK_TTL]
      <4>1. CASE sharedCheck' = sharedCheck
        BY <4>1
      <4>2. CASE /\ w.kind = "check"
                 /\ sharedCheck' = [sharedCheck EXCEPT ![w.key] = [yes |-> w.value, until |-> now + CHECK_TTL]]
        BY <1>1, <4>2 DEF TypesStores
      <4> QED BY <4>1, <4>2 DEF Arrived
    <3> QED BY <3>1, <3>2, <3>3
  <2> HIDE DEF unseen
  <2>5. /\ Unseen(OWNER[t], memoryCheck[t].until - MemoryGrace)' <=> unseen(memoryCheck'[t].until - MemoryGrace)
        /\ Unseen(OWNER[t], sharedCheck[t].until - SharedGrace)' <=> unseen(sharedCheck'[t].until - SharedGrace)
    BY DEF Unseen, unseen, StillUnseen, MemoryGrace, SharedGrace, RowGrace
  <2> QED BY <1>1, <2>1, <2>3, <2>4, <2>5 DEF TokenSeen
<1>4. ASSUME NEW c \in CODES PROVE CodeSeen(c)'
  <2>1. CASE fast'[c] = fast[c]
    BY <1>1, <2>1, CodeSeenKept
  <2>2. CASE w.kind = "fast" /\ w.key = c /\ fast'[c] = [said |-> w.value, until |-> now + FAST_TTL] /\ UNCHANGED rows
    <3>1. w.value # "yes" => CodeUnseen(c, w.since - RowGrace)
      BY <1>1, <2>2 DEF WriteSeen
    <3> DEFINE time == now + FAST_TTL - FAST_TTL - RowGrace - LATENCY
    <3>2. time \in Int /\ w.since - RowGrace \in Int /\ time <= w.since - RowGrace /\ time <= now
      BY <1>1, Graces
    <3>3. w.value # "yes" => CodeUnseen(c, time)
      BY <1>1, <3>1, <3>2, UnseenEarlier, JobTypes DEF CodeUnseen
    <3>4. w.value # "yes" => CodeStillUnseen(c, time)
      BY <1>1, <3>2, <3>3, CodeKept
    <3>5. fast'[c].until = now + FAST_TTL /\ fast'[c].said = w.value
      BY <2>2
    <3> QED BY <1>1, <3>4, <3>5, Graces
            DEF CodeSeen, CodeStillUnseen, StillUnseen, CodeUnseen, Unseen, Person, Kind, Token, RowGrace
  <2>3. CASE fast' = fast
    BY <2>1, <2>3
  <2>4. CASE /\ w.kind = "fast" /\ UNCHANGED rows
             /\ fast' = [fast EXCEPT ![w.key] = [said |-> w.value, until |-> now + FAST_TTL]]
    <3>1. c # w.key => fast'[c] = fast[c]
      BY <1>1, <2>4 DEF TypesStores
    <3>2. c = w.key => fast'[c] = [said |-> w.value, until |-> now + FAST_TTL]
      BY <1>1, <2>4 DEF TypesStores
    <3> QED BY <2>1, <2>2, <2>4, <3>1, <3>2
  <2> QED BY <2>3, <2>4 DEF Arrived
<1>5. \A v \in late' : WriteSeen(v)'
  BY <1>1, WriteSeenKept DEF Arrived
<1>6. \A r \in REQUESTS : RequestSeen(r)'
  BY <1>1, RequestSeenKept DEF Arrived
<1>7. ASSUME NEW s \in REQUESTS, at'[s] \in REQUESTS PROVE Shares(s)'
  <2> PICK k \in REQUESTS : k = at[s]
    BY <1>7 DEF Arrived
  <2>1. Shares(s) /\ RequestSeen(k) /\ Person(s) \in USERS /\ said[k].time \in Int /\ at'[s] = k
        /\ at' = at /\ said' = said /\ began' = began
    BY <1>1, JobTypes DEF RegisteredInv, TypesRequests, SaidType, Arrived
  <2>2. Denied(k)' <=> Denied(k)
    BY <1>1, <2>1 DEF Denied, Kind, Token
  <2>3. Denied(k) => began[s] <= said[k].time /\ StillUnseen(Person(s), said[k].time - LookupGrace)
    <3>1. Denied(k) => said[k].time <= now
      BY <2>1 DEF Denied, RequestSeen
    <3>2. said[k].time - LookupGrace \in Int /\ (said[k].time <= now => said[k].time - LookupGrace <= now)
      BY <1>1, <2>1, Graces
    <3> QED BY <1>1, <2>1, <3>1, <3>2, UnseenKept DEF Shares
  <2>4. Kind(k) = "lookup" /\ Token(k) = Token(s) /\ at[k] \notin REQUESTS \cup {"new"}
    BY <1>7, <2>1 DEF Shares
  <2> QED BY <1>1, <2>1, <2>2, <2>3, <2>4
          DEF Shares, Denied, Unseen, StillUnseen, Person, Kind, Token, RowGrace, SharedGrace, MemoryGrace, LookupGrace
<1>8. \A s \in REQUESTS : Shares(s)'
  BY <1>7 DEF Shares
<1> QED BY <1>2, <1>3, <1>4, <1>5, <1>6, <1>8 DEF RegisteredInv

LEMMA ArriveKeeps ==
    ASSUME SocialLoginInv, NEW w \in late, Arrive(w)
    PROVE  SocialLoginInv'
BY ArriveArrived, ArriveTypes, ArriveOthers, ArriveRegistered DEF SocialLoginInv

-----------------------------------------------------------------------------

LEMMA StutterKeeps == SocialLoginInv /\ UNCHANGED vars => SocialLoginInv'
<1> SUFFICES ASSUME SocialLoginInv, UNCHANGED vars PROVE SocialLoginInv'
  OBVIOUS
<1>1. /\ now' = now /\ row' = row /\ unseenAt' = unseenAt /\ job' = job /\ at' = at /\ began' = began
      /\ got' = got /\ said' = said /\ ended' = ended /\ memoryCheck' = memoryCheck
      /\ sharedCheck' = sharedCheck /\ exists' = exists /\ flight' = flight /\ outlived' = outlived
      /\ memoryUser' = memoryUser /\ sharedUser' = sharedUser /\ index' = index /\ raced' = raced
      /\ crowded' = crowded /\ orphaned' = orphaned /\ fast' = fast /\ ticket' = ticket /\ late' = late
  BY DEF vars, rows, requests, checks, lookups, users, kakao
<1>2. Types'
  BY <1>1 DEF SocialLoginInv, Types, TypesRequests, TypesStores
<1>3. Requests'
  BY <1>1 DEF SocialLoginInv, Requests, Clock, Active, Placed, Kind
<1>4. TicketsInv'
  BY <1>1 DEF SocialLoginInv, TicketsInv, Takes, Kind
<1>5. LookupsInv'
  BY <1>1 DEF SocialLoginInv, LookupsInv, Leads, Kind, Token
<1>6. IndexInv'
  <2>1. \A r \in REQUESTS : HeldAlone(r)' <=> HeldAlone(r)
    BY <1>1 DEF HeldAlone, Holds, Owned, Person, Kind, Token, Keys, Listed
  <2>2. \A r \in REQUESTS : DroppedFirst(r)' <=> DroppedFirst(r)
    BY <1>1 DEF DroppedFirst, Person, Kind, Token, Keys
  <2>3. \A t \in TOKENS : Findable(t)' <=> Findable(t)
    BY <1>1 DEF Findable, Tracks, Token, Keys, Listed
  <2> QED BY <1>1, <2>1, <2>2, <2>3 DEF SocialLoginInv, IndexInv
<1>7. RegisteredInv'
  <2>1. \A u \in USERS : UserSeen(u)' <=> UserSeen(u)
    BY <1>1 DEF UserSeen, Unseen
  <2>2. \A t \in TOKENS : TokenSeen(t)' <=> TokenSeen(t)
    BY <1>1 DEF TokenSeen, Reliable, Unseen, MemoryGrace, SharedGrace, RowGrace
  <2>3. \A c \in CODES : CodeSeen(c)' <=> CodeSeen(c)
    BY <1>1 DEF CodeSeen, CodeUnseen, Unseen, Person, Kind, Token, RowGrace
  <2>4. \A w \in late : WriteSeen(w)' <=> WriteSeen(w)
    BY <1>1 DEF WriteSeen, Reliable, CodeUnseen, Unseen, Person, Kind, Token, RowGrace
  <2>5. \A r \in REQUESTS : RequestSeen(r)' <=> RequestSeen(r)
    <3>1. \A r \in REQUESTS : Asked(r)' <=> Asked(r)
      BY <1>1 DEF Asked, Unseen, Person, Kind, Token, RowGrace, MemoryGrace, SharedGrace
    <3>2. \A r \in REQUESTS : Offline(r)' <=> Offline(r)
      BY <1>1 DEF Offline, Unseen, Person, Kind, Token, RowGrace, MemoryGrace, SharedGrace
    <3>3. \A r \in REQUESTS : Guessed(r)' <=> Guessed(r)
      BY <1>1 DEF Guessed, Reliable, Kind, Token
    <3>4. \A r \in REQUESTS : Denied(r)' <=> Denied(r)
      BY <1>1 DEF Denied, Kind, Token
    <3> QED BY <1>1, <3>1, <3>2, <3>3, <3>4
            DEF RequestSeen, Unseen, Person, Kind, Token, RowGrace, MemoryGrace, SharedGrace, LookupGrace
  <2>6. \A r \in REQUESTS : Shares(r)' <=> Shares(r)
    BY <1>1 DEF Shares, Denied, Unseen, Person, Kind, Token, RowGrace, MemoryGrace, SharedGrace, LookupGrace
  <2> QED BY <1>1, <2>1, <2>2, <2>3, <2>4, <2>5, <2>6 DEF SocialLoginInv, RegisteredInv
<1> QED BY <1>2, <1>3, <1>4, <1>5, <1>6, <1>7 DEF SocialLoginInv

LEMMA SocialLoginInductive == SocialLoginInv /\ [Next]_vars => SocialLoginInv'
BY StepKeeps, TickKeeps, ArriveKeeps, StutterKeeps DEF Next

-----------------------------------------------------------------------------

\* The state of the service is well typed in every history, and all that the invariant says
\* of tickets, lookups, indexes and registrations is so.
THEOREM SocialLoginKept == Spec => []SocialLoginInv
<1>1. Init => SocialLoginInv
  BY InitSocialLogin
<1>2. SocialLoginInv /\ [Next]_vars => SocialLoginInv'
  BY SocialLoginInductive
<1> QED BY <1>1, <1>2, PTL DEF Spec

\* Nobody is told "not registered" longer after registering than the answer for the user and
\* then the one for the token may live, and five LATENCY less two ticks (social-auth.service.ts,
\* fastProfileCheck, primeLookupCaches and checkOAuthAccount).
THEOREM RegisteredSeen == Spec => []RegisteredSeenInTime
<1>1. SocialLoginInv => RegisteredSeenInTime
  <2> SUFFICES ASSUME SocialLoginInv, NEW r \in REQUESTS, Denied(r), Person(r) \in row
               PROVE  said[r].time <= unseenAt[Person(r)] + EXISTS_TTL + CHECK_TTL + 5 * LATENCY - 2
    BY DEF RegisteredSeenInTime, Denied
  <2>1. said[r].time - LookupGrace - LATENCY <= unseenAt[Person(r)]
    BY DEF SocialLoginInv, RegisteredInv, RequestSeen, Unseen
  <2>2. said[r].time \in Int /\ unseenAt[Person(r)] \in Int
    BY JobTypes DEF SocialLoginInv, Types, TypesRequests, TypesStores, SaidType
  <2> QED BY <2>1, <2>2, Graces
<1> QED BY <1>1, SocialLoginKept, PTL

\* Two lookups of a token that run beside each other, none of which outlived the window, began
\* further apart than the window: whoever comes sooner joins the lookup that runs
\* (social-auth.service.ts, checkOAuthAccount and getInFlightLookup).
THEOREM LookupsJoined == Spec => []LookupsShared
<1>1. SocialLoginInv => LookupsShared
  <2> SUFFICES ASSUME SocialLoginInv, NEW r \in REQUESTS, NEW s \in REQUESTS, r # s,
                      Kind(r) = "lookup", Kind(s) = "lookup", Token(r) = Token(s), Active(r), Active(s),
                      {at[r], at[s]} \cap REQUESTS = {}, said[r].word = "none", said[s].word = "none",
                      Token(r) \notin outlived
               PROVE  began[r] - began[s] > WINDOW \/ began[s] - began[r] > WINDOW
    BY DEF LookupsShared
  <2>1. ASSUME NEW q \in REQUESTS, Kind(q) = "lookup", Active(q), at[q] \notin REQUESTS, said[q].word = "none"
        PROVE  Leads(q)
    <3>1. Placed(q) /\ at[q] \in PLACES \ {"new", "over"}
      BY <2>1 DEF SocialLoginInv, Types, TypesRequests, Requests, Active
    <3>2. at[q] \notin Caching \cup {"verifying"}
      BY <2>1, <3>1 DEF Placed
    <3>3. at[q] \notin Dropping \cup {"entering", "hydrating", "offline", "missed", "session", "invalidating",
                                     "ticketing", "redeeming", "looking", "erasing"}
      BY <2>1, <3>1 DEF Placed
    <3> QED BY <2>1, <3>1, <3>2, <3>3 DEF Leads, Asking, PLACES
  <2>2. Leads(r) /\ Leads(s)
    BY <2>1
  <2> QED BY <2>2 DEF SocialLoginInv, LookupsInv
<1> QED BY <1>1, SocialLoginKept, PTL

\* A revocation finds every token of its user that Redis still has a user for, except those that
\* are just being listed, those pushed out of the full index, and the users whose index two
\* requests have worked on at once (trackTokenCacheKey, invalidateOAuthCacheByUser).
THEOREM CachedUsersFound == Spec => []CachedUsersIndexed
<1>1. SocialLoginInv => CachedUsersIndexed
  <2> SUFFICES ASSUME SocialLoginInv, NEW t \in TOKENS, now < sharedUser[t].until,
                      OWNER[t] \notin raced, t \notin crowded \cup orphaned,
                      \A r \in REQUESTS : Person(r) = OWNER[t] => at[r] \notin {"tracking", "indexing"}
               PROVE  t \in Keys(Listed(OWNER[t]))
    BY DEF CachedUsersIndexed
  <2>1. \A s \in REQUESTS : ~Tracks(s, t)
    <3>1. \A s \in REQUESTS : at[s] \in {"tracking", "indexing"} => Person(s) = OWNER[Token(s)]
      BY JobTypes DEF SocialLoginInv, Types, Requests, Placed, Caching
    <3> QED BY <3>1 DEF Tracks
  <2> QED BY <2>1 DEF SocialLoginInv, IndexInv, Findable
<1> QED BY <1>1, SocialLoginKept, PTL

\* Of two requests that redeem the same ticket and do not overlap, only one is given the session
\* (oauth.controller.ts, finalizeKakaoTicket).
THEOREM TicketRedeemedOnce == Spec => []TicketGoodOnce
<1>1. SocialLoginInv => TicketGoodOnce
  BY DEF SocialLoginInv, TicketsInv, Takes, TicketGoodOnce
<1> QED BY <1>1, SocialLoginKept, PTL

=============================================================================
