------------------------------ MODULE SocialLogin ------------------------------
(***************************************************************************)
(* Signing in with Apple, Google or Kakao, and asking beforehand whether   *)
(* one is registered: SocialAuthService, OptimizedOAuthService and         *)
(* OAuthController.  "Registered" means a row in profiles.  The answer is  *)
(* kept in the process and in Redis for each token, and once more for each *)
(* user; the user of a token is kept too, with an index of the tokens of   *)
(* each user by which a revocation finds them, and which an edit of the    *)
(* profile (ProfileService) erases.                                        *)
(*                                                                         *)
(* Time passes in ticks, as in Sessions.  The table of refresh tokens is   *)
(* left out: no route reads it.  Sessions says what a session is; here it  *)
(* is the word "in".                                                       *)
(***************************************************************************)
EXTENDS Integers, Sequences, FiniteSets

CONSTANTS
    USERS, TOKENS, CODES, REQUESTS,
    PLANS,          \* what the requests may be: a set of functions [REQUESTS -> Job]
    OWNER,          \* [TOKENS -> USERS], whose a Supabase token is
    EXPIRES,        \* [TOKENS -> Int]
    OPAQUE,         \* the tokens whose issuer is not an address of supabase.co
    COMPLETE,       \* the users whom Supabase knows with a name and a picture
    REGISTERED,     \* the users who have a row from the start
    SUPABASE_FAILS, \* whether Supabase may fail to answer
    CHECK_TTL, EXISTS_TTL, MEMORY_TTL, USER_TTL, INDEX_TTL, FAST_TTL, TICKET_TTL,
    INDEX_LIMIT, WINDOW,
    LATENCY, HORIZON,       \* bounds of the model
    NoOne

\* A lookup or a login sends a token of Supabase, a login or a lookup of Kakao a code,
\* a finalization the ticket it got from a Kakao login, a revocation only who it is.
\* The last four are an edit of the profile, other processes at work on the same user, and
\* no request at all.
KINDS == {"lookup", "login", "kakao", "kakaoLookup", "finalize", "revoke",
          "edit", "ask", "register", "none"}
Job == [kind : KINDS, user : USERS, token : TOKENS, code : CODES, ticket : REQUESTS]

\* Where a request may be, unless it shares a lookup: it is at that lookup then.
Checking == {"checking", "selecting", "filling", "checked"}
Caching == {"caching", "tracking", "indexing"}
Dropping == {"dropping", "unlisting"}
PLACES == {"new", "guessing", "verifying", "entering", "hydrating", "offline", "missed", "session",
           "invalidating", "ticketing", "redeeming", "looking", "erasing", "over"}
          \cup Checking \cup Caching \cup Dropping

\* A code is one user's.  The index lives as long as what it lists, and the answer to a lookup
\* as long as the answer to a login (social-auth.service.ts:43,46,51, optimized-oauth.service.ts:21).
ASSUME SocialLoginAssumption ==
    /\ PLANS \subseteq [REQUESTS -> Job]
    /\ \A plan \in PLANS : \A r, s \in REQUESTS :
          plan[r].kind = "kakao" /\ plan[s].kind = "kakao" /\ plan[r].code = plan[s].code
             => plan[r].user = plan[s].user
    /\ REQUESTS \cap PLACES = {} /\ NoOne \notin REQUESTS /\ TOKENS \cap CODES = {}
    /\ REGISTERED \subseteq USERS /\ OWNER \in [TOKENS -> USERS] /\ EXPIRES \in [TOKENS -> Int]
    /\ {CHECK_TTL, EXISTS_TTL, MEMORY_TTL, USER_TTL, INDEX_TTL, FAST_TTL, TICKET_TTL,
        WINDOW, HORIZON} \subseteq Nat
    /\ USER_TTL <= INDEX_TTL /\ FAST_TTL <= CHECK_TTL
    /\ INDEX_LIMIT \in Nat \ {0} /\ LATENCY \in Nat \ {0}

VARIABLES
    job,            \* what each request is
    now,
    row,            \* profiles: the users who have one
    at, began,      \* where each request is, and since when
    got,            \* what it carries
    said,           \* what it answered, and when
    memoryCheck, sharedCheck,   \* oauthCheckCache, and oauth_check:<token>
    exists,         \* profile_exists:<user>
    flight,         \* lookupPromiseCache: of each token
    memoryUser, sharedUser,     \* localTokenCache, and oauth:token
    index,          \* oauth:user-index: the tokens of each user
    fast,           \* oauth_fast: the answer to a login, under its token or code
    used,           \* the codes Kakao has exchanged
    ticket,         \* kakao:ticket: of each Kakao login
    late,           \* writes and jobs that nobody waits for
    unseenAt,       \* history: when the row of each user was last missing, or asked for in vain
    outlived,       \* history: tokens a lookup of which outlived the window
    raced,          \* history: users whose index two requests worked on at once
    crowded,        \* history: tokens that newer ones pushed out of the index,
    orphaned,       \*   or an edit erased with it, and not listed anew since
    ended           \* history: of each finalization, the requests let in before it began

requests == <<job, at, began, got, said, ended>>
checks == <<memoryCheck, sharedCheck, exists>>
lookups == <<flight, outlived>>
users == <<memoryUser, sharedUser, index, raced, crowded, orphaned>>
kakao == <<fast, used, ticket>>
rows == <<row, unseenAt>>
vars == <<now, rows, requests, checks, lookups, users, kakao, late>>

Kind(r) == job[r].kind
Token(r) == job[r].token
Person(r) == IF Kind(r) \in {"lookup", "login"} THEN OWNER[Token(r)] ELSE job[r].user
Owned(u) == {r \in REQUESTS : Person(r) = u}

Active(r) == at[r] \notin {"new", "over"}

NoCheck == [yes |-> FALSE, until |-> -1]
NoUser == [complete |-> FALSE, until |-> -1]
NoFlight == [by |-> NoOne, until |-> -1]
NoFast == [said |-> "none", until |-> -1]
NoIndex == [keys |-> <<>>, until |-> -1]
Nothing == [yes |-> FALSE, cached |-> "unread", path |-> "none", keys |-> <<>>]

Init ==
    /\ now = 0
    /\ row = REGISTERED
    /\ job \in PLANS
    /\ at = [r \in REQUESTS |-> "new"]
    /\ began = [r \in REQUESTS |-> 0]
    /\ got = [r \in REQUESTS |-> Nothing]
    /\ said = [r \in REQUESTS |-> [word |-> "none", time |-> 0]]
    /\ memoryCheck = [t \in TOKENS |-> NoCheck]
    /\ sharedCheck = [t \in TOKENS |-> NoCheck]
    /\ exists = [u \in USERS |-> NoCheck]
    /\ flight = [t \in TOKENS |-> NoFlight]
    /\ memoryUser = [t \in TOKENS |-> NoUser]
    /\ sharedUser = [t \in TOKENS |-> NoUser]
    /\ index = [u \in USERS |-> NoIndex]
    /\ fast = [c \in TOKENS \cup CODES |-> NoFast]
    /\ used = {}
    /\ ticket = [r \in REQUESTS |-> NoFast]
    /\ late = {}
    /\ unseenAt = [u \in USERS |-> -HORIZON]
    /\ outlived = {}
    /\ raced = {}
    /\ crowded = {}
    /\ orphaned = {}
    /\ ended = [r \in REQUESTS |-> {}]

\* What has expired is as good as gone, and so is what a request carried that is over.
Alive(entries, none) ==
    [k \in DOMAIN entries |-> IF entries[k].until < now + 1 THEN none ELSE entries[k]]
Over(r) == at[r] = "over" /\ \A s \in REQUESTS : at[s] # r

\* No request and no write is older than LATENCY.  Time starts with the first request and
\* ends when there is nothing left to do.
Tick ==
    /\ now < HORIZON
    /\ \E r \in REQUESTS : at[r] # "new"
    /\ late # {} \/ \E r \in REQUESTS : Kind(r) # "none" /\ at[r] # "over"
    /\ \A r \in REQUESTS : Active(r) => now - began[r] < LATENCY
    /\ \A w \in late : now - w.since < LATENCY
    /\ now' = now + 1
    /\ memoryCheck' = Alive(memoryCheck, NoCheck) /\ sharedCheck' = Alive(sharedCheck, NoCheck)
    /\ exists' = Alive(exists, NoCheck) /\ flight' = Alive(flight, NoFlight)
    /\ memoryUser' = Alive(memoryUser, NoUser) /\ sharedUser' = Alive(sharedUser, NoUser)
    /\ index' = Alive(index, NoIndex)
    /\ fast' = Alive(fast, NoFast) /\ ticket' = Alive(ticket, NoFast)
    /\ got' = [r \in REQUESTS |-> IF Over(r) THEN Nothing ELSE got[r]]
    /\ said' = [r \in REQUESTS |-> IF Over(r) /\ said[r].word \in {"yes", "no"}
                                   THEN [word |-> "done", time |-> 0] ELSE said[r]]
    /\ UNCHANGED <<rows, job, at, began, ended, outlived, raced, crowded, orphaned, used, late>>

\* A request begins with its first step; it may go on after it has answered.
Goto(r, place) ==
    /\ UNCHANGED job
    /\ at' = [at EXCEPT ![r] = place]
    /\ began' = [began EXCEPT ![r] = IF place = "over" THEN 0 ELSE IF at[r] = "new" THEN now ELSE @]
    /\ ended' = IF at[r] = "new" /\ Kind(r) = "finalize"
                THEN [ended EXCEPT ![r] = {s \in REQUESTS : said[s].word = "in"}] ELSE ended

\* The time of the answer matters for "no" only.
Say(r, word) == said' = [said EXCEPT ![r] = [word |-> word, time |-> IF word = "no" THEN now ELSE 0]]
Word(yes) == IF yes THEN "yes" ELSE "no"
Later(kind, key, value) == [kind |-> kind, key |-> key, value |-> value, since |-> now]
Go(r, place) == Goto(r, place) /\ UNCHANGED <<now, got, said>>
Register(u) ==
    /\ row' = row \cup {u}
    /\ unseenAt' = IF u \in row THEN unseenAt ELSE [unseenAt EXCEPT ![u] = now]

-----------------------------------------------------------------------------
(* fastProfileCheck: profile_exists in Redis, else the table, which fills it. *)
(* A query that fails counts as no.                                           *)

CheckExists(r) ==
    /\ at[r] = "checking"
    /\ LET known == exists[Person(r)] IN
       IF now < known.until
       THEN Goto(r, "checked") /\ got' = [got EXCEPT ![r].yes = known.yes]
       ELSE Goto(r, "selecting") /\ UNCHANGED got
    /\ UNCHANGED <<now, said, rows, checks, lookups, users, kakao, late>>

SelectRow(r) ==
    /\ at[r] = "selecting"
    /\ \/ Goto(r, "filling") /\ got' = [got EXCEPT ![r].yes = Person(r) \in row]
       \/ Goto(r, "checked") /\ UNCHANGED got
    /\ unseenAt' = IF at'[r] = "checked" THEN [unseenAt EXCEPT ![Person(r)] = now] ELSE unseenAt
    /\ UNCHANGED <<now, said, row, checks, lookups, users, kakao, late>>

\* Mutant: milliseconds are given to a cache that counts in seconds.
ExistsLifeInMs == 1000 * EXISTS_TTL

ExistsLife == EXISTS_TTL

FillExists(r) ==
    /\ at[r] = "filling" /\ Go(r, "checked")
    /\ exists' = [exists EXCEPT ![Person(r)] = [yes |-> got[r].yes, until |-> now + ExistsLife]]
    /\ UNCHANGED <<rows, memoryCheck, sharedCheck, lookups, users, kakao, late>>

-----------------------------------------------------------------------------
(* checkOAuthAccount and performOAuthLookup.                                  *)

\* The mutant of Window: a lookup is not shared at all.
NoWindow == -1

\* getInFlightLookup's time: a lookup is shared this long after it began.
Window == WINDOW

RedisSays(t) == IF now < sharedCheck[t].until THEN Word(sharedCheck[t].yes) ELSE "none"

\* The process's own answer; a lookup in flight; or one more lookup, which on the offline
\* path asks Redis, sooner or later, while it asks for the row.
BeginLookup(r) ==
    /\ Kind(r) = "lookup" /\ at[r] = "new"
    /\ LET t == Token(r) known == memoryCheck[t] IN
       \/ /\ now <= known.until
          /\ Goto(r, "over") /\ Say(r, Word(known.yes)) /\ UNCHANGED <<got, flight>>
       \/ /\ now > known.until /\ now <= flight[t].until
          /\ Goto(r, flight[t].by) /\ UNCHANGED <<got, said, flight>>
       \/ /\ now > known.until /\ now > flight[t].until
          /\ flight' = [flight EXCEPT ![t] = [by |-> r, until |-> now + Window]]
          /\ IF t \notin OPAQUE /\ now < EXPIRES[t]
             THEN /\ Goto(r, "checking")
                  /\ \E cached \in {"unread", RedisSays(t)} :
                        got' = [got EXCEPT ![r].path = "offline", ![r].cached = cached]
             ELSE Goto(r, "guessing") /\ UNCHANGED got
          /\ UNCHANGED said
    /\ UNCHANGED <<now, rows, checks, outlived, users, kakao, late>>

\* Whoever shares a lookup waits for its answer.
Share(r) ==
    /\ at[r] \in REQUESTS /\ said[at[r]].word # "none"
    /\ Goto(r, "over") /\ Say(r, said[at[r]].word)
    /\ UNCHANGED <<now, got, rows, checks, lookups, users, kakao, late>>

\* The lookup answers: its entry goes, or the one of another that has taken its place.
Answer(r, word) ==
    /\ Say(r, word)
    /\ flight' = [flight EXCEPT ![Token(r)] = NoFlight]
    /\ outlived' = IF now - began[r] > WINDOW THEN outlived \cup {Token(r)} ELSE outlived

\* primeLookupCaches: the process's answer at once, Redis's later.
Prime(t, yes) ==
    /\ memoryCheck' = [memoryCheck EXCEPT ![t] = [yes |-> yes, until |-> now + CHECK_TTL]]
    /\ late' = late \cup {Later("check", t, yes)}
    /\ UNCHANGED <<sharedCheck, exists>>

AnswerOffline(r) ==
    /\ at[r] = "checked" /\ Kind(r) = "lookup" /\ got[r].path = "offline"
    /\ LET cached == IF got[r].cached = "unread" THEN RedisSays(Token(r)) ELSE got[r].cached IN
       \/ /\ cached # "none" /\ Answer(r, cached)
          /\ Goto(r, "over") /\ UNCHANGED <<checks, late>>
       \/ /\ cached = "none" /\ Answer(r, Word(got[r].yes))
          /\ Prime(Token(r), got[r].yes) /\ Goto(r, "verifying")
    /\ UNCHANGED <<now, got, rows, users, kakao>>

\* verifySupabaseUser: the user is remembered, registered or not.
VerifyLater(r) ==
    /\ at[r] = "verifying"
    /\ \/ Goto(r, "caching")
       \/ SUPABASE_FAILS /\ Goto(r, "over")
    /\ UNCHANGED <<now, got, said, rows, checks, lookups, users, kakao, late>>

\* getCachedOAuthUser: memory, else Redis, which fills memory.
CachedUser(t) ==
    IF now <= memoryUser[t].until THEN memoryUser[t]
    ELSE IF now < sharedUser[t].until THEN sharedUser[t] ELSE NoUser

FindUser(t) ==
    /\ memoryUser' = IF now > memoryUser[t].until /\ now < sharedUser[t].until
                     THEN [memoryUser EXCEPT ![t] = [sharedUser[t] EXCEPT !.until = now + MEMORY_TTL]]
                     ELSE memoryUser
    /\ UNCHANGED <<sharedUser, index, raced, crowded, orphaned>>

\* The other path: Redis's answer, written anew; the user of the cache; or Supabase's,
\* which knows no token after its end.
Guess(r) ==
    /\ at[r] = "guessing"
    /\ LET t == Token(r) known == sharedCheck[t] IN
       /\ FindUser(t)
       /\ \/ /\ now < known.until
             /\ Answer(r, Word(known.yes)) /\ Prime(t, known.yes) /\ Goto(r, "over")
             /\ UNCHANGED got
          \/ /\ now >= known.until
             /\ \/ CachedUser(t) # NoUser /\ got' = [got EXCEPT ![r].path = "hit"]
                \/ CachedUser(t) = NoUser /\ now < EXPIRES[t] /\ got' = [got EXCEPT ![r].path = "miss"]
             /\ Goto(r, "checking")
             /\ UNCHANGED <<said, lookups, checks, late>>
          \/ /\ now >= known.until /\ CachedUser(t) = NoUser
             /\ SUPABASE_FAILS \/ now >= EXPIRES[t]
             /\ Answer(r, "refused") /\ Goto(r, "over")
             /\ UNCHANGED <<got, checks, late>>
    /\ UNCHANGED <<now, rows, kakao>>

AnswerGuess(r) ==
    /\ at[r] = "checked" /\ Kind(r) = "lookup" /\ got[r].path \in {"hit", "miss"}
    /\ Answer(r, Word(got[r].yes)) /\ Prime(Token(r), got[r].yes)
    /\ Goto(r, IF got[r].path = "hit" THEN "over" ELSE "caching")
    /\ UNCHANGED <<now, got, rows, users, kakao>>

-----------------------------------------------------------------------------
(* setCachedOAuthUser and its index; invalidateOAuthCacheByUser; an edit.     *)

\* Somebody else is about to change the index of r's user.
Overlap(r) ==
    raced' = IF \E s \in Owned(Person(r)) \ {r} :
                   at[s] \in {"tracking", "indexing", "dropping", "unlisting"}
             THEN raced \cup {Person(r)} ELSE raced

\* What the login of a new user remembers has no picture yet.
CacheUser(r) ==
    /\ at[r] = "caching" /\ Go(r, "tracking")
    /\ LET t == Token(r)
           complete == /\ Person(r) \in COMPLETE
                       /\ (Kind(r) = "login" /\ got[r].path = "offline" => got[r].yes) IN
       /\ memoryUser' = [memoryUser EXCEPT ![t] = [complete |-> complete, until |-> now + MEMORY_TTL]]
       /\ sharedUser' = [sharedUser EXCEPT ![t] = [complete |-> complete, until |-> now + USER_TTL]]
    /\ UNCHANGED <<rows, checks, lookups, index, raced, crowded, orphaned, kakao, late>>

\* The index of a user, as Redis has it.
Listed(u) == IF now < index[u].until THEN index[u].keys ELSE <<>>

ReadIndex(r) ==
    /\ at[r] = "tracking" /\ Goto(r, "indexing")
    /\ got' = [got EXCEPT ![r].keys = Listed(Person(r))]
    /\ Overlap(r)
    /\ UNCHANGED <<now, said, rows, checks, lookups, memoryUser, sharedUser, index, crowded, orphaned,
                   kakao, late>>

Keys(keys) == {keys[i] : i \in DOMAIN keys}

\* The newest token first, and no more than the limit.  No token is listed twice: if this one
\* is already listed, those in front of it move back to its place.
Tracked(t, keys) ==
    LET n == Len(keys) + IF t \in Keys(keys) THEN 0 ELSE 1 IN
    [i \in 1 .. (IF n < INDEX_LIMIT THEN n ELSE INDEX_LIMIT) |->
        IF i = 1 THEN t
        ELSE IF \E j \in 1 .. i - 1 : keys[j] = t THEN keys[i] ELSE keys[i - 1]]

\* Mutant: the index lives no longer than the memory of the process.
IndexLifeShort == MEMORY_TTL

IndexLife == INDEX_TTL

WriteIndex(r) ==
    /\ at[r] = "indexing"
    /\ Go(r, IF Kind(r) = "login" /\ said[r].word = "none" THEN "session" ELSE "over")
    /\ LET keys == Tracked(Token(r), got[r].keys) IN
       /\ index' = [index EXCEPT ![Person(r)] = [keys |-> keys, until |-> now + IndexLife]]
       /\ crowded' = (crowded \cup (Keys(got[r].keys) \ Keys(keys))) \ {Token(r)}
       /\ orphaned' = orphaned \ {Token(r)}
    /\ UNCHANGED <<rows, checks, lookups, memoryUser, sharedUser, raced, kakao, late>>

\* A revocation that Apple accepts drops the tokens of its user; so does a login that
\* went all the way.
ReadTokens(r) ==
    /\ \/ Kind(r) = "revoke" /\ at[r] = "new"
       \/ at[r] = "invalidating"
    /\ \/ /\ Goto(r, "dropping") /\ got' = [got EXCEPT ![r].keys = Listed(Person(r))]
          /\ Overlap(r)
       \/ /\ Kind(r) = "revoke" /\ Goto(r, "over")     \* refused, or no answer
          /\ UNCHANGED <<got, raced>>
    /\ UNCHANGED <<now, said, rows, checks, lookups, memoryUser, sharedUser, index, crowded, orphaned,
                   kakao, late>>

\* invalidateUserCaches drops the user's answer too; no one drops those of the tokens.
DropTokens(r) ==
    /\ at[r] = "dropping" /\ Go(r, "unlisting")
    /\ sharedUser' = [t \in TOKENS |-> IF t \in Keys(got[r].keys) THEN NoUser ELSE sharedUser[t]]
    /\ exists' = IF Kind(r) = "login" THEN [exists EXCEPT ![Person(r)] = NoCheck] ELSE exists
    /\ Overlap(r)
    /\ UNCHANGED <<rows, memoryCheck, sharedCheck, lookups, memoryUser, index, crowded, orphaned,
                   kakao, late>>

DropIndex(r) ==
    /\ at[r] = "unlisting" /\ Go(r, "over")
    /\ index' = [index EXCEPT ![Person(r)] = NoIndex]
    /\ Overlap(r)
    /\ UNCHANGED <<rows, checks, lookups, memoryUser, sharedUser, crowded, orphaned, kakao, late>>

\* updateProfile has written the row, and does not wait for the drop of the caches: of this
\* module's, the user's answer goes at once, and the index when invalidateUserCache comes to
\* it, which asks for the key and then deletes it.  The cached users of the tokens stay.  An
\* edit that fails drops nothing.
EditProfile(r) ==
    /\ Kind(r) = "edit" /\ at[r] = "new"
    /\ \/ /\ Person(r) \in row /\ Go(r, "looking")
          /\ exists' = [exists EXCEPT ![Person(r)] = NoCheck]
       \/ Go(r, "over") /\ UNCHANGED exists
    /\ UNCHANGED <<rows, memoryCheck, sharedCheck, lookups, users, kakao, late>>

FindIndex(r) ==
    /\ at[r] = "looking"
    /\ Go(r, IF now < index[Person(r)].until THEN "erasing" ELSE "over")
    /\ UNCHANGED <<rows, checks, lookups, users, kakao, late>>

EraseIndex(r) ==
    /\ at[r] = "erasing" /\ Go(r, "over")
    /\ index' = [index EXCEPT ![Person(r)] = NoIndex]
    /\ orphaned' = orphaned \cup Keys(Listed(Person(r)))
    /\ UNCHANGED <<rows, checks, lookups, memoryUser, sharedUser, raced, crowded, kakao, late>>

-----------------------------------------------------------------------------
(* fastOAuthLogin and loginWithOAuthToken.                                    *)

Key(r) == IF Kind(r) = "login" THEN Token(r) ELSE job[r].code

\* A login that was answered a while ago is answered the same; Kakao's code is its key.
LookFast(r) ==
    /\ Kind(r) \in {"login", "kakao"} /\ at[r] = "new"
    /\ \/ /\ now < fast[Key(r)].until
          /\ IF Kind(r) = "login" THEN Goto(r, "over") /\ Say(r, "in") /\ UNCHANGED got
             ELSE /\ Goto(r, "ticketing") /\ UNCHANGED said
                  /\ got' = [got EXCEPT ![r].yes = fast[Key(r)].said = "yes"]
       \/ now >= fast[Key(r)].until /\ Goto(r, "entering") /\ UNCHANGED <<got, said>>
    /\ UNCHANGED <<now, rows, checks, lookups, users, kakao, late>>

\* The user of the cache, who is asked about again if name or picture is missing.
Enter(r) ==
    /\ Kind(r) = "login" /\ at[r] = "entering"
    /\ FindUser(Token(r))
    /\ LET known == CachedUser(Token(r)) IN
       Goto(r, IF known = NoUser THEN "offline" ELSE IF known.complete THEN "session" ELSE "hydrating")
    /\ UNCHANGED <<now, got, said, rows, checks, lookups, kakao, late>>

\* A hydration that fails is skipped.
Hydrate(r) ==
    /\ at[r] = "hydrating"
    /\ \/ now < EXPIRES[Token(r)] /\ Register(Person(r)) /\ Goto(r, "caching")
       \/ (SUPABASE_FAILS \/ now >= EXPIRES[Token(r)]) /\ Goto(r, "session") /\ UNCHANGED rows
    /\ UNCHANGED <<now, got, said, checks, lookups, users, kakao, late>>

\* Without the cache the token is decoded, and its end not looked at; a query that
\* fails leads to Supabase.
EnterOffline(r) ==
    /\ at[r] = "offline"
    /\ \/ Goto(r, "session")
          /\ got' = [got EXCEPT ![r].path = "offline", ![r].yes = Person(r) \in row]
       \/ SUPABASE_FAILS /\ Goto(r, "missed") /\ UNCHANGED got
    /\ UNCHANGED <<now, said, rows, checks, lookups, users, kakao, late>>

EnterMissed(r) ==
    /\ at[r] = "missed"
    /\ \/ /\ now < EXPIRES[Token(r)] /\ Goto(r, "checking")
          /\ got' = [got EXCEPT ![r].path = "miss"] /\ UNCHANGED said
       \/ Goto(r, "over") /\ Say(r, "refused") /\ UNCHANGED got
    /\ UNCHANGED <<now, rows, checks, lookups, users, kakao, late>>

\* A social login writes the profile whether there is one or not, and fails if it cannot.
EnsureProfile(r) ==
    /\ at[r] = "checked" /\ Kind(r) = "login"
    /\ \/ Register(Person(r)) /\ Goto(r, "caching") /\ UNCHANGED said
       \/ SUPABASE_FAILS /\ Goto(r, "over") /\ Say(r, "refused") /\ UNCHANGED rows
    /\ UNCHANGED <<now, got, checks, lookups, users, kakao, late>>

\* Another process looks the user up, or writes the profile, for another token.
AskElsewhere(r) ==
    /\ Kind(r) = "ask"
    /\ \/ at[r] = "new" /\ Go(r, "checking")
       \/ at[r] = "checked" /\ Go(r, "over")
    /\ UNCHANGED <<rows, checks, lookups, users, kakao, late>>

RegisterElsewhere(r) ==
    /\ Kind(r) = "register" /\ at[r] = "new"
    /\ Register(Person(r)) /\ Go(r, "over")
    /\ UNCHANGED <<checks, lookups, users, kakao, late>>

\* The session is made and answered.  What the offline path has put off follows.
Enlist(r) ==
    /\ at[r] = "session" /\ Say(r, "in")
    /\ Goto(r, CASE got[r].path = "offline" -> "caching" [] got[r].path = "miss" -> "invalidating"
                 [] OTHER -> "over")
    /\ late' = late \cup {Later("fast", Token(r), "in")}
                    \cup (IF got[r].path = "offline" THEN {Later("ensure", Person(r), TRUE)} ELSE {})
    /\ UNCHANGED <<now, got, rows, checks, lookups, users, kakao>>

\* What nobody waits for.
Arrive(w) ==
    /\ late' = late \ {w}
    /\ \/ /\ w.kind = "check"
          /\ sharedCheck' = [sharedCheck EXCEPT ![w.key] = [yes |-> w.value, until |-> now + CHECK_TTL]]
          /\ UNCHANGED <<rows, fast>>
       \/ /\ w.kind = "fast"
          /\ fast' = [fast EXCEPT ![w.key] = [said |-> w.value, until |-> now + FAST_TTL]]
          /\ UNCHANGED <<rows, sharedCheck>>
       \/ /\ w.kind = "ensure" /\ Register(w.key) /\ UNCHANGED <<sharedCheck, fast>>
       \/ w.kind = "ensure" /\ SUPABASE_FAILS /\ UNCHANGED <<rows, sharedCheck, fast>>
    /\ UNCHANGED <<now, requests, memoryCheck, exists, lookups, users, used, ticket>>

-----------------------------------------------------------------------------
(* Kakao: a code is good for one exchange, and a login ends in a ticket.      *)

Exchange(r) ==
    /\ \/ Kind(r) = "kakao" /\ at[r] = "entering"
       \/ Kind(r) = "kakaoLookup" /\ at[r] = "new"
    /\ \/ /\ job[r].code \notin used /\ used' = used \cup {job[r].code}
          /\ IF Kind(r) = "kakao" THEN Goto(r, "checking") /\ UNCHANGED said
             ELSE Goto(r, "over") /\ Say(r, "no")    \* it looks for Kakao's own id
       \/ Goto(r, "over") /\ Say(r, "refused") /\ UNCHANGED used
    /\ UNCHANGED <<now, got, rows, checks, lookups, users, fast, ticket, late>>

UpsertProfile(r) ==
    /\ at[r] = "checked" /\ Kind(r) = "kakao"
    /\ \/ /\ Register(Person(r)) /\ Goto(r, "ticketing") /\ UNCHANGED said
          /\ late' = late \cup {Later("fast", job[r].code, Word(got[r].yes))}
       \/ SUPABASE_FAILS /\ Goto(r, "over") /\ Say(r, "refused") /\ UNCHANGED <<rows, late>>
    /\ UNCHANGED <<now, got, checks, lookups, users, kakao>>

KeepTicket(r) ==
    /\ at[r] = "ticketing"
    /\ Goto(r, "over") /\ Say(r, Word(got[r].yes))
    /\ ticket' = [ticket EXCEPT ![r] = [said |-> Word(got[r].yes), until |-> now + TICKET_TTL]]
    /\ UNCHANGED <<now, got, rows, checks, lookups, users, fast, used, late>>

\* finalizeKakaoTicket waits two seconds for Redis; the ticket goes in any case.
ReadTicket(r) ==
    /\ Kind(r) = "finalize" /\ at[r] = "new" /\ Goto(r, "redeeming")
    /\ \/ got' = [got EXCEPT ![r].yes = now < ticket[job[r].ticket].until] \/ UNCHANGED got
    /\ UNCHANGED <<now, said, rows, checks, lookups, users, kakao, late>>

\* Mutant: only a ticket that could be read is dropped, and only after the answer.
RedeemKept(r) ==
    /\ at[r] = "redeeming"
    /\ Goto(r, "over") /\ Say(r, IF got[r].yes THEN "in" ELSE "refused")
    /\ UNCHANGED <<now, got, rows, checks, lookups, users, kakao, late>>

Redeem(r) ==
    /\ at[r] = "redeeming"
    /\ Goto(r, "over") /\ Say(r, IF got[r].yes THEN "in" ELSE "refused")
    /\ ticket' = [ticket EXCEPT ![job[r].ticket] = NoFast]
    /\ UNCHANGED <<now, got, rows, checks, lookups, users, fast, used, late>>

-----------------------------------------------------------------------------

Step(r) ==
    \/ CheckExists(r) \/ SelectRow(r) \/ FillExists(r)
    \/ BeginLookup(r) \/ Share(r) \/ AnswerOffline(r) \/ VerifyLater(r)
    \/ Guess(r) \/ AnswerGuess(r)
    \/ CacheUser(r) \/ ReadIndex(r) \/ WriteIndex(r)
    \/ ReadTokens(r) \/ DropTokens(r) \/ DropIndex(r)
    \/ EditProfile(r) \/ FindIndex(r) \/ EraseIndex(r)
    \/ LookFast(r) \/ Enter(r) \/ Hydrate(r) \/ EnterOffline(r) \/ EnterMissed(r)
    \/ EnsureProfile(r) \/ AskElsewhere(r) \/ RegisterElsewhere(r) \/ Enlist(r)
    \/ Exchange(r) \/ UpsertProfile(r) \/ KeepTicket(r) \/ ReadTicket(r) \/ Redeem(r)

Next == Tick \/ (\E r \in REQUESTS : Step(r)) \/ (\E w \in late : Arrive(w))

Spec == Init /\ [][Next]_vars

-----------------------------------------------------------------------------

\* "Not registered" outlives a registration, since neither the answers for a token nor
\* (but for a login that went all the way) those for a user are dropped: but no longer
\* than the user's answer and then the token's may live, as long as the token has not
\* ended (social-auth.service.ts, fastProfileCheck, primeLookupCaches).
RegisteredSeenInTime ==
    \A r \in REQUESTS :
        /\ said[r].word = "no"
        /\ \/ Kind(r) = "lookup" /\ Token(r) \notin OPAQUE /\ said[r].time < EXPIRES[Token(r)]
           \/ Kind(r) = "kakao"
        /\ Person(r) \in row
        => said[r].time <= unseenAt[Person(r)] + EXISTS_TTL + CHECK_TTL + 5 * LATENCY - 2

\* As long as no lookup of a token outlived the window, those that run beside each other
\* began further apart than that (checkOAuthAccount, getInFlightLookup).
LookupsShared ==
    \A r, s \in REQUESTS :
        /\ r # s /\ Kind(r) = "lookup" /\ Kind(s) = "lookup" /\ Token(r) = Token(s)
        /\ Active(r) /\ Active(s) /\ {at[r], at[s]} \cap REQUESTS = {}
        /\ said[r].word = "none" /\ said[s].word = "none" /\ Token(r) \notin outlived
        => began[r] - began[s] > WINDOW \/ began[s] - began[r] > WINDOW

\* A token whose user is in Redis is in the index that a revocation drops, once nobody is
\* about to put it there: unless newer ones have pushed it out of the full index, an edit of
\* the profile has erased the index with it, and it has not been listed anew since, or two
\* requests worked on that at once (trackTokenCacheKey, invalidateOAuthCacheByUser).
CachedUsersIndexed ==
    \A t \in TOKENS :
        /\ now < sharedUser[t].until
        /\ OWNER[t] \notin raced /\ t \notin crowded \cup orphaned
        /\ \A r \in REQUESTS : Person(r) = OWNER[t] => at[r] \notin {"tracking", "indexing"}
        => t \in Keys(Listed(OWNER[t]))

\* An edit of the profile drops "all caches of the user in Redis (the OAuth caches included)"
\* (profile.service.ts:429): the user of a token that it took out of the index is cached no
\* more, unless about to be listed anew.
EditDropsCachedUsers ==
    \A t \in orphaned :
        (\A r \in REQUESTS : Person(r) = OWNER[t] =>
            at[r] \notin {"looking", "erasing", "tracking", "indexing"})
        => now >= sharedUser[t].until

\* A ticket is redeemed once, however often it is sent: only requests that overlap may
\* both be given the session (oauth.controller.ts, finalizeKakaoTicket).
TicketGoodOnce ==
    \A r, s \in REQUESTS :
        /\ Kind(r) = "finalize" /\ Kind(s) = "finalize" /\ job[r].ticket = job[s].ticket
        /\ said[r].word = "in" /\ said[s].word = "in"
        => r \notin ended[s]

\* Whom a social login let in has a profile, when nothing is left to do: the comment at
\* the step that writes it calls it mandatory (social-auth.service.ts:805).
SignedInHasProfile ==
    \A r \in REQUESTS :
        /\ Kind(r) = "login" /\ said[r].word = "in"
        /\ late = {} /\ \A s \in REQUESTS : ~Active(s)
        => OWNER[Token(r)] \in row

=============================================================================
