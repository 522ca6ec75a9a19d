------------------------------- MODULE Sessions -------------------------------
(***************************************************************************)
(* Signing in, and what a signed-in request is let through on: AuthService *)
(* (login, signup, refresh, logout), the session lists it keeps in the     *)
(* shared cache, UserService's changes of a user name and of a role, and   *)
(* AuthGuard with its two caches of tokens and TypeOrmJwtBlacklistService. *)
(*                                                                         *)
(* Time passes in ticks.  A request and a write nobody waits for take at   *)
(* most LATENCY ticks; an entry of a cache dies its TTL after it was       *)
(* written, and the shared cache is one that may forget.                   *)
(***************************************************************************)
EXTENDS Integers, FiniteSets

CONSTANTS
    USERS, NAMES,
    REQUESTS,
    KIND,           \* [REQUESTS -> KINDS]
    PERSON,         \* [REQUESTS -> USERS], who calls
    NAME,           \* [REQUESTS -> NAMES], the name typed, claimed or chosen
    TOKEN,          \* [REQUESTS -> TOKENS], the token sent along
    BATCHES,        \* the sets of requests that are made together
    FIRST_NAME,     \* [USERS -> NAMES \cup {NoName}], NoName: no row in profiles
    FIRST_ROLE,     \* [USERS -> {"user", "admin"}]
    OLD_TOKENS,     \* the tokens that were issued before, and
    OLD_TOKEN,      \* [OLD_TOKENS -> Entry], whose they are and until when
    FOREIGN,        \* the one of them that Supabase issued
    ACCESS_TTL, REFRESH_TTL,    \* of the tokens that are issued here
    IDENTIFIER_TTL, SESSION_TTL, CACHE_TTL, ROLE_TTL, BLACKLIST_TTL,
    LATENCY, HORIZON,           \* bounds of the model
    NoName, Nobody

KINDS == {"email", "name", "signup", "refresh", "logout",
          "call", "manage", "logoutJwt", "revokeAll", "rename", "setRole"}
SIGN_INS == {r \in REQUESTS : KIND[r] \in {"email", "name", "signup", "refresh"}}
\* The routes behind AuthGuard.  A plain call ends where the others go on.
Guarded(r) == KIND[r] \in {"call", "manage", "logoutJwt", "revokeAll"}
TOKENS == SIGN_INS \cup OLD_TOKENS

\* Two rows have no name in common: profiles has a unique index.  The tokens that are not
\* Supabase's were issued before, and a role that one of them gives to a user who has it
\* no longer was taken away before the history begins.
ASSUME SessionsAssumption ==
    /\ KIND \in [REQUESTS -> KINDS] /\ PERSON \in [REQUESTS -> USERS]
    /\ NAME \in [REQUESTS -> NAMES] /\ TOKEN \in [REQUESTS -> TOKENS]
    /\ FIRST_NAME \in [USERS -> NAMES \cup {NoName}]
    /\ FIRST_ROLE \in [USERS -> {"user", "admin"}]
    /\ \A u, v \in USERS : FIRST_NAME[u] = FIRST_NAME[v] => u = v \/ FIRST_NAME[u] = NoName
    /\ OLD_TOKEN \in [OLD_TOKENS -> [user : USERS, role : {"user", "admin"}, until : Int]]
    /\ FOREIGN \in OLD_TOKENS /\ OLD_TOKENS \cap REQUESTS = {}
    /\ \A t \in OLD_TOKENS \ {FOREIGN} :
          /\ OLD_TOKEN[t].until <= ACCESS_TTL
          /\ OLD_TOKEN[t].role = "admin" /\ FIRST_ROLE[OLD_TOKEN[t].user] # "admin" =>
                OLD_TOKEN[t].until <= ACCESS_TTL - HORIZON
    /\ Nobody \notin USERS /\ NoName \notin NAMES
    /\ {ACCESS_TTL, REFRESH_TTL, SESSION_TTL, BLACKLIST_TTL, LATENCY, HORIZON} \subseteq Nat
    /\ {IDENTIFIER_TTL, CACHE_TTL, ROLE_TTL} \subseteq Nat \ {0}

VARIABLES
    now,
    row,        \* profiles: [name, role] of each user
    at,         \* where each request is, and
    began,      \* since when
    got,        \* what it carries: the row it read, the session list, the blacklist's answer
    decided,    \* when it was admitted or refused
    memoryName, sharedName,     \* the two caches user name -> email (a user)
    late,       \* writes to the shared cache that nobody waits for
    session,    \* auth_session: of each sign-in, until when
    listed,     \* user_sessions: of each user
    token,      \* the access token of each sign-in
    memoryToken, sharedToken,   \* AuthGuard.tokenCache, and auth:token
    roleCache,
    blackRow,   \* jwt_blacklist: the one row there can be
    blackCache, \* jwt_blacklist_cache:unknown
    disturbed,  \* history: when a name last changed hands or was claimed
    changed,    \* history: when a role last changed
    raced       \* history: sign-ins whose session list another one wrote meanwhile

requests == <<at, began, got, decided>>
names == <<memoryName, sharedName>>
sessions == <<session, listed, token, raced>>
guard == <<memoryToken, sharedToken, roleCache, blackRow, blackCache>>
rows == <<row, disturbed, changed>>
vars == <<now, requests, rows, names, late, sessions, guard>>

Ended == {"issued", "allowed", "forbidden", "wrong", "refused", "done"}
Ends(r, place) == place \in Ended \/ (place = "admitted" /\ KIND[r] = "call")
Active(r) == at[r] \notin {"new", "away"} /\ ~Ends(r, at[r])

NoEntry == [user |-> Nobody, role |-> "none", until |-> -1]
Entry(u, role, until) == [user |-> u, role |-> role, until |-> until]
Nothing == [user |-> Nobody, role |-> "none", name |-> NoName, ids |-> {}]

Init ==
    /\ now = 0
    /\ row = [u \in USERS |-> [name |-> FIRST_NAME[u], role |-> FIRST_ROLE[u]]]
    /\ \E batch \in BATCHES :
          at = [r \in REQUESTS |-> IF r \in batch THEN "new" ELSE "away"]
    /\ began = [r \in REQUESTS |-> 0]
    /\ got = [r \in REQUESTS |-> Nothing]
    /\ decided = [r \in REQUESTS |-> 0]
    /\ memoryName = [n \in NAMES |-> NoEntry]
    /\ sharedName = [n \in NAMES |-> NoEntry]
    /\ late = {}
    /\ session = [r \in SIGN_INS |-> -1]
    /\ listed = [u \in USERS |-> [ids |-> {}, until |-> -1]]
    /\ token = [t \in TOKENS |-> IF t \in OLD_TOKENS THEN OLD_TOKEN[t] ELSE NoEntry]
    /\ memoryToken = [t \in TOKENS |-> NoEntry]
    /\ sharedToken = [t \in TOKENS |-> NoEntry]
    /\ roleCache = [u \in USERS |-> NoEntry]
    /\ blackRow = NoEntry
    /\ blackCache = [found |-> FALSE, until |-> -1]
    /\ disturbed = [n \in NAMES |-> -HORIZON]
    /\ changed = [u \in USERS |-> -HORIZON]
    /\ raced = {}

\* A request begins with its first step.
Goto(r, place) ==
    /\ at' = [at EXCEPT ![r] = place]
    /\ began' = [began EXCEPT ![r] =
                   IF Ends(r, place) THEN 0 ELSE IF at[r] = "new" THEN now ELSE @]
    /\ decided' = IF place \in Ended \cup {"admitted"} THEN [decided EXCEPT ![r] = now] ELSE decided

Move(r, from, to) == at[r] = from /\ Goto(r, to) /\ UNCHANGED now

\* The caller has been given the token that the request carries.
Holds(r) == token[TOKEN[r]] # NoEntry

Keep == UNCHANGED got
Carry(r, u, role) ==
    got' = [got EXCEPT ![r] = [user |-> u, role |-> role, ids |-> {},
               name |-> IF u = Nobody THEN NoName ELSE row[u].name]]

\* No request and no write is older than LATENCY.
Tick ==
    /\ now < HORIZON
    /\ \A r \in REQUESTS : Active(r) => now - began[r] < LATENCY
    /\ \A w \in late : now - w.since < LATENCY
    /\ now' = now + 1
    /\ UNCHANGED <<requests, rows, names, late, sessions, guard>>

-----------------------------------------------------------------------------
(* Login.  An email is a user; a name is looked up in the caches first.      *)

Later(kind, key, u, role) ==
    [kind |-> kind, key |-> key, user |-> u, role |-> role, since |-> now]

\* warmAuthCaches: the name now in hand leads to this user.
Remember(n, u) ==
    /\ memoryName' = [memoryName EXCEPT ![n] = Entry(u, "none", now + IDENTIFIER_TTL)]
    /\ late' = late \cup {Later("name", n, u, "none")}
    /\ UNCHANGED sharedName

\* getIdentifierFromSharedCache: memory, else the shared cache, which fills memory.
LookUpName(r) ==
    /\ KIND[r] = "name" /\ Move(r, "new", "found")
    /\ LET n == NAME[r]
           inMemory == now <= memoryName[n].until
           inShared == now < sharedName[n].until IN
       \/ inMemory /\ Carry(r, memoryName[n].user, "none") /\ UNCHANGED names
       \/ /\ ~inMemory /\ inShared
          /\ Carry(r, sharedName[n].user, "none")
          /\ memoryName' = [memoryName EXCEPT ![n] =
                               Entry(sharedName[n].user, "none", now + IDENTIFIER_TTL)]
          /\ UNCHANGED sharedName
       \/ ~inMemory /\ Carry(r, Nobody, "none") /\ UNCHANGED names
    /\ UNCHANGED <<rows, late, sessions, guard>>

\* login looks up the email typed, or the one the name's cache led to.
EmailOf(r) == IF KIND[r] = "email" THEN PERSON[r] ELSE got[r].user

\* authenticateUserDirect finds the row by email, or by name, and signs in to
\* Supabase with that row's email and the caller's password.
Authenticate(r) ==
    /\ \/ KIND[r] = "email" /\ at[r] = "new"
       \/ KIND[r] = "name" /\ at[r] = "found"
    /\ LET email == EmailOf(r)
           found == IF email # Nobody THEN {u \in {email} : row[u].name # NoName}
                    ELSE {u \in USERS : row[u].name = NAME[r]} IN
       \/ \E u \in found : u = PERSON[r] /\ Carry(r, u, row[u].role) /\ Goto(r, "signed")
       \/ PERSON[r] \notin found /\ Goto(r, "wrong") /\ Keep
       \/ Goto(r, "refused") /\ Keep     \* PostgreSQL or Supabase does not answer
    /\ UNCHANGED <<now, rows, names, late, sessions, guard>>

\* signup: Supabase makes the account; the name is taken from the email, and no
\* row is written to profiles.
SignUp(r) ==
    /\ KIND[r] = "signup" /\ Move(r, "new", "signed")
    /\ Carry(r, PERSON[r], "user")
    /\ UNCHANGED <<rows, names, late, sessions, guard>>

\* refresh: any refresh token that verifies, however often; the user is read again.
Refresh(r) ==
    /\ KIND[r] = "refresh" /\ at[r] = "new" /\ Holds(r)
    /\ LET shown == token[TOKEN[r]] IN
       \/ /\ now < shown.until - ACCESS_TTL + REFRESH_TTL
          /\ Carry(r, shown.user, IF row[shown.user].name = NoName THEN "user" ELSE row[shown.user].role)
          /\ Goto(r, "signed")
       \/ Goto(r, "refused") /\ Keep
    /\ UNCHANGED <<now, rows, names, late, sessions, guard>>

\* createAuthSession stores the session; a login warms the caches at the same time.
StoreSession(r) ==
    /\ Move(r, "signed", "stored") /\ Keep
    /\ session' = [session EXCEPT ![r] = now + SESSION_TTL]
    /\ LET u == got[r].user IN
       IF KIND[r] \in {"email", "name"} THEN Remember(got[r].name, u)
       ELSE UNCHANGED <<names, late>>
    /\ UNCHANGED <<rows, listed, token, raced, guard>>

\* addToUserSessions reads the list and, with this session added, writes it back.
ReadList(r) ==
    /\ Move(r, "stored", "listing")
    /\ got' = [got EXCEPT ![r].ids =
                  IF now < listed[got[r].user].until THEN listed[got[r].user].ids ELSE {}]
    /\ raced' = LET others == {s \in SIGN_INS \ {r} : at[s] = "listing"
                                                      /\ got[s].user = got[r].user} IN
                IF others = {} THEN raced ELSE raced \cup others \cup {r}
    /\ UNCHANGED <<rows, names, late, session, listed, token, guard>>

\* generateTokenPair: what the access token says was read at the sign-in.
Issued(r) == Entry(got[r].user, got[r].role, now + ACCESS_TTL)

\* Mutant: a list that is there keeps its time to live.
WriteListOnOldTtl(r) ==
    /\ Move(r, "listing", "issued") /\ Keep
    /\ listed' = [listed EXCEPT ![got[r].user] =
                     [ids |-> got[r].ids \cup {r},
                      until |-> IF got[r].ids # {} THEN @.until ELSE now + SESSION_TTL]]
    /\ token' = [token EXCEPT ![r] = Issued(r)]
    /\ UNCHANGED <<rows, names, late, session, raced, guard>>

WriteList(r) ==
    /\ Move(r, "listing", "issued") /\ Keep
    /\ listed' = [listed EXCEPT ![got[r].user] =
                     [ids |-> got[r].ids \cup {r}, until |-> now + SESSION_TTL]]
    /\ token' = [token EXCEPT ![r] = Issued(r)]
    /\ IF KIND[r] = "signup"
       THEN /\ Remember(NAME[r], got[r].user)
            /\ disturbed' = [disturbed EXCEPT ![NAME[r]] = now]
       ELSE UNCHANGED <<names, late, disturbed>>
    /\ UNCHANGED <<row, changed, session, raced, guard>>

-----------------------------------------------------------------------------
(* UserService.  A name is checked and then written, under a unique index.   *)

CheckName(r) ==
    /\ KIND[r] = "rename" /\ at[r] = "new"
    /\ \/ (\E u \in USERS \ {PERSON[r]} : row[u].name = NAME[r]) /\ Goto(r, "refused")
       \/ (\A u \in USERS \ {PERSON[r]} : row[u].name # NAME[r]) /\ Goto(r, "nameFree")
    /\ UNCHANGED <<now, got, rows, names, late, sessions, guard>>

Rename(r) ==
    /\ at[r] = "nameFree"
    /\ LET u == PERSON[r] taken == \E v \in USERS \ {u} : row[v].name = NAME[r] IN
       \/ taken /\ Goto(r, "refused") /\ UNCHANGED <<row, disturbed>>
       \/ /\ ~taken /\ Goto(r, "done")
          /\ row' = [row EXCEPT ![u].name = NAME[r]]
          /\ disturbed' = [n \in NAMES |->
                 IF n \in {row[u].name, NAME[r]} THEN now ELSE disturbed[n]]
    /\ UNCHANGED <<now, got, changed, names, late, sessions, guard>>

\* updateUserRole, by an administrator.
SetRole(r) ==
    /\ KIND[r] = "setRole" /\ Move(r, "new", "done")
    /\ row' = [row EXCEPT ![PERSON[r]].role = IF @ = "user" THEN "admin" ELSE "user"]
    /\ changed' = [changed EXCEPT ![PERSON[r]] = now]
    /\ UNCHANGED <<got, disturbed, names, late, sessions, guard>>

-----------------------------------------------------------------------------
(* AuthGuard.canActivate.                                                    *)

\* Mutant: the end of a token is not looked at.
VerifiesForEver(t) == t # FOREIGN /\ token[t] # NoEntry

\* jwt.verify with the server's own secret.
Verifies(t) == t # FOREIGN /\ now < token[t].until

\* The caches take the user of the request: memory at once, the shared one later.
Admit(r, role) ==
    LET t == TOKEN[r] u == token[t].user IN
    /\ Goto(r, "admitted") /\ got' = [got EXCEPT ![r].role = role]
    /\ memoryToken' = [memoryToken EXCEPT ![t] = Entry(u, role, now + CACHE_TTL)]
    /\ late' = late \cup {Later("token", t, u, role)}
    /\ UNCHANGED <<sharedToken, roleCache>>

\* tryEnhancedJwt did not accept: tryLocalJwt asks no blacklist.
AskLocal(r) ==
    \/ Verifies(TOKEN[r]) /\ Admit(r, token[TOKEN[r]].role)
    \/ /\ ~Verifies(TOKEN[r])
       /\ Goto(r, "unverified")
       /\ UNCHANGED <<got, late, memoryToken, sharedToken, roleCache>>

Judge(r, blacklisted) ==
    IF blacklisted THEN AskLocal(r) ELSE Admit(r, token[TOKEN[r]].role)

\* The signature, then the cached answer for the token's id.  No token that is
\* issued here carries an id: they all go by the same "unknown".
Verify(r) ==
    /\ Guarded(r) /\ at[r] = "new" /\ Holds(r)
    /\ \/ ~Verifies(TOKEN[r]) /\ AskLocal(r)
       \/ /\ Verifies(TOKEN[r]) /\ now < blackCache.until
          /\ Judge(r, blackCache.found)
       \/ /\ Verifies(TOKEN[r])
          /\ Goto(r, "unjudged")
          /\ UNCHANGED <<got, late, memoryToken, sharedToken, roleCache>>
    /\ UNCHANGED <<now, rows, names, sessions, blackRow, blackCache>>

\* The repository's isBlacklisted counts the rows of the id that have expired.
Counted == blackRow # NoEntry /\ blackRow.until < now

\* The database's answer is remembered; none at all counts as yes, and is not.
AskBlacklist(r) ==
    /\ at[r] = "unjudged"
    /\ \/ \E yes \in {Counted} :
             /\ Judge(r, yes)
             /\ blackCache' = [found |-> yes, until |-> now + BLACKLIST_TTL]
       \/ AskLocal(r) /\ UNCHANGED blackCache
    /\ UNCHANGED <<now, rows, names, sessions, blackRow>>

\* Mutant: an entry of the guard's memory that has expired is used.
RememberedEver(t) == memoryToken[t] # NoEntry

\* getCachedUser
Remembered(t) == now <= memoryToken[t].until

\* The shared cache, then memory, whatever the token has become since.
AskCaches(r) ==
    /\ at[r] = "unverified"
    /\ LET t == TOKEN[r] shared == sharedToken[t] memory == memoryToken[t] IN
       \/ /\ now < shared.until
          /\ Goto(r, "admitted") /\ got' = [got EXCEPT ![r].role = shared.role]
          /\ memoryToken' = [memoryToken EXCEPT ![t] =
                                Entry(shared.user, shared.role, now + CACHE_TTL)]
       \/ /\ Remembered(t)
          /\ Goto(r, "admitted") /\ got' = [got EXCEPT ![r].role = memory.role]
          /\ UNCHANGED memoryToken
       \/ /\ ~Remembered(t)
          /\ Goto(r, "foreign") /\ UNCHANGED <<got, memoryToken>>
    /\ UNCHANGED <<now, rows, names, late, sessions, sharedToken, roleCache,
                   blackRow, blackCache>>

\* Supabase knows its own tokens.  hydrateUserRole then looks in its cache.
AskSupabase(r) ==
    /\ at[r] = "foreign"
    /\ \/ Goto(r, "refused") /\ UNCHANGED <<got, late, memoryToken, sharedToken, roleCache>>
       \/ /\ TOKEN[r] = FOREIGN /\ now < token[FOREIGN].until
          /\ IF now < roleCache[token[FOREIGN].user].until
             THEN Admit(r, roleCache[token[FOREIGN].user].role)
             ELSE /\ Goto(r, "roleless")
                  /\ UNCHANGED <<got, late, memoryToken, sharedToken, roleCache>>
    /\ UNCHANGED <<now, rows, names, sessions, blackRow, blackCache>>

\* The SELECT of the role, and its answer; one that fails leaves "user".
ReadRole(r) ==
    /\ Move(r, "roleless", "roleRead")
    /\ got' = [got EXCEPT ![r].role = row[token[FOREIGN].user].role]
    /\ UNCHANGED <<rows, names, late, sessions, guard>>

AdmitForeign(r) ==
    /\ at[r] = "roleRead"
    /\ \/ LET u == token[FOREIGN].user IN
          /\ roleCache' = [roleCache EXCEPT ![u] = Entry(u, got[r].role, now + ROLE_TTL)]
          /\ Goto(r, "admitted") /\ UNCHANGED got
          /\ memoryToken' = [memoryToken EXCEPT ![FOREIGN] = Entry(u, got[r].role, now + CACHE_TTL)]
          /\ late' = late \cup {Later("token", FOREIGN, u, got[r].role)}
          /\ UNCHANGED sharedToken
       \/ Admit(r, "user")
    /\ UNCHANGED <<now, rows, names, sessions, blackRow, blackCache>>

\* Mutant: the lifetime given to the shared cache is in milliseconds.
IdentifierLifeInMs == 1000 * IDENTIFIER_TTL

\* rememberIdentifier gives the shared cache the lifetime of memory, in seconds.
IdentifierLife == IDENTIFIER_TTL

\* A write nobody waited for arrives.
LateWrite(w) ==
    /\ late' = late \ {w}
    /\ \/ /\ w.kind = "name"
          /\ sharedName' = [sharedName EXCEPT ![w.key] = Entry(w.user, "none", now + IdentifierLife)]
          /\ UNCHANGED sharedToken
       \/ /\ w.kind = "token"
          /\ sharedToken' = [sharedToken EXCEPT ![w.key] = Entry(w.user, w.role, now + CACHE_TTL)]
          /\ UNCHANGED sharedName
    /\ UNCHANGED <<now, requests, rows, memoryName, sessions, memoryToken, roleCache,
                   blackRow, blackCache>>

\* RolesGuard: the role of the request, or else the one in the row.
CheckRole(r) ==
    /\ KIND[r] = "manage" /\ at[r] = "admitted"
    /\ IF "admin" \in {got[r].role, row[token[TOKEN[r]].user].role}
       THEN Goto(r, "allowed") ELSE Goto(r, "forbidden")
    /\ UNCHANGED <<now, got, rows, names, late, sessions, guard>>

\* addToBlacklist inserts the row of the token's id; where there is one, the unique
\* index refuses.
Insert(r) ==
    IF Verifies(TOKEN[r]) /\ blackRow = NoEntry
    THEN Goto(r, "blacklisted") /\ blackRow' = token[TOKEN[r]]
    ELSE Goto(r, "refused") /\ UNCHANGED blackRow

\* logout asks no guard, and says "revoked" whatever comes of the token.  The session
\* stays.
Logout(r) ==
    /\ KIND[r] = "logout" /\ at[r] = "new" /\ Holds(r)
    /\ Insert(r)
    /\ UNCHANGED <<now, got, rows, names, late, sessions, memoryToken, sharedToken,
                   roleCache, blackCache>>

LogoutJwt(r) ==
    /\ KIND[r] = "logoutJwt" /\ at[r] = "admitted"
    /\ Insert(r)
    /\ UNCHANGED <<now, got, rows, names, late, sessions, memoryToken, sharedToken,
                   roleCache, blackCache>>

CacheBlacklisted(r) ==
    /\ Move(r, "blacklisted", "done")
    /\ blackCache' = [found |-> TRUE, until |-> now + BLACKLIST_TTL]
    /\ UNCHANGED <<got, rows, names, late, sessions, memoryToken, sharedToken, roleCache, blackRow>>

\* blacklistAllUserTokens rewrites the reason of the user's expired rows and forgets
\* their cached answers.
RevokeAll(r) ==
    /\ KIND[r] = "revokeAll" /\ Move(r, "admitted", "done")
    /\ IF Counted /\ blackRow.user = token[TOKEN[r]].user
       THEN blackCache' = [found |-> FALSE, until |-> -1] ELSE UNCHANGED blackCache
    /\ UNCHANGED <<got, rows, names, late, sessions, memoryToken, sharedToken, roleCache, blackRow>>

-----------------------------------------------------------------------------

Step(r) ==
    \/ LookUpName(r) \/ Authenticate(r) \/ SignUp(r) \/ Refresh(r)
    \/ StoreSession(r) \/ ReadList(r) \/ WriteList(r)
    \/ CheckName(r) \/ Rename(r) \/ SetRole(r)
    \/ Verify(r) \/ AskBlacklist(r) \/ AskCaches(r) \/ AskSupabase(r)
    \/ ReadRole(r) \/ AdmitForeign(r) \/ CheckRole(r)
    \/ Logout(r) \/ LogoutJwt(r) \/ CacheBlacklisted(r) \/ RevokeAll(r)

Next == Tick \/ (\E r \in REQUESTS : Step(r)) \/ (\E w \in late : LateWrite(w))

Spec == Init /\ [][Next]_vars

-----------------------------------------------------------------------------

\* A name whose cached owner is out of date refuses its rightful owner, with the
\* right password; the two caches feed each other, but only once: twice their
\* lifetime after the name changed hands, or was claimed by a sign-up, that is over
\* (auth.service.ts, getIdentifierFromSharedCache).
RightfulOwnerRefusedBriefly ==
    \A r \in REQUESTS : at[r] = "wrong" /\ KIND[r] = "name" /\ row[PERSON[r]].name = NAME[r] =>
        decided[r] <= disturbed[NAME[r]] + 2 * IDENTIFIER_TTL + 3 * LATENCY - 1

\* The guard lets a token pass after its end, on what its caches hold, and renews
\* one of them while it does: no longer than twice their lifetime (auth.guard.ts).
GraceIsBounded ==
    \A r \in REQUESTS : at[r] \in {"admitted", "allowed", "forbidden"} =>
        decided[r] <= token[TOKEN[r]].until + 2 * CACHE_TTL + 2 * LATENCY - 2
            + IF at[r] = "admitted" THEN 0 ELSE LATENCY

\* Whoever is let through as an administrator is one, or was one no longer ago than
\* the token, or the cached role, and then the caches of tokens can remember
\* (auth.guard.ts, roles.guard.ts).
RoleIsRecent ==
    \A r \in REQUESTS :
        at[r] = "allowed" /\ row[token[TOKEN[r]].user].role # "admin" =>
            decided[r] <= changed[token[TOKEN[r]].user] + 2 * CACHE_TTL + 3 * LATENCY - 2
                + IF TOKEN[r] = FOREIGN THEN ROLE_TTL ELSE ACCESS_TTL + LATENCY

\* A session whose sign-in no other one of the same user came between is in the list
\* of its user for as long as it lives (auth-session.service.ts, addToUserSessions).
LiveSessionsListed ==
    \A r \in SIGN_INS : at[r] = "issued" /\ r \notin raced /\ now < session[r] =>
        r \in listed[got[r].user].ids /\ now < listed[got[r].user].until

=============================================================================
