---------------------------- MODULE SessionsProofs ----------------------------
(***************************************************************************)
(* Theorems about module Sessions, for any requests, users, names, tokens  *)
(* and times to live: how long a name, a token or a role that is out of    *)
(* date can still be acted on, and which sessions a user's list holds.     *)
(***************************************************************************)
EXTENDS Sessions, TLAPS

Roles == {"none", "user", "admin"}
EntryType == [user : USERS \cup {Nobody}, role : Roles, until : Int]
RowType == [name : NAMES \cup {NoName}, role : {"user", "admin"}]
GotType == [user : USERS \cup {Nobody}, role : Roles, name : NAMES \cup {NoName},
            ids : SUBSET SIGN_INS]
LateName == [kind : {"name"}, key : NAMES, user : USERS \cup {Nobody}, role : Roles, since : Int]
LateToken == [kind : {"token"}, key : TOKENS, user : USERS \cup {Nobody}, role : Roles, since : Int]
ListType == [ids : SUBSET SIGN_INS, until : Int]

\* Where a request is that the guard has let begin.
GuardPlaces == {"unjudged", "unverified", "foreign", "roleless", "roleRead",
                "admitted", "allowed", "forbidden"}
SignPlaces == {"signed", "stored", "listing", "issued"}
Places == GuardPlaces \cup SignPlaces \cup
          {"new", "away", "found", "wrong", "refused", "nameFree", "done", "blacklisted"}

TypesRequests ==
    /\ at \in [REQUESTS -> Places]
    /\ began \in [REQUESTS -> Int] /\ decided \in [REQUESTS -> Int]
    /\ got \in [REQUESTS -> GotType]

TypesNames ==
    /\ row \in [USERS -> RowType]
    /\ disturbed \in [NAMES -> Int] /\ changed \in [USERS -> Int]
    /\ memoryName \in [NAMES -> EntryType] /\ sharedName \in [NAMES -> EntryType]
    /\ late \subseteq LateName \cup LateToken

TypesTokens ==
    /\ session \in [SIGN_INS -> Int] /\ listed \in [USERS -> ListType]
    /\ raced \in SUBSET SIGN_INS
    /\ token \in [TOKENS -> EntryType]
    /\ memoryToken \in [TOKENS -> EntryType] /\ sharedToken \in [TOKENS -> EntryType]
    /\ roleCache \in [USERS -> EntryType]
    /\ blackRow \in EntryType /\ blackCache \in [found : BOOLEAN, until : Int]

Types == now \in Nat /\ TypesRequests /\ TypesNames /\ TypesTokens

-----------------------------------------------------------------------------
(* The clock: nothing under way is older than LATENCY.                       *)

InTime(r) ==
    /\ decided[r] <= now
    /\ Active(r) => began[r] <= now /\ now <= began[r] + LATENCY

Clock ==
    /\ \A r \in REQUESTS : InTime(r)
    /\ \A w \in late : w.since <= now /\ now <= w.since + LATENCY
    /\ \A n \in NAMES : disturbed[n] <= now
    /\ \A u \in USERS : changed[u] <= now

\* Which requests are where, and which tokens there are.
Placed(r) ==
    /\ at[r] = "found" => KIND[r] = "name"
    /\ at[r] \in SignPlaces => r \in SIGN_INS /\ got[r].user \in USERS
    /\ at[r] \in GuardPlaces => Guarded(r) /\ token[TOKEN[r]] # NoEntry
    /\ at[r] \in {"roleless", "roleRead"} => TOKEN[r] = FOREIGN
    /\ at[r] = "unjudged" => TOKEN[r] # FOREIGN
    /\ r \in SIGN_INS /\ at[r] # "issued" => token[r] = NoEntry

Issuance ==
    /\ \A r \in REQUESTS : Placed(r)
    /\ \A t \in TOKENS : token[t] = NoEntry \/ token[t].user \in USERS
    /\ \A t \in OLD_TOKENS : token[t] = OLD_TOKEN[t]

-----------------------------------------------------------------------------
(* Names.  What a cache says of a name was so, or the name has been disturbed *)
(* since.                                                                     *)

NameSince(n, u, time) == row[u].name = n \/ time <= disturbed[n]

\* How long after a disturbance the memory may still be wrong.
NameGrace == 2 * IDENTIFIER_TTL + 2 * LATENCY - 1

NameKnown(entry, n, grace) ==
    entry # NoEntry =>
        /\ entry.user \in USERS /\ entry.until <= now + IDENTIFIER_TTL
        /\ NameSince(n, entry.user, entry.until - grace)

Looked(r) ==
    /\ at[r] = "signed" /\ KIND[r] \in {"email", "name"} =>
          got[r].name \in NAMES /\ NameSince(got[r].name, got[r].user, began[r])
    /\ at[r] = "found" /\ got[r].user # Nobody => NameSince(NAME[r], got[r].user, began[r] - NameGrace)
    /\ at[r] = "wrong" /\ KIND[r] = "name" =>
          \/ row[PERSON[r]].name # NAME[r]
          \/ decided[r] <= disturbed[NAME[r]] + NameGrace + LATENCY

NamesInv ==
    /\ \A u, v \in USERS : row[u].name = row[v].name => u = v \/ row[u].name = NoName
    /\ \A n \in NAMES : NameKnown(memoryName[n], n, NameGrace)
    /\ \A n \in NAMES : NameKnown(sharedName[n], n, IDENTIFIER_TTL + 2 * LATENCY)
    /\ \A w \in late : w.kind = "name" => w.user \in USERS /\ NameSince(w.key, w.user, w.since - LATENCY)
    /\ \A r \in REQUESTS : Looked(r)

-----------------------------------------------------------------------------
(* Tokens.  What the guard's caches hold was let in before the token's end.  *)

\* What a cache says of a token, and how long after the token's end.
TokenKnown(t, role, until, grace) ==
    /\ token[t] # NoEntry
    /\ until <= token[t].until + grace
    /\ t # FOREIGN => role = token[t].role

TokenGrace == 2 * CACHE_TTL + 2 * LATENCY - 2

Let(r) ==
    /\ at[r] \in {"unjudged", "roleless", "roleRead"} => began[r] < token[TOKEN[r]].until
    /\ at[r] = "admitted" =>
          /\ decided[r] <= token[TOKEN[r]].until + TokenGrace
          /\ KIND[r] # "call" => began[r] <= token[TOKEN[r]].until + TokenGrace
          /\ TOKEN[r] # FOREIGN => got[r].role = token[TOKEN[r]].role
    /\ at[r] \in {"allowed", "forbidden"} => decided[r] <= token[TOKEN[r]].until + TokenGrace + LATENCY

TokensInv ==
    /\ \A t \in TOKENS : memoryToken[t] # NoEntry =>
          /\ memoryToken[t].until <= now + CACHE_TTL
          /\ TokenKnown(t, memoryToken[t].role, memoryToken[t].until, TokenGrace)
    /\ \A t \in TOKENS : sharedToken[t] # NoEntry =>
          /\ sharedToken[t].until <= now + CACHE_TTL
          /\ TokenKnown(t, sharedToken[t].role, sharedToken[t].until, CACHE_TTL + 2 * LATENCY - 1)
    /\ \A w \in late : w.kind = "token" => TokenKnown(w.key, w.role, w.since, LATENCY - 1)
    /\ \A r \in REQUESTS : Let(r)

-----------------------------------------------------------------------------
(* Roles.  Whoever is said to be an administrator is one, or was one until   *)
(* the role was last changed.                                                *)

RoleSince(u, role, time) == role = "admin" => row[u].role = "admin" \/ time <= changed[u]

ForeignUser == OLD_TOKEN[FOREIGN].user

\* How long after a change the guard may still admit on the role a token had.
RoleGrace(t) ==
    2 * CACHE_TTL - 2 + IF t = FOREIGN THEN ROLE_TTL + 2 * LATENCY ELSE ACCESS_TTL + 3 * LATENCY

Ranked(r) ==
    /\ at[r] \in {"signed", "stored", "listing"} => RoleSince(got[r].user, got[r].role, began[r])
    /\ at[r] = "roleRead" => RoleSince(ForeignUser, got[r].role, began[r])
    /\ at[r] = "admitted" /\ KIND[r] = "manage" =>
          RoleSince(token[TOKEN[r]].user, got[r].role, began[r] - RoleGrace(TOKEN[r]))
    /\ at[r] = "allowed" =>
          RoleSince(token[TOKEN[r]].user, "admin", decided[r] - RoleGrace(TOKEN[r]) - LATENCY)

RolesInv ==
    /\ \A t \in TOKENS \ {FOREIGN} :
          /\ token[t].until <= now + ACCESS_TTL
          /\ token[t] # NoEntry =>
                RoleSince(token[t].user, token[t].role, token[t].until - ACCESS_TTL - LATENCY)
    /\ \A u \in USERS :
          /\ roleCache[u].until <= now + ROLE_TTL
          /\ RoleSince(u, roleCache[u].role, roleCache[u].until - ROLE_TTL - LATENCY)
    /\ RoleSince(ForeignUser, memoryToken[FOREIGN].role,
                 memoryToken[FOREIGN].until - RoleGrace(FOREIGN))
    /\ RoleSince(ForeignUser, sharedToken[FOREIGN].role,
                 sharedToken[FOREIGN].until - ROLE_TTL - CACHE_TTL - 2 * LATENCY + 1)
    /\ \A w \in late : w.kind = "token" /\ w.key = FOREIGN =>
          RoleSince(ForeignUser, w.role, w.since - ROLE_TTL - LATENCY + 1)
    /\ \A r \in REQUESTS : Ranked(r)

-----------------------------------------------------------------------------
(* Sessions and their lists.                                                 *)

\* A list that is being written holds every session that nothing came between,
ListKnown(r) ==
    at[r] = "issued" /\ r \notin raced =>
        /\ session[r] <= listed[got[r].user].until
        /\ now < session[r] => r \in listed[got[r].user].ids

\* and so does one that has been read.
ListCarried(s, r) ==
    at[s] = "listing" /\ at[r] = "issued" /\ r \notin raced
        /\ got[s].user = got[r].user /\ now < session[r] => r \in got[s].ids

ListsRaced(s, r) ==
    s # r /\ at[s] = "listing" /\ at[r] = "listing" /\ got[s].user = got[r].user => {s, r} \subseteq raced

ListsInv ==
    /\ \A r \in SIGN_INS : session[r] <= now + SESSION_TTL /\ ListKnown(r)
    /\ \A s, r \in SIGN_INS : ListCarried(s, r) /\ ListsRaced(s, r)

SessionsInv == Types /\ Clock /\ Issuance /\ NamesInv /\ TokensInv /\ RolesInv /\ ListsInv

-----------------------------------------------------------------------------

LEMMA InitSessions == Init => SessionsInv
<1> SUFFICES ASSUME Init PROVE SessionsInv
  OBVIOUS
<1> USE SessionsAssumption
<1>1. /\ NoEntry \in EntryType /\ Nothing \in GotType
      /\ \A u \in USERS : row[u] = [name |-> FIRST_NAME[u], role |-> FIRST_ROLE[u]] /\ row[u] \in RowType
      /\ \A r \in REQUESTS : at[r] \in {"new", "away"}
  BY DEF Init, NoEntry, Nothing, EntryType, GotType, RowType, Roles
<1>2. \A t \in TOKENS : token[t] = (IF t \in OLD_TOKENS THEN OLD_TOKEN[t] ELSE NoEntry)
  BY DEF Init
<1>3. \A t \in OLD_TOKENS : OLD_TOKEN[t] \in EntryType
  BY DEF EntryType, Roles
<1>4. Types
  <2>1. TypesRequests
    BY <1>1 DEF Init, TypesRequests, Places
  <2>2. TypesNames
    BY <1>1 DEF Init, TypesNames
  <2>3. [ids |-> {}, until |-> -1] \in ListType
    BY DEF ListType
  <2>4. token \in [TOKENS -> EntryType]
    BY <1>1, <1>3 DEF Init
  <2>5. TypesTokens
    BY <1>1, <2>3, <2>4 DEF Init, TypesTokens
  <2> QED BY <2>1, <2>2, <2>5 DEF Init, Types
<1>5. Clock
  BY <1>1 DEF Init, Clock, InTime, Active
<1>6. Issuance
  <2>1. ASSUME NEW r \in REQUESTS PROVE Placed(r)
    <3>1. r \in SIGN_INS => r \in TOKENS /\ r \notin OLD_TOKENS
      BY DEF TOKENS, SIGN_INS
    <3> QED BY <1>1, <1>2, <3>1 DEF Placed, SignPlaces, GuardPlaces
  <2> QED BY <1>2, <2>1 DEF Issuance, TOKENS
<1>7. NamesInv
  <2>1. \A r \in REQUESTS : Looked(r)
    BY <1>1 DEF Looked
  <2> QED BY <1>1, <2>1 DEF Init, NamesInv, NameKnown
<1>8. TokensInv
  <2>1. \A r \in REQUESTS : Let(r)
    BY <1>1 DEF Let
  <2> QED BY <2>1 DEF Init, TokensInv
<1>9. RolesInv
  <2>1. \A r \in REQUESTS : Ranked(r)
    BY <1>1 DEF Ranked
  <2>2. ASSUME NEW t \in TOKENS \ {FOREIGN}
        PROVE  /\ token[t].until <= now + ACCESS_TTL
               /\ token[t] # NoEntry =>
                     RoleSince(token[t].user, token[t].role, token[t].until - ACCESS_TTL - LATENCY)
    <3>1. CASE t \in OLD_TOKENS
      BY <1>1, <1>2, <3>1 DEF Init, RoleSince
    <3>2. CASE t \notin OLD_TOKENS
      BY <1>2, <3>2 DEF Init, NoEntry
    <3> QED BY <3>1, <3>2
  <2>3. NoEntry.role = "none" /\ NoEntry.until = -1 /\ FOREIGN \in TOKENS
    BY DEF NoEntry, TOKENS
  <2> QED BY <2>1, <2>2, <2>3 DEF Init, RolesInv, RoleSince
<1>10. ListsInv
  <2>1. \A r \in SIGN_INS : r \in REQUESTS
    BY DEF SIGN_INS
  <2> QED BY <1>1, <2>1 DEF Init, ListsInv, ListKnown, ListCarried, ListsRaced
<1> QED BY <1>4, <1>5, <1>6, <1>7, <1>8, <1>9, <1>10 DEF SessionsInv

-----------------------------------------------------------------------------

\* What Goto does, of every request.
Went(r, place) ==
    /\ at' \in [REQUESTS -> Places] /\ began' \in [REQUESTS -> Int] /\ decided' \in [REQUESTS -> Int]
    /\ \A s \in REQUESTS \ {r} : at'[s] = at[s] /\ began'[s] = began[s] /\ decided'[s] = decided[s]
    /\ at'[r] = place
    /\ Ends(r, place) => began'[r] = 0
    /\ ~Ends(r, place) => began'[r] = IF at[r] = "new" THEN now ELSE began[r]
    /\ decided'[r] = IF place \in Ended \cup {"admitted"} THEN now ELSE decided[r]

LEMMA GotoWent ==
    ASSUME now \in Nat, TypesRequests, NEW r \in REQUESTS, NEW place \in Places, Goto(r, place)
    PROVE  Went(r, place)
<1>1. at' \in [REQUESTS -> Places] /\ at'[r] = place /\ \A s \in REQUESTS \ {r} : at'[s] = at[s]
  BY DEF TypesRequests, Goto
<1>2. /\ began' \in [REQUESTS -> Int] /\ \A s \in REQUESTS \ {r} : began'[s] = began[s]
      /\ Ends(r, place) => began'[r] = 0
      /\ ~Ends(r, place) => began'[r] = IF at[r] = "new" THEN now ELSE began[r]
  <2>1. CASE Ends(r, place)
    <3>1. began' = [began EXCEPT ![r] = 0]
      BY <2>1 DEF Goto
    <3> QED BY <2>1, <3>1 DEF TypesRequests
  <2>2. CASE ~Ends(r, place) /\ at[r] = "new"
    <3>1. began' = [began EXCEPT ![r] = now]
      BY <2>2 DEF Goto
    <3> QED BY <2>2, <3>1 DEF TypesRequests
  <2>3. CASE ~Ends(r, place) /\ at[r] # "new"
    <3>1. began' = [began EXCEPT ![r] = began[r]]
      BY <2>3 DEF Goto
    <3> QED BY <2>3, <3>1 DEF TypesRequests
  <2> QED BY <2>1, <2>2, <2>3
<1>3. /\ decided' \in [REQUESTS -> Int] /\ \A s \in REQUESTS \ {r} : decided'[s] = decided[s]
      /\ decided'[r] = IF place \in Ended \cup {"admitted"} THEN now ELSE decided[r]
  BY DEF TypesRequests, Goto
<1> QED BY <1>1, <1>2, <1>3 DEF Went

\* Where the steps lead.
Leads(r, place) ==
    /\ place = "found" => LookUpName(r)
    /\ place = "signed" => Authenticate(r) \/ SignUp(r) \/ Refresh(r)
    /\ place = "wrong" => Authenticate(r)
    /\ place = "stored" => StoreSession(r)
    /\ place = "listing" => ReadList(r)
    /\ place = "issued" => WriteList(r)
    /\ place = "unjudged" => Verify(r)
    /\ place = "unverified" => Verify(r) \/ AskBlacklist(r)
    /\ place = "foreign" => AskCaches(r)
    /\ place = "roleless" => AskSupabase(r)
    /\ place = "roleRead" => ReadRole(r)
    /\ place = "admitted" => Verify(r) \/ AskBlacklist(r) \/ AskCaches(r) \/ AskSupabase(r) \/ AdmitForeign(r)
    /\ place \in {"allowed", "forbidden"} => CheckRole(r)
    /\ place \notin {"new", "away"}

LEMMA StepLeads ==
    ASSUME NEW r \in REQUESTS, Step(r)
    PROVE  /\ now' = now /\ ~Ends(r, at[r]) /\ at[r] # "away"
           /\ \E place \in Places : Goto(r, place) /\ Leads(r, place)
<1> USE SessionsAssumption DEF Leads, Places, GuardPlaces, SignPlaces, Ends, Ended
<1>1. CASE LookUpName(r)
  BY <1>1 DEF LookUpName, Move
<1>2. CASE Authenticate(r)
  BY <1>2 DEF Authenticate
<1>3. CASE SignUp(r)
  BY <1>3 DEF SignUp, Move
<1>4. CASE Refresh(r)
  BY <1>4 DEF Refresh
<1>5. CASE StoreSession(r)
  BY <1>5 DEF StoreSession, Move
<1>6. CASE ReadList(r)
  BY <1>6 DEF ReadList, Move
<1>7. CASE WriteList(r)
  BY <1>7 DEF WriteList, Move
<1>8. CASE CheckName(r)
  BY <1>8 DEF CheckName
<1>9. CASE Rename(r)
  BY <1>9 DEF Rename
<1>10. CASE SetRole(r)
  BY <1>10 DEF SetRole, Move
<1>11. CASE Verify(r)
  <2>1. at[r] = "new" /\ now' = now
    BY <1>11 DEF Verify
  <2>2. \E place \in {"unjudged", "unverified", "admitted"} : Goto(r, place)
    BY <1>11 DEF Verify, Judge, AskLocal, Admit
  <2> QED BY <1>11, <2>1, <2>2
<1>12. CASE AskBlacklist(r)
  BY <1>12 DEF AskBlacklist, Judge, AskLocal, Admit
<1>13. CASE AskCaches(r)
  BY <1>13 DEF AskCaches
<1>14. CASE AskSupabase(r)
  BY <1>14 DEF AskSupabase, Admit
<1>15. CASE ReadRole(r)
  BY <1>15 DEF ReadRole, Move
<1>16. CASE AdmitForeign(r)
  BY <1>16 DEF AdmitForeign, Admit
<1>17. CASE CheckRole(r)
  BY <1>17 DEF CheckRole
<1>18. CASE Logout(r)
  BY <1>18 DEF Logout, Insert
<1>19. CASE LogoutJwt(r)
  BY <1>19 DEF LogoutJwt, Insert
<1>20. CASE CacheBlacklisted(r)
  BY <1>20 DEF CacheBlacklisted, Move
<1>21. CASE RevokeAll(r)
  BY <1>21 DEF RevokeAll, Move
<1> QED
  BY <1>1, <1>2, <1>3, <1>4, <1>5, <1>6, <1>7, <1>8, <1>9, <1>10, <1>11, <1>12, <1>13, <1>14, <1>15, <1>16, <1>17, <1>18, <1>19, <1>20, <1>21 DEF Step

\* What a request carries is its own affair.
Carries(r) ==
    /\ got' \in [REQUESTS -> GotType]
    /\ \A s \in REQUESTS \ {r} : got'[s] = got[s]

LEMMA TokenTypes ==
    ASSUME Types, Issuance, NEW r \in REQUESTS, token[TOKEN[r]] # NoEntry
    PROVE  /\ TOKEN[r] \in TOKENS /\ token[TOKEN[r]].user \in USERS
           /\ token[TOKEN[r]] \in EntryType
<1>1. TOKEN[r] \in TOKENS
  BY SessionsAssumption
<1> QED BY <1>1 DEF Types, TypesTokens, Issuance

LEMMA StepCarries ==
    ASSUME Types, Issuance, NEW r \in REQUESTS, Step(r)
    PROVE  Carries(r)
<1> USE SessionsAssumption
<1>1. ASSUME UNCHANGED got PROVE Carries(r)
  BY <1>1 DEF Types, TypesRequests, Carries
<1>2. ASSUME NEW u \in USERS \cup {Nobody}, NEW role \in Roles, Carry(r, u, role) PROVE Carries(r)
  <2>1. [user |-> u, role |-> role, ids |-> {}, name |-> IF u = Nobody THEN NoName ELSE row[u].name] \in GotType
    BY DEF Types, TypesNames, RowType, GotType
  <2> QED BY <1>2, <2>1 DEF Types, TypesRequests, Carry, Carries
<1>3. ASSUME NEW role \in Roles, got' = [got EXCEPT ![r].role = role] PROVE Carries(r)
  <2>1. got \in [REQUESTS -> GotType]
    BY DEF Types, TypesRequests
  <2> DEFINE carried == [got[r] EXCEPT !.role = role]
  <2>2. carried \in GotType
    <3>1. /\ got[r] \in GotType
          /\ carried = [user |-> got[r].user, role |-> role, name |-> got[r].name, ids |-> got[r].ids]
      BY <2>1 DEF GotType
    <3> HIDE DEF carried
    <3> QED BY <3>1 DEF GotType
  <2>3. got' = [got EXCEPT ![r] = carried]
    BY <1>3
  <2> HIDE DEF carried
  <2> QED BY <2>1, <2>2, <2>3 DEF Carries
<1>4. ASSUME NEW ids \in SUBSET SIGN_INS, got' = [got EXCEPT ![r].ids = ids] PROVE Carries(r)
  <2>1. got \in [REQUESTS -> GotType]
    BY DEF Types, TypesRequests
  <2> DEFINE carried == [got[r] EXCEPT !.ids = ids]
  <2>2. carried \in GotType
    BY <2>1 DEF GotType
  <2>3. got' = [got EXCEPT ![r] = carried]
    BY <1>4
  <2> HIDE DEF carried
  <2> QED BY <2>1, <2>2, <2>3 DEF Carries
<1>5. CASE LookUpName(r)
  <2>1. NAME[r] \in NAMES
    OBVIOUS
  <2>2. memoryName[NAME[r]].user \in USERS \cup {Nobody} /\ sharedName[NAME[r]].user \in USERS \cup {Nobody}
    BY <2>1 DEF Types, TypesNames, EntryType
  <2> QED BY <1>2, <1>5, <2>2 DEF LookUpName, Roles
<1>6. CASE Authenticate(r)
  <2>1. \A u \in USERS : row[u].role \in Roles
    BY DEF Types, TypesNames, RowType, Roles
  <2> QED BY <1>1, <1>2, <1>6, <2>1 DEF Authenticate, Keep
<1>7. CASE SignUp(r)
  BY <1>2, <1>7 DEF SignUp, Roles
<1>8. CASE Refresh(r)
  <2>1. token[TOKEN[r]].user \in USERS
    BY <1>8, TokenTypes DEF Refresh, Holds
  <2>2. \A u \in USERS : row[u].role \in Roles
    BY DEF Types, TypesNames, RowType, Roles
  <2> QED BY <1>1, <1>2, <1>8, <2>1, <2>2 DEF Refresh, Keep, Roles
<1>9. CASE ReadList(r)
  <2>1. at[r] \in SignPlaces
    BY <1>9 DEF ReadList, Move, SignPlaces
  <2>2. listed[got[r].user].ids \in SUBSET SIGN_INS
    BY <2>1 DEF Issuance, Placed, Types, TypesTokens, ListType
  <2> QED BY <1>4, <1>9, <2>2 DEF ReadList
<1>10. \A role : Admit(r, role) => got' = [got EXCEPT ![r].role = role]
  BY DEF Admit
<1>11. CASE Verify(r)
  <2>1. token[TOKEN[r]].role \in Roles
    BY <1>11, TokenTypes DEF Verify, Holds, EntryType
  <2> QED BY <1>1, <1>3, <1>10, <1>11, <2>1 DEF Verify, Judge, AskLocal
<1>12. CASE AskBlacklist(r)
  <2>1. at[r] \in GuardPlaces
    BY <1>12 DEF AskBlacklist, GuardPlaces
  <2>2. token[TOKEN[r]].role \in Roles
    BY <2>1, TokenTypes DEF Issuance, Placed, EntryType
  <2> QED BY <1>1, <1>3, <1>10, <1>12, <2>2 DEF AskBlacklist, Judge, AskLocal
<1>13. CASE AskCaches(r)
  <2>1. TOKEN[r] \in TOKENS
    OBVIOUS
  <2>2. sharedToken[TOKEN[r]].role \in Roles /\ memoryToken[TOKEN[r]].role \in Roles
    BY <2>1 DEF Types, TypesTokens, EntryType
  <2> QED BY <1>1, <1>3, <1>13, <2>2 DEF AskCaches
<1>14. token[FOREIGN].user \in USERS
  BY DEF Issuance
<1>15. CASE AskSupabase(r)
  <2>1. roleCache[token[FOREIGN].user].role \in Roles
    BY <1>14 DEF Types, TypesTokens, EntryType
  <2> QED BY <1>1, <1>3, <1>10, <1>15, <2>1 DEF AskSupabase
<1>16. CASE ReadRole(r)
  <2>1. row[token[FOREIGN].user].role \in Roles
    BY <1>14 DEF Types, TypesNames, RowType, Roles
  <2> QED BY <1>3, <1>16, <2>1 DEF ReadRole
<1>17. CASE AdmitForeign(r)
  BY <1>1, <1>3, <1>10, <1>17 DEF AdmitForeign, Roles
<1>18. CASE \/ StoreSession(r) \/ WriteList(r) \/ CheckName(r) \/ Rename(r) \/ SetRole(r)
            \/ CheckRole(r) \/ Logout(r) \/ LogoutJwt(r) \/ CacheBlacklisted(r) \/ RevokeAll(r)
  BY <1>1, <1>18 DEF StoreSession, WriteList, CheckName, Rename, SetRole, CheckRole, Logout, LogoutJwt,
                     CacheBlacklisted, RevokeAll, Keep
<1> QED
  BY <1>5, <1>6, <1>7, <1>8, <1>9, <1>11, <1>12, <1>13, <1>15, <1>16, <1>17, <1>18 DEF Step

-----------------------------------------------------------------------------
(* What the guard writes when it admits.                                     *)

AdmitsAs(r, role) ==
    /\ role \in Roles /\ at'[r] = "admitted" /\ got'[r].role = role
    /\ token[TOKEN[r]] # NoEntry
    /\ memoryToken' = [memoryToken EXCEPT ![TOKEN[r]] =
                          Entry(token[TOKEN[r]].user, role, now + CACHE_TTL)]
    /\ late' = late \cup {Later("token", TOKEN[r], token[TOKEN[r]].user, role)}
    /\ now < token[TOKEN[r]].until + LATENCY
    /\ TOKEN[r] # FOREIGN => role = token[TOKEN[r]].role
    /\ TOKEN[r] = FOREIGN => RoleSince(ForeignUser, role, now - ROLE_TTL - LATENCY + 1)

LEMMA AdmitAdmits ==
    ASSUME Types, NEW r \in REQUESTS, NEW role \in Roles, Admit(r, role),
           token[TOKEN[r]] # NoEntry, now < token[TOKEN[r]].until + LATENCY,
           TOKEN[r] # FOREIGN => role = token[TOKEN[r]].role,
           TOKEN[r] = FOREIGN => RoleSince(ForeignUser, role, now - ROLE_TTL - LATENCY + 1)
    PROVE  AdmitsAs(r, role)
<1>1. at'[r] = "admitted"
  BY DEF Admit, Goto, Types, TypesRequests
<1>2. got'[r].role = role
  BY DEF Admit, Types, TypesRequests, GotType
<1> QED BY <1>1, <1>2 DEF Admit, AdmitsAs

LEMMA GuardAdmits ==
    ASSUME SessionsInv, NEW r \in REQUESTS,
           Verify(r) \/ AskBlacklist(r) \/ AskSupabase(r) \/ AdmitForeign(r)
    PROVE  \/ at'[r] # "admitted" /\ UNCHANGED <<late, memoryToken>>
           \/ \E role \in Roles : AdmitsAs(r, role)
<1> USE SessionsAssumption
<1>1. /\ Types /\ now \in Nat /\ LATENCY \in Nat /\ CACHE_TTL \in Nat \ {0} /\ ROLE_TTL \in Nat \ {0}
      /\ FOREIGN \in TOKENS /\ token[FOREIGN] = OLD_TOKEN[FOREIGN]
      /\ \A t \in TOKENS : token[t] \in EntryType
  BY DEF SessionsInv, Types, TypesTokens, Issuance, TOKENS
<1>2. TOKEN[r] \in TOKENS
  OBVIOUS
<1>3. Placed(r) /\ Let(r) /\ InTime(r) /\ Ranked(r)
  BY DEF SessionsInv, Issuance, TokensInv, Clock, RolesInv
<1>4. token[TOKEN[r]].role \in Roles /\ token[TOKEN[r]].until \in Int /\ token[FOREIGN].user \in USERS
  BY <1>1, <1>2 DEF EntryType, Types, SessionsInv, Issuance
<1>5. ASSUME Admit(r, token[TOKEN[r]].role), token[TOKEN[r]] # NoEntry, TOKEN[r] # FOREIGN,
             now < token[TOKEN[r]].until + LATENCY
      PROVE  AdmitsAs(r, token[TOKEN[r]].role)
  BY <1>1, <1>4, <1>5, AdmitAdmits
<1>6. ASSUME NEW place \in Places, Goto(r, place), place # "admitted" PROVE at'[r] # "admitted"
  BY <1>1, <1>6 DEF Goto, Types, TypesRequests
<1>7. ASSUME token[TOKEN[r]] # NoEntry, AskLocal(r)
      PROVE  \/ at'[r] # "admitted" /\ UNCHANGED <<late, memoryToken>>
             \/ \E role \in Roles : AdmitsAs(r, role)
  <2>1. CASE Verifies(TOKEN[r]) /\ Admit(r, token[TOKEN[r]].role)
    BY <1>1, <1>4, <1>5, <1>7, <2>1 DEF Verifies
  <2>2. CASE Goto(r, "unverified") /\ UNCHANGED <<got, late, memoryToken, sharedToken, roleCache>>
    BY <1>6, <2>2 DEF Places, GuardPlaces
  <2> QED BY <1>7, <2>1, <2>2 DEF AskLocal
<1>8. CASE Verify(r)
  <2>1. token[TOKEN[r]] # NoEntry
    BY <1>8 DEF Verify, Holds
  <2>2. CASE AskLocal(r)
    BY <1>7, <2>1, <2>2
  <2>3. CASE Verifies(TOKEN[r]) /\ Admit(r, token[TOKEN[r]].role)
    BY <1>1, <1>4, <1>5, <2>1, <2>3 DEF Verifies
  <2>4. CASE Goto(r, "unjudged") /\ UNCHANGED <<got, late, memoryToken, sharedToken, roleCache>>
    BY <1>6, <2>4 DEF Places, GuardPlaces
  <2> QED BY <1>8, <2>2, <2>3, <2>4 DEF Verify, Judge
<1>9. CASE AskBlacklist(r)
  <2>1. at[r] = "unjudged" /\ token[TOKEN[r]] # NoEntry /\ TOKEN[r] # FOREIGN
    BY <1>3, <1>9 DEF AskBlacklist, Placed, GuardPlaces
  <2>2. began[r] \in Int /\ now < token[TOKEN[r]].until + LATENCY
    <3>1. began[r] \in Int /\ began[r] < token[TOKEN[r]].until
      BY <1>1, <1>3, <2>1 DEF Let, Types, TypesRequests
    <3>2. now <= began[r] + LATENCY
      BY <1>3, <2>1 DEF InTime, Active, Ends, Ended
    <3> QED BY <1>1, <1>4, <3>1, <3>2
  <2>3. CASE AskLocal(r)
    BY <1>7, <2>1, <2>3
  <2>4. CASE Admit(r, token[TOKEN[r]].role)
    BY <1>4, <1>5, <2>1, <2>2, <2>4
  <2> QED BY <1>9, <2>3, <2>4 DEF AskBlacklist, Judge
<1>10. CASE AskSupabase(r)
  <2>1. CASE at'[r] # "admitted" /\ UNCHANGED <<late, memoryToken>>
    BY <2>1
  <2>2. CASE /\ TOKEN[r] = FOREIGN /\ now < token[FOREIGN].until
             /\ now < roleCache[token[FOREIGN].user].until
             /\ Admit(r, roleCache[token[FOREIGN].user].role)
    <3>1. /\ roleCache[ForeignUser].role \in Roles /\ roleCache[ForeignUser].until \in Int
          /\ ForeignUser \in USERS /\ ForeignUser = token[FOREIGN].user
      BY <1>1, <1>4 DEF Types, TypesTokens, EntryType, ForeignUser
    <3>2. RoleSince(ForeignUser, roleCache[ForeignUser].role, roleCache[ForeignUser].until - ROLE_TTL - LATENCY)
      BY <3>1 DEF SessionsInv, RolesInv
    <3>3. changed[ForeignUser] \in Int
      BY <1>1, <3>1 DEF Types, TypesNames
    <3>4. RoleSince(ForeignUser, roleCache[ForeignUser].role, now - ROLE_TTL - LATENCY + 1)
      BY <1>1, <2>2, <3>1, <3>2, <3>3 DEF RoleSince
    <3>5. token[FOREIGN] # NoEntry
      BY <1>1, <1>4 DEF NoEntry
    <3>6. AdmitsAs(r, roleCache[ForeignUser].role)
      BY <1>1, <1>4, <2>2, <3>1, <3>4, <3>5, AdmitAdmits
    <3> QED BY <3>1, <3>6
  <2>3. \A place \in {"refused", "roleless"} : place \in Places
    BY DEF Places, GuardPlaces
  <2> QED BY <1>6, <1>10, <2>1, <2>2, <2>3 DEF AskSupabase
<1>11. CASE AdmitForeign(r)
  <2>1. /\ at[r] = "roleRead" /\ TOKEN[r] = FOREIGN /\ token[FOREIGN] # NoEntry
        /\ RoleSince(ForeignUser, got[r].role, began[r]) /\ ForeignUser = token[FOREIGN].user
    BY <1>1, <1>3, <1>11 DEF AdmitForeign, Placed, GuardPlaces, Ranked, ForeignUser
  <2>2. /\ began[r] \in Int /\ began[r] < token[FOREIGN].until /\ now <= began[r] + LATENCY
        /\ changed[ForeignUser] \in Int /\ got[r].role \in Roles
    BY <1>1, <1>3, <1>4, <2>1 DEF Let, InTime, Active, Ends, Ended, Types, TypesRequests, TypesNames, GotType
  <2>3. now < token[TOKEN[r]].until + LATENCY
    BY <1>1, <1>4, <2>1, <2>2
  <2>4. CASE Admit(r, "user")
    <3>1. RoleSince(ForeignUser, "user", now - ROLE_TTL - LATENCY + 1)
      BY DEF RoleSince
    <3> QED BY <1>1, <2>1, <2>3, <2>4, <3>1, AdmitAdmits DEF Roles
  <2>5. CASE /\ Goto(r, "admitted") /\ UNCHANGED got
             /\ memoryToken' = [memoryToken EXCEPT ![FOREIGN] =
                                   Entry(token[FOREIGN].user, got[r].role, now + CACHE_TTL)]
             /\ late' = late \cup {Later("token", FOREIGN, token[FOREIGN].user, got[r].role)}
    <3>1. RoleSince(ForeignUser, got[r].role, now - ROLE_TTL - LATENCY + 1)
      BY <1>1, <2>1, <2>2 DEF RoleSince
    <3>2. at'[r] = "admitted"
      BY <1>1, <2>5 DEF Goto, Types, TypesRequests
    <3>3. AdmitsAs(r, got[r].role)
      BY <2>1, <2>2, <2>3, <2>5, <3>1, <3>2 DEF AdmitsAs
    <3> QED BY <2>2, <3>3
  <2> QED BY <1>11, <2>4, <2>5 DEF AdmitForeign
<1> QED BY <1>8, <1>9, <1>10, <1>11

-----------------------------------------------------------------------------
(* Names and roles change hands under the unique index, and leave a date.    *)

RowsKept ==
    /\ row' \in [USERS -> RowType]
    /\ disturbed' \in [NAMES -> Int] /\ changed' \in [USERS -> Int]
    /\ \A u, v \in USERS : row'[u].name = row'[v].name => u = v \/ row'[u].name = NoName
    /\ \A n \in NAMES : disturbed[n] <= disturbed'[n] /\ disturbed'[n] <= now
    /\ \A u \in USERS : changed[u] <= changed'[u] /\ changed'[u] <= now
    /\ \A u \in USERS, n \in NAMES :
          /\ row'[u].name = n => row[u].name = n \/ disturbed'[n] = now
          /\ row[u].name = n => row'[u].name = n \/ disturbed'[n] = now
    /\ \A u \in USERS : row[u].role = "admin" => row'[u].role = "admin" \/ changed'[u] = now

LEMMA StepRows ==
    ASSUME SessionsInv, NEW r \in REQUESTS, Step(r)
    PROVE  RowsKept
<1> USE SessionsAssumption
<1>1. /\ now \in Nat /\ row \in [USERS -> RowType]
      /\ disturbed \in [NAMES -> Int] /\ changed \in [USERS -> Int]
      /\ \A n \in NAMES : disturbed[n] <= now
      /\ \A u \in USERS : changed[u] <= now
      /\ \A u, v \in USERS : row[u].name = row[v].name => u = v \/ row[u].name = NoName
      /\ PERSON[r] \in USERS /\ NAME[r] \in NAMES
  BY DEF SessionsInv, Types, TypesNames, Clock, NamesInv
<1>2. CASE UNCHANGED rows
  BY <1>1, <1>2 DEF rows, RowsKept
<1>3. CASE UNCHANGED <<row, changed>> /\ disturbed' = [disturbed EXCEPT ![NAME[r]] = now]
  BY <1>1, <1>3 DEF RowsKept
<1>4. CASE /\ UNCHANGED disturbed
           /\ row' = [row EXCEPT ![PERSON[r]].role = IF @ = "user" THEN "admin" ELSE "user"]
           /\ changed' = [changed EXCEPT ![PERSON[r]] = now]
  <2>1. /\ row' \in [USERS -> RowType] /\ \A u \in USERS : row'[u].name = row[u].name
        /\ \A u \in USERS \ {PERSON[r]} : row'[u] = row[u]
    <3>1. PICK role \in {"user", "admin"} : row' = [row EXCEPT ![PERSON[r]].role = role]
      BY <1>4
    <3> QED BY <1>1, <3>1 DEF RowType
  <2>2. changed' \in [USERS -> Int] /\ changed'[PERSON[r]] = now
        /\ \A u \in USERS \ {PERSON[r]} : changed'[u] = changed[u]
    BY <1>1, <1>4
  <2> QED BY <1>1, <1>4, <2>1, <2>2 DEF RowsKept
<1>5. CASE /\ UNCHANGED changed /\ \A v \in USERS \ {PERSON[r]} : row[v].name # NAME[r]
           /\ row' = [row EXCEPT ![PERSON[r]].name = NAME[r]]
           /\ disturbed' = [n \in NAMES |-> IF n \in {row[PERSON[r]].name, NAME[r]} THEN now ELSE disturbed[n]]
  <2>1. /\ row' \in [USERS -> RowType] /\ row'[PERSON[r]].name = NAME[r]
        /\ \A u \in USERS : row'[u].role = row[u].role
        /\ \A u \in USERS \ {PERSON[r]} : row'[u] = row[u]
    <3> DEFINE renamed == [row[PERSON[r]] EXCEPT !.name = NAME[r]]
    <3>1. renamed \in RowType /\ renamed.name = NAME[r] /\ renamed.role = row[PERSON[r]].role
      <4>1. row[PERSON[r]] \in RowType
        BY <1>1
      <4>2. renamed = [name |-> NAME[r], role |-> row[PERSON[r]].role]
        BY <4>1 DEF RowType
      <4> HIDE DEF renamed
      <4> QED BY <1>1, <4>1, <4>2 DEF RowType
    <3>2. row' = [row EXCEPT ![PERSON[r]] = renamed]
      BY <1>5
    <3> HIDE DEF renamed
    <3> QED BY <1>1, <3>1, <3>2
  <2>2. /\ disturbed' \in [NAMES -> Int]
        /\ \A n \in NAMES : disturbed'[n] = IF n \in {row[PERSON[r]].name, NAME[r]} THEN now ELSE disturbed[n]
    BY <1>1, <1>5
  <2>3. \A u, v \in USERS : row'[u].name = row'[v].name => u = v \/ row'[u].name = NoName
    BY <1>1, <1>5, <2>1
  <2> QED BY <1>1, <1>5, <2>1, <2>2, <2>3 DEF RowsKept
<1>6. CASE WriteList(r)
  BY <1>2, <1>3, <1>6 DEF WriteList, rows
<1>7. CASE Rename(r)
  BY <1>2, <1>5, <1>7 DEF Rename, rows
<1>8. CASE SetRole(r)
  BY <1>4, <1>8 DEF SetRole
<1>9. CASE \/ LookUpName(r) \/ Authenticate(r) \/ SignUp(r) \/ Refresh(r)
           \/ StoreSession(r) \/ ReadList(r) \/ CheckName(r) \/ ReadRole(r) \/ CheckRole(r)
  BY <1>2, <1>9 DEF LookUpName, Authenticate, SignUp, Refresh, StoreSession, ReadList, CheckName, ReadRole, CheckRole
<1>10. CASE \/ Verify(r) \/ AskBlacklist(r) \/ AskCaches(r) \/ AskSupabase(r) \/ AdmitForeign(r)
            \/ Logout(r) \/ LogoutJwt(r) \/ CacheBlacklisted(r) \/ RevokeAll(r)
  BY <1>2, <1>10 DEF Verify, AskBlacklist, AskCaches, AskSupabase, AdmitForeign, Logout, LogoutJwt,
                     CacheBlacklisted, RevokeAll
<1> QED BY <1>6, <1>7, <1>8, <1>9, <1>10 DEF Step

\* What a step writes about names: nothing, the name in hand, what the shared cache
\* said; or it is the guard's and writes about a token.
NameWritten(r) ==
    \/ UNCHANGED <<memoryName, late>>
    \/ \E n \in NAMES, u \in USERS :
          /\ memoryName' = [memoryName EXCEPT ![n] = Entry(u, "none", now + IDENTIFIER_TTL)]
          /\ late' = late \cup {Later("name", n, u, "none")}
          /\ row'[u].name = n \/ now - LATENCY <= disturbed'[n]
    \/ /\ UNCHANGED late
       /\ \E n \in NAMES :
             /\ now < sharedName[n].until
             /\ memoryName' = [memoryName EXCEPT ![n] = Entry(sharedName[n].user, "none", now + IDENTIFIER_TTL)]
    \/ UNCHANGED memoryName /\ \E role \in Roles : AdmitsAs(r, role)

LEMMA StepNameWritten ==
    ASSUME SessionsInv, NEW r \in REQUESTS, Step(r)
    PROVE  UNCHANGED sharedName /\ NameWritten(r)
<1> USE SessionsAssumption
<1>1. CASE LookUpName(r)
  BY <1>1 DEF LookUpName, NameWritten, names
<1>2. CASE StoreSession(r)
  <2>1. CASE UNCHANGED <<names, late>>
    BY <2>1 DEF NameWritten, names
  <2>2. CASE KIND[r] \in {"email", "name"} /\ Remember(got[r].name, got[r].user)
    <3>1. at[r] = "signed" /\ UNCHANGED rows
      BY <1>2 DEF StoreSession, Move
    <3>2. /\ got[r].user \in USERS /\ got[r].name \in NAMES
          /\ NameSince(got[r].name, got[r].user, began[r])
      BY <2>2, <3>1 DEF SessionsInv, Issuance, Placed, SignPlaces, NamesInv, Looked
    <3>3. now <= began[r] + LATENCY /\ began[r] \in Int /\ now \in Nat /\ disturbed[got[r].name] \in Int
      BY <3>1, <3>2 DEF SessionsInv, Clock, InTime, Active, Ends, Ended, Types, TypesRequests, TypesNames
    <3>4. row'[got[r].user].name = got[r].name \/ now - LATENCY <= disturbed'[got[r].name]
      BY <3>1, <3>2, <3>3 DEF NameSince, rows
    <3> QED BY <2>2, <3>2, <3>4 DEF Remember, NameWritten
  <2> QED BY <1>2, <2>1, <2>2 DEF StoreSession, names, Remember
<1>3. CASE WriteList(r)
  <2>1. CASE UNCHANGED <<names, late>>
    BY <2>1 DEF NameWritten, names
  <2>2. CASE Remember(NAME[r], got[r].user) /\ disturbed' = [disturbed EXCEPT ![NAME[r]] = now]
    <3>1. at[r] \in SignPlaces
      BY <1>3 DEF WriteList, Move, SignPlaces
    <3>2. got[r].user \in USERS /\ NAME[r] \in NAMES
      BY <3>1 DEF SessionsInv, Issuance, Placed
    <3>3. now \in Nat /\ now - LATENCY <= disturbed'[NAME[r]]
      BY <2>2 DEF SessionsInv, Types, TypesNames
    <3> QED BY <2>2, <3>2, <3>3 DEF Remember, NameWritten
  <2> QED BY <1>3, <2>1, <2>2 DEF WriteList, names, Remember
<1>4. CASE Verify(r) \/ AskBlacklist(r) \/ AskSupabase(r) \/ AdmitForeign(r)
  <2>1. UNCHANGED <<memoryName, sharedName>>
    BY <1>4 DEF Verify, AskBlacklist, AskSupabase, AdmitForeign, names
  <2> QED BY <1>4, <2>1, GuardAdmits DEF NameWritten
<1>5. CASE \/ Authenticate(r) \/ SignUp(r) \/ Refresh(r) \/ ReadList(r) \/ CheckName(r) \/ Rename(r)
           \/ SetRole(r) \/ ReadRole(r) \/ CheckRole(r) \/ AskCaches(r)
           \/ Logout(r) \/ LogoutJwt(r) \/ CacheBlacklisted(r) \/ RevokeAll(r)
  BY <1>5 DEF Authenticate, SignUp, Refresh, ReadList, CheckName, Rename, SetRole, ReadRole, CheckRole,
              AskCaches, Logout, LogoutJwt, CacheBlacklisted, RevokeAll, names, NameWritten
<1> QED BY <1>1, <1>2, <1>3, <1>4, <1>5 DEF Step

\* A token is written once, by the sign-in that is issued it.
TokensKept(r) ==
    /\ token' \in [TOKENS -> EntryType]
    /\ \A t \in TOKENS : token[t] # NoEntry => token'[t] = token[t]
    /\ \A t \in TOKENS : t # r => token'[t] = token[t]
    /\ at'[r] # "issued" => token' = token
    /\ at'[r] = "issued" =>
          r \in SIGN_INS /\ got[r].user \in USERS /\ token'[r] = Entry(got[r].user, got[r].role, now + ACCESS_TTL)

LEMMA StepTokens ==
    ASSUME SessionsInv, NEW r \in REQUESTS, Step(r)
    PROVE  TokensKept(r)
<1> USE SessionsAssumption
<1>1. token \in [TOKENS -> EntryType] /\ now \in Nat /\ at \in [REQUESTS -> Places]
  BY DEF SessionsInv, Types, TypesTokens, TypesRequests
<1>2. CASE WriteList(r)
  <2>1. at[r] = "listing" /\ token' = [token EXCEPT ![r] = Issued(r)] /\ at'[r] = "issued"
    BY <1>1, <1>2 DEF WriteList, Move, Goto
  <2>2. r \in SIGN_INS /\ r \in TOKENS /\ got[r].user \in USERS /\ token[r] = NoEntry
    BY <2>1 DEF SessionsInv, Issuance, Placed, SignPlaces, TOKENS
  <2>3. Issued(r) = Entry(got[r].user, got[r].role, now + ACCESS_TTL) /\ Issued(r) \in EntryType
    BY <1>1, <2>2 DEF Issued, Entry, EntryType, SessionsInv, Types, TypesRequests, GotType
  <2> QED BY <1>1, <2>1, <2>2, <2>3 DEF TokensKept
<1>3. CASE token' = token /\ ~WriteList(r)
  <2>1. PICK place \in Places : Goto(r, place) /\ Leads(r, place)
    BY StepLeads
  <2>2. at'[r] # "issued"
    BY <1>1, <1>3, <2>1 DEF Goto, Leads
  <2> QED BY <1>1, <1>3, <2>2 DEF TokensKept
<1>4. WriteList(r) \/ token' = token
  <2>1. CASE \/ LookUpName(r) \/ Authenticate(r) \/ SignUp(r) \/ Refresh(r)
             \/ StoreSession(r) \/ ReadList(r) \/ CheckName(r) \/ Rename(r) \/ SetRole(r) \/ ReadRole(r) \/ CheckRole(r)
    BY <2>1 DEF LookUpName, Authenticate, SignUp, Refresh, StoreSession, ReadList, CheckName, Rename, SetRole,
                ReadRole, CheckRole, sessions
  <2>2. CASE \/ Verify(r) \/ AskBlacklist(r) \/ AskCaches(r) \/ AskSupabase(r) \/ AdmitForeign(r)
             \/ Logout(r) \/ LogoutJwt(r) \/ CacheBlacklisted(r) \/ RevokeAll(r)
    BY <2>2 DEF Verify, AskBlacklist, AskCaches, AskSupabase, AdmitForeign, Logout, LogoutJwt,
                CacheBlacklisted, RevokeAll, sessions
  <2> QED BY <2>1, <2>2 DEF Step
<1> QED BY <1>2, <1>3, <1>4

\* What a step writes to the caches of the guard.
GuardWritten(r) ==
    /\ UNCHANGED sharedToken
    /\ \/ UNCHANGED memoryToken /\ (at'[r] = "admitted" => Remembered(TOKEN[r]) /\ got'[r].role = memoryToken[TOKEN[r]].role)
       \/ \E role \in Roles : AdmitsAs(r, role)
       \/ /\ at'[r] = "admitted" /\ now < sharedToken[TOKEN[r]].until
          /\ got'[r].role = sharedToken[TOKEN[r]].role
          /\ memoryToken' = [memoryToken EXCEPT ![TOKEN[r]] =
                               Entry(sharedToken[TOKEN[r]].user, sharedToken[TOKEN[r]].role, now + CACHE_TTL)]
    /\ \/ UNCHANGED roleCache
       \/ /\ got[r].role \in Roles /\ RoleSince(ForeignUser, got[r].role, now - LATENCY)
          /\ roleCache' = [roleCache EXCEPT ![ForeignUser] = Entry(ForeignUser, got[r].role, now + ROLE_TTL)]

LEMMA StepGuardWritten ==
    ASSUME SessionsInv, NEW r \in REQUESTS, Step(r)
    PROVE  GuardWritten(r)
<1> USE SessionsAssumption
<1>1. at \in [REQUESTS -> Places] /\ got \in [REQUESTS -> GotType] /\ token[FOREIGN].user = ForeignUser
  BY DEF SessionsInv, Types, TypesRequests, Issuance, ForeignUser
<1>2. CASE Verify(r) \/ AskBlacklist(r) \/ AskSupabase(r) \/ AdmitForeign(r)
  <2>1. UNCHANGED sharedToken
    BY <1>2 DEF Verify, Judge, AskLocal, AskBlacklist, AskSupabase, AdmitForeign, Admit
  <2>2. CASE ~AdmitForeign(r)
    <3>1. UNCHANGED roleCache
      BY <1>2, <2>2 DEF Verify, Judge, AskLocal, AskBlacklist, AskSupabase, Admit
    <3> QED BY <1>2, <2>1, <3>1, GuardAdmits DEF GuardWritten
  <2>3. CASE AdmitForeign(r)
    <3>1. at[r] = "roleRead"
      BY <2>3 DEF AdmitForeign
    <3>2. /\ RoleSince(ForeignUser, got[r].role, began[r]) /\ now <= began[r] + LATENCY
          /\ now \in Nat /\ began[r] \in Int /\ changed[ForeignUser] \in Int /\ got[r].role \in Roles
      BY <3>1 DEF SessionsInv, RolesInv, Ranked, Clock, InTime, Active, Ends, Ended, Types, TypesRequests,
                  TypesNames, GotType, ForeignUser
    <3>3. RoleSince(ForeignUser, got[r].role, now - LATENCY)
      BY <3>2 DEF RoleSince
    <3>4. \/ UNCHANGED roleCache
          \/ roleCache' = [roleCache EXCEPT ![ForeignUser] = Entry(ForeignUser, got[r].role, now + ROLE_TTL)]
      BY <1>1, <2>3 DEF AdmitForeign, Admit
    <3> QED BY <1>2, <2>1, <3>2, <3>3, <3>4, GuardAdmits DEF GuardWritten
  <2> QED BY <2>2, <2>3
<1>3. CASE AskCaches(r)
  <2>1. ASSUME NEW role, got' = [got EXCEPT ![r].role = role] PROVE got'[r].role = role
    BY <1>1, <2>1 DEF GotType
  <2>2. CASE Goto(r, "foreign") /\ UNCHANGED memoryToken
    <3>1. at'[r] # "admitted"
      BY <1>1, <2>2 DEF Goto
    <3> QED BY <1>3, <2>2, <3>1 DEF AskCaches, GuardWritten
  <2>3. CASE Goto(r, "admitted")
    <3>1. at'[r] = "admitted"
      BY <1>1, <2>3 DEF Goto
    <3> QED BY <1>3, <2>1, <2>2, <3>1 DEF AskCaches, GuardWritten
  <2> QED BY <1>3, <2>2, <2>3 DEF AskCaches
<1>4. CASE UNCHANGED <<memoryToken, sharedToken, roleCache>> /\ at'[r] # "admitted"
  BY <1>4 DEF GuardWritten
<1>5. ASSUME ~(Verify(r) \/ AskBlacklist(r) \/ AskSupabase(r) \/ AdmitForeign(r) \/ AskCaches(r))
      PROVE  at'[r] # "admitted"
  <2>1. PICK place \in Places : Goto(r, place) /\ Leads(r, place)
    BY StepLeads
  <2> QED BY <1>1, <1>5, <2>1 DEF Goto, Leads
<1>6. CASE \/ LookUpName(r) \/ Authenticate(r) \/ SignUp(r) \/ Refresh(r)
           \/ StoreSession(r) \/ ReadList(r) \/ WriteList(r) \/ CheckName(r) \/ Rename(r) \/ SetRole(r)
           \/ ReadRole(r) \/ CheckRole(r)
  <2>1. UNCHANGED <<memoryToken, sharedToken, roleCache>>
    BY <1>6 DEF LookUpName, Authenticate, SignUp, Refresh, StoreSession, ReadList, WriteList, CheckName, Rename, SetRole,
                ReadRole, CheckRole, guard
  <2> QED BY <1>2, <1>3, <1>4, <1>5, <2>1
<1>7. CASE Logout(r) \/ LogoutJwt(r) \/ CacheBlacklisted(r) \/ RevokeAll(r)
  <2>1. UNCHANGED <<memoryToken, sharedToken, roleCache>>
    BY <1>7 DEF Logout, LogoutJwt, CacheBlacklisted, RevokeAll
  <2> QED BY <1>2, <1>3, <1>4, <1>5, <2>1
<1> QED BY <1>2, <1>3, <1>6, <1>7 DEF Step

\* What a step writes about sessions.
ListsWritten(r) ==
    /\ session' \in [SIGN_INS -> Int] /\ listed' \in [USERS -> ListType] /\ raced' \in SUBSET SIGN_INS
    /\ raced \subseteq raced'
    /\ \A s \in SIGN_INS :
          \/ session'[s] = session[s]
          \/ s = r /\ at'[r] = "stored" /\ session'[s] = now + SESSION_TTL
    /\ at'[r] # "issued" => listed' = listed
    /\ at'[r] = "issued" =>
          listed' = [listed EXCEPT ![got[r].user] = [ids |-> got[r].ids \cup {r}, until |-> now + SESSION_TTL]]

LEMMA StepListsWritten ==
    ASSUME SessionsInv, NEW r \in REQUESTS, Step(r)
    PROVE  ListsWritten(r)
<1> USE SessionsAssumption
<1>1. /\ at \in [REQUESTS -> Places] /\ got \in [REQUESTS -> GotType] /\ now \in Nat
      /\ session \in [SIGN_INS -> Int] /\ listed \in [USERS -> ListType] /\ raced \in SUBSET SIGN_INS
  BY DEF SessionsInv, Types, TypesRequests, TypesTokens
<1>2. ASSUME ~WriteList(r) PROVE at'[r] # "issued"
  <2>1. PICK place \in Places : Goto(r, place) /\ Leads(r, place)
    BY StepLeads
  <2> QED BY <1>1, <1>2, <2>1 DEF Goto, Leads
<1>3. CASE WriteList(r)
  <2>1. at[r] = "listing" /\ at'[r] = "issued"
    BY <1>1, <1>3 DEF WriteList, Move, Goto
  <2>2. r \in SIGN_INS /\ got[r].user \in USERS /\ got[r].ids \in SUBSET SIGN_INS
    BY <1>1, <2>1 DEF SessionsInv, Issuance, Placed, SignPlaces, GotType
  <2>3. [ids |-> got[r].ids \cup {r}, until |-> now + SESSION_TTL] \in ListType
    BY <1>1, <2>2 DEF ListType
  <2> QED BY <1>1, <1>3, <2>1, <2>2, <2>3 DEF WriteList, ListsWritten
<1>4. CASE StoreSession(r)
  <2>1. at[r] = "signed" /\ at'[r] = "stored"
    BY <1>1, <1>4 DEF StoreSession, Move, Goto
  <2>2. r \in SIGN_INS
    BY <2>1 DEF SessionsInv, Issuance, Placed, SignPlaces
  <2> QED BY <1>1, <1>4, <2>1, <2>2 DEF StoreSession, ListsWritten
<1>5. CASE ReadList(r)
  <2>1. at[r] = "stored" /\ at'[r] = "listing"
    BY <1>1, <1>5 DEF ReadList, Move, Goto
  <2>2. r \in SIGN_INS
    BY <2>1 DEF SessionsInv, Issuance, Placed, SignPlaces
  <2>3. raced' \in SUBSET SIGN_INS /\ raced \subseteq raced'
    BY <1>1, <1>5, <2>2 DEF ReadList
  <2> QED BY <1>1, <1>5, <2>1, <2>3 DEF ReadList, ListsWritten
<1>6. CASE UNCHANGED <<session, listed, raced>> /\ ~WriteList(r)
  BY <1>1, <1>2, <1>6 DEF ListsWritten
<1>7. CASE \/ LookUpName(r) \/ Authenticate(r) \/ SignUp(r) \/ Refresh(r)
           \/ CheckName(r) \/ Rename(r) \/ SetRole(r) \/ ReadRole(r) \/ CheckRole(r)
  BY <1>3, <1>6, <1>7 DEF LookUpName, Authenticate, SignUp, Refresh, CheckName, Rename, SetRole,
              ReadRole, CheckRole, sessions
<1>8. CASE \/ Verify(r) \/ AskBlacklist(r) \/ AskCaches(r) \/ AskSupabase(r) \/ AdmitForeign(r)
           \/ Logout(r) \/ LogoutJwt(r) \/ CacheBlacklisted(r) \/ RevokeAll(r)
  BY <1>3, <1>6, <1>8 DEF Verify, AskBlacklist, AskCaches, AskSupabase, AdmitForeign, Logout, LogoutJwt,
              CacheBlacklisted, RevokeAll, sessions
<1> QED BY <1>3, <1>4, <1>5, <1>7, <1>8 DEF Step

LEMMA StepBlack ==
    ASSUME SessionsInv, NEW r \in REQUESTS, Step(r)
    PROVE  blackRow' \in EntryType /\ blackCache' \in [found : BOOLEAN, until : Int]
<1> USE SessionsAssumption
<1>1. blackRow \in EntryType /\ blackCache \in [found : BOOLEAN, until : Int] /\ now \in Nat
  BY DEF SessionsInv, Types, TypesTokens
<1>2. token[TOKEN[r]] \in EntryType
  BY DEF SessionsInv, Types, TypesTokens
<1>3. Counted \in BOOLEAN
  BY DEF Counted
<1>4. [found |-> TRUE, until |-> now + BLACKLIST_TTL] \in [found : BOOLEAN, until : Int]
      /\ [found |-> Counted, until |-> now + BLACKLIST_TTL] \in [found : BOOLEAN, until : Int]
      /\ [found |-> FALSE, until |-> -1] \in [found : BOOLEAN, until : Int]
  BY <1>1, <1>3
<1>5. CASE UNCHANGED <<blackRow, blackCache>>
  BY <1>1, <1>5
<1>6. CASE Logout(r) \/ LogoutJwt(r)
  BY <1>1, <1>2, <1>6 DEF Logout, LogoutJwt, Insert
<1>7. CASE AskBlacklist(r)
  BY <1>1, <1>4, <1>7 DEF AskBlacklist
<1>8. CASE CacheBlacklisted(r) \/ RevokeAll(r)
  BY <1>1, <1>4, <1>8 DEF CacheBlacklisted, RevokeAll
<1>9. CASE \/ LookUpName(r) \/ Authenticate(r) \/ SignUp(r) \/ Refresh(r)
           \/ StoreSession(r) \/ ReadList(r) \/ WriteList(r) \/ CheckName(r) \/ Rename(r) \/ SetRole(r)
  BY <1>5, <1>9 DEF LookUpName, Authenticate, SignUp, Refresh, StoreSession, ReadList, WriteList, CheckName, Rename,
              SetRole, guard
<1>10. CASE \/ ReadRole(r) \/ CheckRole(r)
           \/ Verify(r) \/ AskCaches(r) \/ AskSupabase(r) \/ AdmitForeign(r)
  BY <1>5, <1>10 DEF ReadRole, CheckRole, Verify, AskCaches, AskSupabase, AdmitForeign, guard
<1> QED BY <1>6, <1>7, <1>8, <1>9, <1>10 DEF Step

LEMMA StepTypes ==
    ASSUME SessionsInv, NEW r \in REQUESTS, Step(r)
    PROVE  Types'
<1> USE SessionsAssumption
<1>1. Types /\ Issuance
  BY DEF SessionsInv
<1>2. now' \in Nat /\ now \in Nat
  BY <1>1, StepLeads DEF Types
<1>3. TypesRequests'
  <2>1. PICK place \in Places : Goto(r, place)
    BY StepLeads
  <2>2. Went(r, place)
    BY <1>1, <2>1, GotoWent DEF Types
  <2>3. Carries(r)
    BY <1>1, StepCarries
  <2> QED BY <2>2, <2>3 DEF Went, Carries, TypesRequests
<1>4. TypesNames'
  <2>1. RowsKept /\ UNCHANGED sharedName /\ NameWritten(r)
    BY StepRows, StepNameWritten
  <2>2. /\ memoryName \in [NAMES -> EntryType] /\ sharedName \in [NAMES -> EntryType]
        /\ late \subseteq LateName \cup LateToken
    BY <1>1 DEF Types, TypesNames
  <2>3. \A u \in USERS \cup {Nobody}, role \in Roles, until \in Int : Entry(u, role, until) \in EntryType
    BY DEF Entry, EntryType
  <2>4. \A n \in NAMES, u \in USERS : Later("name", n, u, "none") \in LateName
    BY <1>2 DEF Later, LateName, Roles
  <2>5. ASSUME NEW role \in Roles, AdmitsAs(r, role)
        PROVE  Later("token", TOKEN[r], token[TOKEN[r]].user, role) \in LateToken
    <3>1. TOKEN[r] \in TOKENS /\ token[TOKEN[r]].user \in USERS
      BY <1>1, <2>5, TokenTypes DEF AdmitsAs
    <3> QED BY <1>2, <3>1 DEF Later, LateToken
  <2>6. memoryName' \in [NAMES -> EntryType]
    <3>1. \A n \in NAMES : sharedName[n].user \in USERS \cup {Nobody}
      BY <2>2 DEF EntryType
    <3>2. \A n \in NAMES, u \in USERS \cup {Nobody} :
             [memoryName EXCEPT ![n] = Entry(u, "none", now + IDENTIFIER_TTL)] \in [NAMES -> EntryType]
      BY <1>2, <2>2, <2>3 DEF Roles
    <3>3. CASE UNCHANGED memoryName
      BY <2>2, <3>3
    <3>4. CASE \E n \in NAMES, u \in USERS \cup {Nobody} :
                  memoryName' = [memoryName EXCEPT ![n] = Entry(u, "none", now + IDENTIFIER_TTL)]
      BY <3>2, <3>4
    <3> QED BY <2>1, <3>1, <3>3, <3>4 DEF NameWritten
  <2>7. late' \subseteq LateName \cup LateToken
    BY <2>1, <2>2, <2>4, <2>5 DEF NameWritten, AdmitsAs
  <2> QED BY <2>1, <2>2, <2>6, <2>7 DEF TypesNames, RowsKept
<1>5. TypesTokens'
  <2>1. TokensKept(r) /\ GuardWritten(r) /\ ListsWritten(r)
    BY StepTokens, StepGuardWritten, StepListsWritten
  <2>2. /\ memoryToken \in [TOKENS -> EntryType] /\ sharedToken \in [TOKENS -> EntryType]
        /\ roleCache \in [USERS -> EntryType] /\ TOKEN[r] \in TOKENS
    BY <1>1 DEF Types, TypesTokens
  <2>3. \A u \in USERS \cup {Nobody}, role \in Roles, until \in Int : Entry(u, role, until) \in EntryType
    BY DEF Entry, EntryType
  <2>4. memoryToken' \in [TOKENS -> EntryType]
    <3>1. ASSUME NEW role \in Roles, AdmitsAs(r, role) PROVE memoryToken' \in [TOKENS -> EntryType]
      <4>1. token[TOKEN[r]].user \in USERS
        BY <1>1, <3>1, TokenTypes DEF AdmitsAs
      <4>2. Entry(token[TOKEN[r]].user, role, now + CACHE_TTL) \in EntryType
        BY <1>2, <2>3, <4>1
      <4> QED BY <2>2, <3>1, <4>2 DEF AdmitsAs
    <3>2. sharedToken[TOKEN[r]].user \in USERS \cup {Nobody} /\ sharedToken[TOKEN[r]].role \in Roles
      BY <2>2 DEF EntryType
    <3>3. Entry(sharedToken[TOKEN[r]].user, sharedToken[TOKEN[r]].role, now + CACHE_TTL) \in EntryType
      BY <1>2, <2>3, <3>2
    <3> QED BY <2>1, <2>2, <3>1, <3>3 DEF GuardWritten
  <2>5. roleCache' \in [USERS -> EntryType]
    <3>1. ForeignUser \in USERS
      BY DEF ForeignUser
    <3>2. got[r].role \in Roles => Entry(ForeignUser, got[r].role, now + ROLE_TTL) \in EntryType
      BY <1>2, <2>3, <3>1
    <3> QED BY <2>1, <2>2, <3>2 DEF GuardWritten
  <2>6. blackRow' \in EntryType /\ blackCache' \in [found : BOOLEAN, until : Int]
    BY StepBlack
  <2> QED BY <2>1, <2>2, <2>4, <2>5, <2>6 DEF TypesTokens, TokensKept, GuardWritten, ListsWritten
<1> QED BY <1>2, <1>3, <1>4, <1>5 DEF Types

-----------------------------------------------------------------------------
(* One step keeps each part of the invariant.                                *)

LEMMA StepGoes ==
    ASSUME SessionsInv, NEW r \in REQUESTS, Step(r)
    PROVE  /\ now' = now /\ now \in Nat /\ ~Ends(r, at[r]) /\ at[r] # "away"
           /\ \E place \in Places : Went(r, place) /\ Leads(r, place)
<1>1. now \in Nat /\ TypesRequests
  BY DEF SessionsInv, Types
<1> QED BY <1>1, StepLeads, GotoWent

LEMMA StepClock ==
    ASSUME SessionsInv, NEW r \in REQUESTS, Step(r)
    PROVE  Clock'
<1> USE SessionsAssumption
<1>1. PICK place \in Places : Went(r, place)
  BY StepGoes
<1>2. /\ now' = now /\ now \in Nat /\ ~Ends(r, at[r]) /\ at[r] # "away"
      /\ \A s \in REQUESTS : InTime(s) /\ began[s] \in Int /\ decided[s] \in Int
  BY StepGoes DEF SessionsInv, Clock, Types, TypesRequests
<1>3. ASSUME NEW s \in REQUESTS PROVE InTime(s)'
  <2>1. CASE s = r
    BY <1>1, <1>2, <2>1 DEF InTime, Went, Active
  <2>2. CASE s # r
    <3>1. at'[s] = at[s] /\ began'[s] = began[s] /\ decided'[s] = decided[s]
      BY <1>1, <2>2 DEF Went
    <3> QED BY <1>2, <3>1 DEF InTime, Active, Ends
  <2> QED BY <2>1, <2>2
<1>4. ASSUME NEW w \in late' PROVE w.since <= now /\ now <= w.since + LATENCY
  <2>1. w \in late \/ w.since = now
    BY StepNameWritten DEF NameWritten, AdmitsAs, Later
  <2> QED BY <1>2, <2>1 DEF SessionsInv, Clock
<1>5. RowsKept
  BY StepRows
<1> QED BY <1>2, <1>3, <1>4, <1>5 DEF Clock, RowsKept

LEMMA StepIssuance ==
    ASSUME SessionsInv, NEW r \in REQUESTS, Step(r)
    PROVE  Issuance'
<1> USE SessionsAssumption
<1>1. PICK place \in Places : Went(r, place) /\ Leads(r, place)
  BY StepGoes
<1>2. TokensKept(r) /\ Carries(r)
  BY StepTokens, StepCarries DEF SessionsInv
<1>3. /\ Types /\ Issuance /\ TOKEN[r] \in TOKENS /\ at'[r] = place /\ Placed(r)
      /\ got \in [REQUESTS -> GotType] /\ at \in [REQUESTS -> Places]
  BY <1>1 DEF SessionsInv, Went, Issuance, Types, TypesRequests
<1>4. ASSUME NEW s \in REQUESTS, s # r PROVE Placed(s)'
  <2>1. at'[s] = at[s] /\ got'[s] = got[s] /\ TOKEN[s] \in TOKENS
    BY <1>1, <1>2, <1>4 DEF Went, Carries
  <2>2. s \in SIGN_INS => s \in TOKENS
    BY DEF TOKENS
  <2> QED BY <1>2, <1>3, <1>4, <2>1, <2>2 DEF Issuance, Placed, TokensKept, Guarded
<1>5. place \in SignPlaces => r \in SIGN_INS /\ got'[r].user \in USERS
  <2>1. ASSUME NEW u \in USERS, NEW role, Carry(r, u, role) PROVE got'[r].user \in USERS
    BY <1>3, <2>1 DEF Carry
  <2>2. CASE place = "signed" /\ Authenticate(r)
    <3>1. r \in SIGN_INS
      BY <2>2 DEF Authenticate, SIGN_INS
    <3>2. ~Goto(r, "wrong") /\ ~Goto(r, "refused")
      BY <1>3, <2>2 DEF Goto
    <3>3. \E u \in USERS : Carry(r, u, row[u].role)
      <4>1. PERSON[r] \in USERS
        OBVIOUS
      <4> QED BY <2>2, <3>2, <4>1 DEF Authenticate
    <3> QED BY <2>1, <3>1, <3>3
  <2>3. CASE place = "signed" /\ SignUp(r)
    BY <2>1, <2>3 DEF SignUp, SIGN_INS
  <2>4. CASE place = "signed" /\ Refresh(r)
    <3>1. r \in SIGN_INS /\ token[TOKEN[r]].user \in USERS
      BY <1>3, <2>4, TokenTypes DEF Refresh, SIGN_INS, Holds
    <3>2. ~Goto(r, "refused")
      BY <1>3, <2>4 DEF Goto
    <3> QED BY <2>1, <2>4, <3>1, <3>2 DEF Refresh
  <2>5. CASE place \in {"stored", "listing", "issued"}
    <3>1. StoreSession(r) \/ ReadList(r) \/ WriteList(r)
      BY <1>1, <2>5 DEF Leads
    <3>2. at[r] \in SignPlaces
      BY <3>1 DEF StoreSession, ReadList, WriteList, Move, SignPlaces
    <3>3. got'[r].user = got[r].user
      BY <1>3, <3>1 DEF StoreSession, ReadList, WriteList, Keep, GotType
    <3> QED BY <1>3, <3>2, <3>3 DEF Placed
  <2> QED BY <1>1, <2>2, <2>3, <2>4, <2>5 DEF SignPlaces, Leads
<1>6. place \in GuardPlaces => Guarded(r) /\ token'[TOKEN[r]] # NoEntry
  <2>1. CASE Verify(r)
    BY <1>2, <1>3, <2>1 DEF Verify, Holds, TokensKept
  <2>2. CASE \/ AskBlacklist(r) \/ AskCaches(r) \/ AskSupabase(r) \/ ReadRole(r) \/ AdmitForeign(r) \/ CheckRole(r)
    <3>1. at[r] \in GuardPlaces
      BY <2>2 DEF AskBlacklist, AskCaches, AskSupabase, ReadRole, AdmitForeign, CheckRole, Move, GuardPlaces
    <3> QED BY <1>2, <1>3, <3>1 DEF Placed, TokensKept
  <2> QED BY <1>1, <2>1, <2>2 DEF Leads, GuardPlaces
<1>7. /\ place = "found" => KIND[r] = "name"
      /\ place = "unjudged" => TOKEN[r] # FOREIGN
      /\ place \in {"roleless", "roleRead"} => TOKEN[r] = FOREIGN
  <2>1. ASSUME NEW p \in Places, place # p PROVE ~Goto(r, p)
    BY <1>3, <2>1 DEF Goto
  <2>2. place = "unjudged" => TOKEN[r] # FOREIGN
    <3> SUFFICES ASSUME place = "unjudged" PROVE TOKEN[r] # FOREIGN
      OBVIOUS
    <3>1. Verify(r)
      BY <1>1 DEF Leads
    <3>2. ~Goto(r, "admitted") /\ ~Goto(r, "unverified")
      BY <2>1 DEF Places, GuardPlaces
    <3> QED BY <3>1, <3>2 DEF Verify, AskLocal, Admit, Verifies
  <2>3. place = "roleless" => TOKEN[r] = FOREIGN
    <3> SUFFICES ASSUME place = "roleless" PROVE TOKEN[r] = FOREIGN
      OBVIOUS
    <3>1. AskSupabase(r) /\ ~Goto(r, "refused")
      BY <1>1, <2>1 DEF Leads, Places
    <3> QED BY <3>1 DEF AskSupabase
  <2>4. place = "roleRead" => TOKEN[r] = FOREIGN
    BY <1>1, <1>3 DEF Leads, ReadRole, Move, Placed
  <2>5. place = "found" => KIND[r] = "name"
    BY <1>1 DEF Leads, LookUpName
  <2> QED BY <2>2, <2>3, <2>4, <2>5
<1>8. r \in SIGN_INS /\ place # "issued" => token'[r] = NoEntry
  BY <1>2, <1>3, StepGoes DEF TokensKept, Placed, Ends, Ended
<1>9. Placed(r)'
  BY <1>3, <1>5, <1>6, <1>7, <1>8 DEF Placed, Guarded
<1>10. ASSUME NEW t \in TOKENS PROVE token'[t] = NoEntry \/ token'[t].user \in USERS
  BY <1>2, <1>3 DEF TokensKept, Issuance, Entry
<1>11. \A t \in OLD_TOKENS : t \in TOKENS /\ t # r
  BY DEF TOKENS
<1>12. \A t \in OLD_TOKENS : token'[t] = OLD_TOKEN[t]
  BY <1>2, <1>3, <1>11 DEF TokensKept, Issuance
<1> QED BY <1>4, <1>9, <1>10, <1>12 DEF Issuance

\* What was so at a time that has come stays so.
LEMMA NameSinceKept ==
    ASSUME SessionsInv, RowsKept, NEW n \in NAMES, NEW u \in USERS, NEW time \in Int,
           time <= now, NameSince(n, u, time)
    PROVE  row'[u].name = n \/ time <= disturbed'[n]
<1>1. disturbed[n] \in Int /\ disturbed'[n] \in Int /\ now \in Nat
  BY DEF SessionsInv, Types, TypesNames, RowsKept
<1> QED BY <1>1 DEF NameSince, RowsKept

LEMMA StepNames ==
    ASSUME SessionsInv, NEW r \in REQUESTS, Step(r)
    PROVE  NamesInv'
<1> USE SessionsAssumption
<1>1. PICK place \in Places : Went(r, place) /\ Leads(r, place)
  BY StepGoes
<1>2. /\ now' = now /\ now \in Nat /\ RowsKept /\ Carries(r) /\ sharedName' = sharedName /\ NameWritten(r)
      /\ Clock /\ Issuance /\ NamesInv
  BY StepGoes, StepRows, StepCarries, StepNameWritten DEF SessionsInv
<1>3. /\ row \in [USERS -> RowType] /\ memoryName \in [NAMES -> EntryType] /\ sharedName \in [NAMES -> EntryType]
      /\ disturbed \in [NAMES -> Int] /\ disturbed' \in [NAMES -> Int]
      /\ at \in [REQUESTS -> Places] /\ got \in [REQUESTS -> GotType] /\ began \in [REQUESTS -> Int]
      /\ decided \in [REQUESTS -> Int] /\ late \subseteq LateName \cup LateToken
      /\ NameGrace \in Nat /\ NameGrace = 2 * IDENTIFIER_TTL + 2 * LATENCY - 1
      /\ IDENTIFIER_TTL \in Nat \ {0} /\ LATENCY \in Nat
  <2>1. IDENTIFIER_TTL \in Nat \ {0} /\ LATENCY \in Nat
    OBVIOUS
  <2>2. NameGrace \in Nat /\ NameGrace = 2 * IDENTIFIER_TTL + 2 * LATENCY - 1
    BY <2>1 DEF NameGrace
  <2> QED BY <1>2, <2>1, <2>2 DEF SessionsInv, Types, TypesNames, TypesRequests, RowsKept
<1>4. ASSUME NEW n \in NAMES PROVE NameKnown(sharedName[n], n, IDENTIFIER_TTL + 2 * LATENCY)'
  <2> DEFINE time == sharedName[n].until - (IDENTIFIER_TTL + 2 * LATENCY)
  <2>1. sharedName[n].until \in Int /\ time \in Int
    BY <1>3 DEF EntryType
  <2>2. ASSUME sharedName[n] # NoEntry
        PROVE  /\ sharedName[n].user \in USERS /\ sharedName[n].until <= now + IDENTIFIER_TTL
               /\ NameSince(n, sharedName[n].user, time)
    BY <1>2, <2>2 DEF NamesInv, NameKnown
  <2>3. ASSUME sharedName[n] # NoEntry
        PROVE  row'[sharedName[n].user].name = n \/ time <= disturbed'[n]
    <3>1. time <= now
      BY <1>2, <1>3, <2>1, <2>2, <2>3
    <3> HIDE DEF time
    <3> QED BY <1>2, <2>1, <2>2, <2>3, <3>1, NameSinceKept
  <2> QED BY <1>2, <2>2, <2>3 DEF NameKnown, NameSince
<1>5. ASSUME NEW n \in NAMES PROVE NameKnown(memoryName[n], n, NameGrace)'
  <2>1. CASE memoryName'[n] = memoryName[n]
    <3> DEFINE time == memoryName[n].until - NameGrace
    <3>1. memoryName[n].until \in Int /\ time \in Int
      BY <1>3 DEF EntryType
    <3>2. ASSUME memoryName[n] # NoEntry
          PROVE  /\ memoryName[n].user \in USERS /\ memoryName[n].until <= now + IDENTIFIER_TTL
                 /\ NameSince(n, memoryName[n].user, time)
      BY <1>2, <3>2 DEF NamesInv, NameKnown
    <3>3. ASSUME memoryName[n] # NoEntry
          PROVE  row'[memoryName[n].user].name = n \/ time <= disturbed'[n]
      <4>1. time <= now
        BY <1>2, <1>3, <3>1, <3>2, <3>3
      <4> HIDE DEF time
      <4> QED BY <1>2, <3>1, <3>2, <3>3, <4>1, NameSinceKept
    <3> QED BY <1>2, <2>1, <3>2, <3>3 DEF NameKnown, NameSince
  <2>2. ASSUME NEW u \in USERS, memoryName'[n] = Entry(u, "none", now + IDENTIFIER_TTL),
               row'[u].name = n \/ now - LATENCY <= disturbed'[n]
        PROVE  NameKnown(memoryName[n], n, NameGrace)'
    <3>1. now + IDENTIFIER_TTL - NameGrace <= now - LATENCY
      BY <1>2, <1>3
    <3> QED BY <1>2, <1>3, <2>2, <3>1 DEF NameKnown, NameSince, Entry
  <2>3. ASSUME now < sharedName[n].until,
               memoryName'[n] = Entry(sharedName[n].user, "none", now + IDENTIFIER_TTL)
        PROVE  NameKnown(memoryName[n], n, NameGrace)'
    <3>1. sharedName[n] # NoEntry /\ sharedName[n].until \in Int
      BY <1>2, <1>3, <2>3 DEF NoEntry, EntryType
    <3>2. /\ sharedName[n].user \in USERS /\ sharedName[n].until <= now + IDENTIFIER_TTL
          /\ NameSince(n, sharedName[n].user, sharedName[n].until - (IDENTIFIER_TTL + 2 * LATENCY))
      BY <1>2, <3>1 DEF NamesInv, NameKnown
    <3>3. row'[sharedName[n].user].name = n \/ sharedName[n].until - (IDENTIFIER_TTL + 2 * LATENCY) <= disturbed'[n]
      BY <1>2, <1>3, <3>1, <3>2, NameSinceKept
    <3>4. now + IDENTIFIER_TTL - NameGrace <= sharedName[n].until - (IDENTIFIER_TTL + 2 * LATENCY)
      BY <1>2, <1>3, <2>3, <3>1
    <3> QED BY <1>2, <1>3, <2>3, <3>1, <3>2, <3>3, <3>4 DEF NameKnown, NameSince, Entry
  <2> QED BY <1>2, <1>3, <2>1, <2>2, <2>3 DEF NameWritten
<1>6. ASSUME NEW w \in late', w.kind = "name"
      PROVE  w.user \in USERS /\ NameSince(w.key, w.user, w.since - LATENCY)'
  <2>1. CASE w \in late
    <3>1. w \in LateName
      BY <1>3, <1>6, <2>1 DEF LateToken
    <3>2. w.key \in NAMES /\ w.since \in Int /\ w.since <= now
      BY <1>2, <2>1, <3>1 DEF LateName, Clock
    <3>3. w.user \in USERS /\ NameSince(w.key, w.user, w.since - LATENCY)
      BY <1>2, <1>6, <2>1 DEF NamesInv
    <3>4. w.since - LATENCY \in Int /\ w.since - LATENCY <= now
      BY <1>2, <1>3, <3>2
    <3>5. row'[w.user].name = w.key \/ w.since - LATENCY <= disturbed'[w.key]
      BY <1>2, <3>2, <3>3, <3>4, NameSinceKept
    <3> QED BY <3>3, <3>5 DEF NameSince
  <2>2. CASE w \notin late
    <3>1. PICK n \in NAMES, u \in USERS : w = Later("name", n, u, "none")
                                      /\ (row'[u].name = n \/ now - LATENCY <= disturbed'[n])
      BY <1>2, <1>6, <2>2 DEF NameWritten, AdmitsAs, Later
    <3> QED BY <3>1 DEF Later, NameSince
  <2> QED BY <2>1, <2>2
<1>7. ASSUME NEW s \in REQUESTS, s # r PROVE Looked(s)'
  <2>1. /\ at'[s] = at[s] /\ got'[s] = got[s] /\ began'[s] = began[s] /\ decided'[s] = decided[s]
        /\ NAME[s] \in NAMES /\ PERSON[s] \in USERS /\ Looked(s) /\ Placed(s) /\ InTime(s)
        /\ began[s] \in Int /\ decided[s] \in Int /\ got[s].user \in USERS \cup {Nobody}
    BY <1>1, <1>2, <1>3, <1>7 DEF Went, Carries, NamesInv, Issuance, Clock, GotType
  <2>2. at[s] = "signed" /\ KIND[s] \in {"email", "name"} =>
           got[s].name \in NAMES /\ (row'[got[s].user].name = got[s].name \/ began[s] <= disturbed'[got[s].name])
    <3> SUFFICES ASSUME at[s] = "signed", KIND[s] \in {"email", "name"}
                 PROVE  got[s].name \in NAMES /\ (row'[got[s].user].name = got[s].name \/ began[s] <= disturbed'[got[s].name])
      OBVIOUS
    <3>1. began[s] <= now /\ got[s].user \in USERS
      BY <2>1 DEF InTime, Active, Ends, Ended, Placed, SignPlaces
    <3> QED BY <1>2, <2>1, <3>1, NameSinceKept DEF Looked, SessionsInv
  <2>3. at[s] = "found" /\ got[s].user # Nobody =>
           row'[got[s].user].name = NAME[s] \/ began[s] - NameGrace <= disturbed'[NAME[s]]
    <3> SUFFICES ASSUME at[s] = "found", got[s].user # Nobody
                 PROVE  row'[got[s].user].name = NAME[s] \/ began[s] - NameGrace <= disturbed'[NAME[s]]
      OBVIOUS
    <3>1. began[s] - NameGrace <= now /\ began[s] - NameGrace \in Int /\ got[s].user \in USERS
      BY <1>2, <1>3, <2>1 DEF InTime, Active, Ends, Ended
    <3> QED BY <1>2, <2>1, <3>1, NameSinceKept DEF Looked, SessionsInv
  <2>4. at[s] = "wrong" /\ KIND[s] = "name" =>
           row'[PERSON[s]].name # NAME[s] \/ decided[s] <= disturbed'[NAME[s]] + NameGrace + LATENCY
    <3>1. decided[s] <= now /\ disturbed[NAME[s]] \in Int /\ disturbed'[NAME[s]] \in Int
      BY <1>3, <2>1 DEF InTime
    <3> QED BY <1>2, <1>3, <2>1, <3>1 DEF Looked, RowsKept
  <2> QED BY <2>1, <2>2, <2>3, <2>4 DEF Looked, NameSince
<1>8. Looked(r)'
  <2>1. at'[r] = place /\ NAME[r] \in NAMES /\ PERSON[r] \in USERS /\ Looked(r) /\ Placed(r) /\ InTime(r)
    BY <1>1, <1>2, <1>3 DEF Went, NamesInv, Issuance, Clock
  <2>2. ASSUME NEW p \in Places, place # p PROVE ~Goto(r, p)
    BY <1>3, <2>1, <2>2 DEF Goto
  <2>3. ASSUME NEW u \in USERS, NEW role, Carry(r, u, role)
        PROVE  got'[r].user = u /\ got'[r].name = row[u].name
    BY <1>3, <2>3 DEF Carry
  <2>4. ASSUME place = "signed", KIND[r] \in {"email", "name"}
        PROVE  got'[r].name \in NAMES /\ NameSince(got[r].name, got[r].user, began[r])'
    <3>1. Authenticate(r)
      BY <1>1, <2>4 DEF Leads, SignUp, Refresh
    <3>2. ~Goto(r, "wrong") /\ ~Goto(r, "refused")
      BY <2>2, <2>4 DEF Places
    <3>3. PICK u \in USERS : Carry(r, u, row[u].role) /\ row[u].name # NoName /\ UNCHANGED row
      BY <2>1, <3>1, <3>2 DEF Authenticate, rows
    <3>4. row[u].name \in NAMES
      BY <1>3, <3>3 DEF RowType
    <3> QED BY <2>3, <3>3, <3>4 DEF NameSince
  <2>5. ASSUME place = "found", got'[r].user # Nobody
        PROVE  NameSince(NAME[r], got[r].user, began[r] - NameGrace)'
    <3>1. LookUpName(r) /\ at[r] = "new" /\ UNCHANGED rows
      BY <1>1, <2>5 DEF Leads, LookUpName, Move
    <3>2. began'[r] = now
      BY <1>1, <2>1, <2>5, <3>1 DEF Went, Ends, Ended
    <3>3. memoryName[NAME[r]].until \in Int /\ sharedName[NAME[r]].until \in Int /\ disturbed[NAME[r]] \in Int
      BY <1>3, <2>1 DEF EntryType
    <3>4. CASE now <= memoryName[NAME[r]].until /\ Carry(r, memoryName[NAME[r]].user, "none")
      <4>1. memoryName[NAME[r]] # NoEntry
        BY <1>2, <3>4 DEF NoEntry
      <4>2. /\ memoryName[NAME[r]].user \in USERS
            /\ NameSince(NAME[r], memoryName[NAME[r]].user, memoryName[NAME[r]].until - NameGrace)
        BY <1>2, <2>1, <4>1 DEF NamesInv, NameKnown
      <4>3. got'[r].user = memoryName[NAME[r]].user
        BY <2>3, <3>4, <4>2
      <4>4. NameSince(NAME[r], memoryName[NAME[r]].user, now - NameGrace)
        BY <1>2, <1>3, <3>3, <3>4, <4>2 DEF NameSince
      <4> QED BY <3>1, <3>2, <4>3, <4>4 DEF NameSince, rows
    <3>5. CASE now < sharedName[NAME[r]].until /\ Carry(r, sharedName[NAME[r]].user, "none")
      <4>1. sharedName[NAME[r]] # NoEntry
        BY <1>2, <3>5 DEF NoEntry
      <4>2. /\ sharedName[NAME[r]].user \in USERS
            /\ NameSince(NAME[r], sharedName[NAME[r]].user, sharedName[NAME[r]].until - (IDENTIFIER_TTL + 2 * LATENCY))
        BY <1>2, <2>1, <4>1 DEF NamesInv, NameKnown
      <4>3. got'[r].user = sharedName[NAME[r]].user
        BY <2>3, <3>5, <4>2
      <4>4. NameSince(NAME[r], sharedName[NAME[r]].user, now - NameGrace)
        BY <1>2, <1>3, <3>3, <3>5, <4>2 DEF NameSince
      <4> QED BY <3>1, <3>2, <4>3, <4>4 DEF NameSince, rows
    <3>6. CASE Carry(r, Nobody, "none")
      <4>1. got'[r].user = Nobody
        BY <1>3, <3>6 DEF Carry
      <4> QED BY <2>5, <4>1
    <3> QED BY <3>1, <3>4, <3>5, <3>6 DEF LookUpName
  <2>6. ASSUME place = "wrong", KIND[r] = "name", row[PERSON[r]].name = NAME[r]
        PROVE  now <= disturbed[NAME[r]] + NameGrace + LATENCY
    <3>1. Authenticate(r) /\ at[r] = "found"
      BY <1>1, <2>6 DEF Leads, Authenticate
    <3>2. ~Goto(r, "signed") /\ ~Goto(r, "refused")
      BY <2>2, <2>6 DEF Places, SignPlaces
    <3>3. \A u \in USERS : row[u].name = NAME[r] => u = PERSON[r]
      BY <1>2, <2>1, <2>6 DEF NamesInv
    <3>4. got[r].user # Nobody /\ got[r].user # PERSON[r]
      BY <2>1, <2>6, <3>1, <3>2 DEF Authenticate, EmailOf
    <3>5. got[r].user \in USERS /\ disturbed[NAME[r]] \in Int /\ began[r] \in Int
      BY <1>3, <2>1, <3>4 DEF GotType
    <3>6. began[r] - NameGrace <= disturbed[NAME[r]]
      BY <2>1, <3>1, <3>3, <3>4, <3>5 DEF Looked, NameSince
    <3>7. now <= began[r] + LATENCY
      BY <2>1, <3>1 DEF InTime, Active, Ends, Ended
    <3> QED BY <1>2, <1>3, <3>5, <3>6, <3>7
  <2>7. place = "wrong" => decided'[r] = now /\ UNCHANGED rows
    BY <1>1 DEF Went, Ended, Leads, Authenticate
  <2> QED BY <2>1, <2>4, <2>5, <2>6, <2>7 DEF Looked, rows
<1> QED BY <1>2, <1>4, <1>5, <1>6, <1>7, <1>8 DEF NamesInv, RowsKept

LEMMA Lives ==
    /\ ACCESS_TTL \in Nat /\ SESSION_TTL \in Nat /\ LATENCY \in Nat
    /\ CACHE_TTL \in Nat /\ CACHE_TTL >= 1 /\ ROLE_TTL \in Nat /\ ROLE_TTL >= 1
    /\ TokenGrace \in Nat /\ TokenGrace = 2 * CACHE_TTL + 2 * LATENCY - 2
    /\ RoleGrace(FOREIGN) = ROLE_TTL + 2 * CACHE_TTL + 2 * LATENCY - 2
    /\ \A t : t # FOREIGN => RoleGrace(t) = ACCESS_TTL + 2 * CACHE_TTL + 3 * LATENCY - 2
    /\ \A t : RoleGrace(t) \in Nat
<1>1. /\ ACCESS_TTL \in Nat /\ SESSION_TTL \in Nat /\ LATENCY \in Nat
      /\ CACHE_TTL \in Nat /\ CACHE_TTL >= 1 /\ ROLE_TTL \in Nat /\ ROLE_TTL >= 1
  BY SessionsAssumption
<1>2. TokenGrace \in Nat /\ TokenGrace = 2 * CACHE_TTL + 2 * LATENCY - 2
  BY <1>1 DEF TokenGrace
<1>3. RoleGrace(FOREIGN) = ROLE_TTL + 2 * CACHE_TTL + 2 * LATENCY - 2
  BY <1>1 DEF RoleGrace
<1>4. ASSUME NEW t PROVE /\ t # FOREIGN => RoleGrace(t) = ACCESS_TTL + 2 * CACHE_TTL + 3 * LATENCY - 2
                         /\ RoleGrace(t) \in Nat
  BY <1>1 DEF RoleGrace
<1> QED BY <1>1, <1>2, <1>3, <1>4

LEMMA TokenKnownKept ==
    ASSUME SessionsInv, NEW r \in REQUESTS, TokensKept(r), NEW t \in TOKENS, NEW role, NEW until, NEW grace,
           TokenKnown(t, role, until, grace)
    PROVE  token'[t] # NoEntry /\ until <= token'[t].until + grace /\ (t # FOREIGN => role = token'[t].role)
BY DEF TokenKnown, TokensKept

LEMMA StepTokensInv ==
    ASSUME SessionsInv, NEW r \in REQUESTS, Step(r)
    PROVE  TokensInv'
<1> USE Lives
<1>1. PICK place \in Places : Went(r, place) /\ Leads(r, place)
  BY StepGoes
<1>2. /\ now' = now /\ now \in Nat /\ TokensKept(r) /\ Carries(r) /\ GuardWritten(r)
      /\ Clock /\ Issuance /\ TokensInv /\ TOKEN \in [REQUESTS -> TOKENS]
  BY StepGoes, StepTokens, StepCarries, StepGuardWritten, SessionsAssumption DEF SessionsInv
<1>3. /\ memoryToken \in [TOKENS -> EntryType] /\ sharedToken \in [TOKENS -> EntryType] /\ token \in [TOKENS -> EntryType]
      /\ at \in [REQUESTS -> Places] /\ got \in [REQUESTS -> GotType] /\ began \in [REQUESTS -> Int]
      /\ decided \in [REQUESTS -> Int] /\ late \subseteq LateName \cup LateToken
  BY DEF SessionsInv, Types, TypesTokens, TypesNames, TypesRequests
<1>4. ASSUME NEW t \in TOKENS, now < sharedToken[t].until
      PROVE  /\ sharedToken[t] # NoEntry /\ token[t] # NoEntry /\ (t # FOREIGN => sharedToken[t].role = token[t].role)
             /\ now + CACHE_TTL <= token[t].until + TokenGrace
  <2>1. sharedToken[t] # NoEntry /\ sharedToken[t].until \in Int /\ token[t].until \in Int
    BY <1>2, <1>3, <1>4 DEF NoEntry, EntryType
  <2>2. TokenKnown(t, sharedToken[t].role, sharedToken[t].until, CACHE_TTL + 2 * LATENCY - 1)
    BY <1>2, <2>1 DEF TokensInv
  <2> QED BY <1>2, <1>4, <2>1, <2>2 DEF TokenKnown
<1>5. ASSUME NEW role \in Roles, AdmitsAs(r, role)
      PROVE  /\ now + CACHE_TTL <= token[TOKEN[r]].until + TokenGrace /\ now <= token[TOKEN[r]].until + LATENCY - 1
             /\ now <= token[TOKEN[r]].until + TokenGrace
  <2>1. token[TOKEN[r]].until \in Int
    BY <1>2, <1>3 DEF EntryType
  <2> QED BY <1>2, <1>5, <2>1 DEF AdmitsAs
<1>6. ASSUME NEW t \in TOKENS, sharedToken'[t] # NoEntry
      PROVE  /\ sharedToken'[t].until <= now + CACHE_TTL
             /\ TokenKnown(t, sharedToken[t].role, sharedToken[t].until, CACHE_TTL + 2 * LATENCY - 1)'
  BY <1>2, <1>6, TokenKnownKept DEF TokensInv, GuardWritten, TokenKnown
<1>7. ASSUME NEW t \in TOKENS, memoryToken'[t] # NoEntry
      PROVE  /\ memoryToken'[t].until <= now + CACHE_TTL
             /\ TokenKnown(t, memoryToken[t].role, memoryToken[t].until, TokenGrace)'
  <2>1. CASE memoryToken'[t] = memoryToken[t]
    BY <1>2, <1>7, <2>1, TokenKnownKept DEF TokensInv, TokenKnown
  <2>2. ASSUME NEW role \in Roles, AdmitsAs(r, role), t = TOKEN[r]
        PROVE  /\ memoryToken'[t].until <= now + CACHE_TTL
               /\ TokenKnown(t, memoryToken[t].role, memoryToken[t].until, TokenGrace)'
    <3>1. memoryToken'[t] = Entry(token[t].user, role, now + CACHE_TTL)
      BY <1>3, <2>2 DEF AdmitsAs
    <3>2. memoryToken'[t].role = role /\ memoryToken'[t].until = now + CACHE_TTL
      BY <3>1 DEF Entry
    <3>3. token'[t] = token[t] /\ token[t] # NoEntry
      BY <1>2, <2>2 DEF AdmitsAs, TokensKept
    <3>4. now + CACHE_TTL <= token[t].until + TokenGrace
      BY <1>5, <2>2
    <3>5. t # FOREIGN => role = token[t].role
      BY <2>2 DEF AdmitsAs
    <3>6. memoryToken'[t].until <= now + CACHE_TTL
      BY <1>2, <3>2
    <3> QED BY <3>2, <3>3, <3>4, <3>5, <3>6 DEF TokenKnown
  <2>3. ASSUME now < sharedToken[t].until,
               memoryToken'[t] = Entry(sharedToken[t].user, sharedToken[t].role, now + CACHE_TTL)
        PROVE  /\ memoryToken'[t].until <= now + CACHE_TTL
               /\ TokenKnown(t, memoryToken[t].role, memoryToken[t].until, TokenGrace)'
    <3>1. memoryToken'[t].role = sharedToken[t].role /\ memoryToken'[t].until = now + CACHE_TTL
      BY <2>3 DEF Entry
    <3>2. token'[t] = token[t]
      BY <1>2, <1>4, <2>3 DEF TokensKept
    <3> QED BY <1>2, <1>4, <2>3, <3>1, <3>2 DEF TokenKnown
  <2> QED BY <1>2, <1>3, <2>1, <2>2, <2>3 DEF GuardWritten, AdmitsAs
<1>8. ASSUME NEW w \in late', w.kind = "token"
      PROVE  TokenKnown(w.key, w.role, w.since, LATENCY - 1)'
  <2>1. CASE w \in late
    <3>1. w.key \in TOKENS
      BY <1>3, <1>8, <2>1 DEF LateName, LateToken
    <3> QED BY <1>2, <1>8, <2>1, <3>1, TokenKnownKept DEF TokensInv, TokenKnown
  <2>2. CASE w \notin late
    <3>1. PICK role \in Roles : AdmitsAs(r, role) /\ w = Later("token", TOKEN[r], token[TOKEN[r]].user, role)
      BY <1>8, <2>2, StepNameWritten DEF NameWritten, AdmitsAs, Later
    <3>2. token'[TOKEN[r]] = token[TOKEN[r]] /\ token[TOKEN[r]] # NoEntry
      BY <1>2, <3>1 DEF AdmitsAs, TokensKept
    <3> QED BY <1>2, <1>5, <3>1, <3>2 DEF AdmitsAs, TokenKnown, Later
  <2> QED BY <2>1, <2>2
<1>9. ASSUME NEW s \in REQUESTS, s # r PROVE Let(s)'
  <2>1. /\ at'[s] = at[s] /\ got'[s] = got[s] /\ began'[s] = began[s] /\ decided'[s] = decided[s]
        /\ Let(s) /\ Placed(s) /\ TOKEN[s] \in TOKENS
    BY <1>1, <1>2, <1>9 DEF Went, Carries, TokensInv, Issuance
  <2>2. at[s] \in GuardPlaces => token'[TOKEN[s]] = token[TOKEN[s]]
    BY <1>2, <2>1 DEF Placed, TokensKept
  <2> QED BY <2>1, <2>2 DEF Let, GuardPlaces
<1>10. Let(r)'
  <2>1. at'[r] = place /\ TOKEN[r] \in TOKENS /\ Placed(r) /\ InTime(r) /\ Let(r)
        /\ token[TOKEN[r]].until \in Int /\ began[r] \in Int
    BY <1>1, <1>2, <1>3 DEF Went, TokensInv, Issuance, Clock, EntryType
  <2>2. ASSUME NEW p \in Places, place # p PROVE ~Goto(r, p)
    BY <1>3, <2>1, <2>2 DEF Goto
  <2>3. token[TOKEN[r]] # NoEntry => token'[TOKEN[r]] = token[TOKEN[r]]
    BY <1>2, <2>1 DEF TokensKept
  <2>4. ASSUME place = "unjudged" PROVE began'[r] < token'[TOKEN[r]].until
    <3>1. Verify(r) /\ ~Goto(r, "admitted") /\ ~Goto(r, "unverified")
      BY <1>1, <2>2, <2>4 DEF Leads, Places, GuardPlaces
    <3>2. at[r] = "new" /\ now < token[TOKEN[r]].until /\ token[TOKEN[r]] # NoEntry
      BY <3>1 DEF Verify, Holds, AskLocal, Admit, Verifies
    <3>3. began'[r] = now
      BY <1>1, <2>4, <3>2 DEF Went, Ends, Ended
    <3> QED BY <2>3, <3>2, <3>3
  <2>5. ASSUME place = "roleless" PROVE began'[r] < token'[TOKEN[r]].until
    <3>1. AskSupabase(r) /\ ~Goto(r, "refused")
      BY <1>1, <2>2, <2>5 DEF Leads, Places
    <3>2. at[r] = "foreign" /\ TOKEN[r] = FOREIGN /\ now < token[TOKEN[r]].until
      BY <3>1 DEF AskSupabase
    <3>3. token[TOKEN[r]] # NoEntry
      BY <2>1, <3>2 DEF Placed, GuardPlaces
    <3>4. began'[r] = began[r] /\ began[r] <= now
      BY <1>1, <2>1, <2>5, <3>2 DEF Went, Ends, Ended, InTime, Active
    <3> QED BY <1>2, <2>1, <2>3, <3>2, <3>3, <3>4
  <2>6. ASSUME place = "roleRead" PROVE began'[r] < token'[TOKEN[r]].until
    <3>1. at[r] = "roleless"
      BY <1>1, <2>6 DEF Leads, ReadRole, Move
    <3>2. began'[r] = began[r]
      BY <1>1, <2>6, <3>1 DEF Went, Ends, Ended
    <3> QED BY <2>1, <2>3, <3>1, <3>2 DEF Let, Placed, GuardPlaces
  <2>7. ASSUME place = "admitted"
        PROVE  /\ decided'[r] <= token'[TOKEN[r]].until + TokenGrace
               /\ KIND[r] # "call" => began'[r] <= token'[TOKEN[r]].until + TokenGrace
               /\ TOKEN[r] # FOREIGN => got'[r].role = token'[TOKEN[r]].role
    <3>1. /\ token[TOKEN[r]] # NoEntry /\ now <= token[TOKEN[r]].until + TokenGrace
          /\ TOKEN[r] # FOREIGN => got'[r].role = token[TOKEN[r]].role
      <4>1. CASE \E role \in Roles : AdmitsAs(r, role)
        BY <1>5, <4>1 DEF AdmitsAs
      <4>2. CASE now < sharedToken[TOKEN[r]].until /\ got'[r].role = sharedToken[TOKEN[r]].role
        BY <1>2, <1>4, <2>1, <4>2
      <4>3. CASE Remembered(TOKEN[r]) /\ got'[r].role = memoryToken[TOKEN[r]].role
        <5>1. memoryToken[TOKEN[r]] # NoEntry /\ memoryToken[TOKEN[r]].until \in Int /\ now <= memoryToken[TOKEN[r]].until
          BY <1>2, <1>3, <2>1, <4>3 DEF Remembered, NoEntry, EntryType
        <5>2. TokenKnown(TOKEN[r], memoryToken[TOKEN[r]].role, memoryToken[TOKEN[r]].until, TokenGrace)
          BY <1>2, <2>1, <5>1 DEF TokensInv
        <5> QED BY <1>2, <2>1, <4>3, <5>1, <5>2 DEF TokenKnown
      <4> QED BY <1>2, <2>1, <2>7, <4>1, <4>2, <4>3 DEF GuardWritten
    <3>2. decided'[r] = now
      BY <1>1, <2>7 DEF Went
    <3>3. KIND[r] # "call" => began'[r] \in {now, began[r]} /\ (at[r] # "new" => began[r] <= now)
                              /\ (at[r] = "new" => began'[r] = now)
      BY <1>1, <2>1, <2>7, StepGoes DEF Went, Ends, Ended, InTime, Active
    <3> QED BY <1>2, <2>1, <2>3, <3>1, <3>2, <3>3
  <2>8. ASSUME place \in {"allowed", "forbidden"}
        PROVE  decided'[r] <= token'[TOKEN[r]].until + TokenGrace + LATENCY
    <3>1. at[r] = "admitted" /\ KIND[r] = "manage"
      BY <1>1, <2>8 DEF Leads, CheckRole
    <3>2. began[r] <= token[TOKEN[r]].until + TokenGrace /\ now <= began[r] + LATENCY /\ token[TOKEN[r]] # NoEntry
      BY <2>1, <3>1 DEF Let, InTime, Active, Ends, Ended, Placed, GuardPlaces
    <3>3. decided'[r] = now
      BY <1>1, <2>8 DEF Went, Ended
    <3> QED BY <1>2, <2>1, <2>3, <3>2, <3>3
  <2> QED BY <2>1, <2>4, <2>5, <2>6, <2>7, <2>8 DEF Let
<1> QED BY <1>2, <1>6, <1>7, <1>8, <1>9, <1>10 DEF TokensInv

\* Whose role was so at a time that has come, or at an earlier one.
LEMMA RoleSinceKept ==
    ASSUME SessionsInv, RowsKept, NEW u \in USERS, NEW role, NEW time \in Int, time <= now,
           RoleSince(u, role, time), NEW earlier \in Int, earlier <= time
    PROVE  role = "admin" => row'[u].role = "admin" \/ earlier <= changed'[u]
<1>1. changed[u] \in Int /\ changed'[u] \in Int /\ now \in Nat
  BY DEF SessionsInv, Types, TypesNames, RowsKept
<1> QED BY <1>1 DEF RoleSince, RowsKept

LEMMA StepRoles ==
    ASSUME SessionsInv, NEW r \in REQUESTS, Step(r)
    PROVE  RolesInv'
<1> USE Lives
<1>1. PICK place \in Places : Went(r, place) /\ Leads(r, place)
  BY StepGoes
<1>2. /\ now' = now /\ now \in Nat /\ RowsKept /\ TokensKept(r) /\ Carries(r) /\ GuardWritten(r)
      /\ Clock /\ Issuance /\ TokensInv /\ RolesInv /\ TOKEN \in [REQUESTS -> TOKENS] /\ TokensInv'
  BY StepGoes, StepRows, StepTokens, StepCarries, StepGuardWritten, StepTokensInv, SessionsAssumption DEF SessionsInv
<1>3. /\ memoryToken \in [TOKENS -> EntryType] /\ sharedToken \in [TOKENS -> EntryType] /\ token \in [TOKENS -> EntryType]
      /\ roleCache \in [USERS -> EntryType] /\ row \in [USERS -> RowType] /\ changed \in [USERS -> Int]
      /\ at \in [REQUESTS -> Places] /\ got \in [REQUESTS -> GotType] /\ began \in [REQUESTS -> Int]
      /\ decided \in [REQUESTS -> Int] /\ late \subseteq LateName \cup LateToken
  BY DEF SessionsInv, Types, TypesTokens, TypesNames, TypesRequests
<1>4. /\ FOREIGN \in TOKENS /\ ForeignUser \in USERS /\ token[FOREIGN] # NoEntry /\ token[FOREIGN].user = ForeignUser
      /\ NoEntry.role = "none" /\ token'[FOREIGN] = token[FOREIGN]
  <2>1. FOREIGN \in TOKENS /\ ForeignUser \in USERS /\ FOREIGN \in OLD_TOKENS /\ OLD_TOKEN[FOREIGN].role # "none"
    BY SessionsAssumption DEF TOKENS, ForeignUser
  <2> QED BY <1>2, <2>1 DEF Issuance, ForeignUser, NoEntry, TokensKept
<1>5. ASSUME NEW t \in TOKENS \ {FOREIGN}
      PROVE  /\ token'[t].until <= now + ACCESS_TTL
             /\ token'[t] # NoEntry =>
                   RoleSince(token[t].user, token[t].role, token[t].until - ACCESS_TTL - LATENCY)'
  <2>1. CASE token'[t] = token[t]
    <3> DEFINE time == token[t].until - ACCESS_TTL - LATENCY
    <3>1. token[t].until \in Int /\ time \in Int /\ token[t].until <= now + ACCESS_TTL
      BY <1>2, <1>3 DEF EntryType, RolesInv
    <3>2. time <= now
      BY <1>2, <3>1
    <3>3. token[t] # NoEntry => token[t].user \in USERS /\ RoleSince(token[t].user, token[t].role, time)
      BY <1>2 DEF RolesInv, Issuance
    <3>4. token[t] # NoEntry =>
             (token[t].role = "admin" => row'[token[t].user].role = "admin" \/ time <= changed'[token[t].user])
      <4> HIDE DEF time
      <4> QED BY <1>2, <3>1, <3>2, <3>3, RoleSinceKept
    <3> QED BY <1>2, <2>1, <3>1, <3>4 DEF RoleSince
  <2>2. CASE t = r /\ at'[r] = "issued"
    <3>1. /\ got[r].user \in USERS /\ token'[t] = Entry(got[r].user, got[r].role, now + ACCESS_TTL)
          /\ at[r] = "listing"
      BY <1>1, <1>2, <2>2 DEF TokensKept, Leads, WriteList, Move, Went
    <3>2. /\ RoleSince(got[r].user, got[r].role, began[r]) /\ began[r] \in Int /\ began[r] <= now
          /\ now <= began[r] + LATENCY
      BY <1>2, <1>3, <3>1 DEF RolesInv, Ranked, Clock, InTime, Active, Ends, Ended
    <3>3. now - LATENCY \in Int /\ now - LATENCY <= began[r]
      BY <1>2, <3>2
    <3>4. got[r].role = "admin" => row'[got[r].user].role = "admin" \/ now - LATENCY <= changed'[got[r].user]
      BY <1>2, <3>1, <3>2, <3>3, RoleSinceKept
    <3>5. /\ token'[t].user = got[r].user /\ token'[t].role = got[r].role /\ token'[t].until = now + ACCESS_TTL
          /\ token'[t].until - ACCESS_TTL - LATENCY = now - LATENCY
      BY <1>2, <3>1 DEF Entry
    <3> QED BY <1>2, <3>4, <3>5 DEF RoleSince
  <2> QED BY <1>2, <2>1, <2>2 DEF TokensKept
<1>6. ASSUME NEW u \in USERS
      PROVE  /\ roleCache'[u].until <= now + ROLE_TTL
             /\ RoleSince(u, roleCache[u].role, roleCache[u].until - ROLE_TTL - LATENCY)'
  <2>1. CASE roleCache'[u] = roleCache[u]
    <3> DEFINE time == roleCache[u].until - ROLE_TTL - LATENCY
    <3>1. time \in Int /\ time <= now /\ roleCache[u].until <= now + ROLE_TTL
      BY <1>2, <1>3 DEF EntryType, RolesInv
    <3>2. RoleSince(u, roleCache[u].role, time)
      BY <1>2 DEF RolesInv
    <3>3. roleCache[u].role = "admin" => row'[u].role = "admin" \/ time <= changed'[u]
      <4> HIDE DEF time
      <4> QED BY <1>2, <3>1, <3>2, RoleSinceKept
    <3> QED BY <2>1, <3>1, <3>3 DEF RoleSince
  <2>2. ASSUME u = ForeignUser, RoleSince(u, got[r].role, now - LATENCY),
               roleCache'[u] = Entry(u, got[r].role, now + ROLE_TTL)
        PROVE  /\ roleCache'[u].until <= now + ROLE_TTL
               /\ RoleSince(u, roleCache[u].role, roleCache[u].until - ROLE_TTL - LATENCY)'
    <3>1. now - LATENCY \in Int /\ now - LATENCY <= now /\ now + ROLE_TTL - ROLE_TTL - LATENCY = now - LATENCY
      BY <1>2
    <3>2. got[r].role = "admin" => row'[u].role = "admin" \/ now - LATENCY <= changed'[u]
      BY <1>2, <2>2, <3>1, RoleSinceKept
    <3> QED BY <1>2, <2>2, <3>1, <3>2 DEF Entry, RoleSince
  <2> QED BY <1>2, <1>3, <2>1, <2>2 DEF GuardWritten
\* What the caches and the writes say of Supabase's token.
<1>7. /\ memoryToken[FOREIGN].until \in Int /\ sharedToken[FOREIGN].until \in Int
      /\ memoryToken[FOREIGN] # NoEntry => memoryToken[FOREIGN].until <= now + CACHE_TTL
      /\ sharedToken[FOREIGN] # NoEntry => sharedToken[FOREIGN].until <= now + CACHE_TTL
      /\ RoleSince(ForeignUser, memoryToken[FOREIGN].role, memoryToken[FOREIGN].until - RoleGrace(FOREIGN))
      /\ RoleSince(ForeignUser, sharedToken[FOREIGN].role,
                   sharedToken[FOREIGN].until - ROLE_TTL - CACHE_TTL - 2 * LATENCY + 1)
  BY <1>2, <1>3, <1>4 DEF EntryType, TokensInv, RolesInv
<1>8. ASSUME NEW role \in Roles, AdmitsAs(r, role), TOKEN[r] = FOREIGN, NEW earlier \in Int,
             earlier <= now - ROLE_TTL - LATENCY + 1
      PROVE  role = "admin" => row'[ForeignUser].role = "admin" \/ earlier <= changed'[ForeignUser]
  <2>1. /\ now - ROLE_TTL - LATENCY + 1 \in Int /\ now - ROLE_TTL - LATENCY + 1 <= now
        /\ RoleSince(ForeignUser, role, now - ROLE_TTL - LATENCY + 1)
    BY <1>2, <1>8 DEF AdmitsAs
  <2> QED BY <1>2, <1>4, <1>8, <2>1, RoleSinceKept
<1>9. ASSUME NEW earlier \in Int, earlier <= sharedToken[FOREIGN].until - ROLE_TTL - CACHE_TTL - 2 * LATENCY + 1
      PROVE  sharedToken[FOREIGN].role = "admin" =>
                row'[ForeignUser].role = "admin" \/ earlier <= changed'[ForeignUser]
  <2> SUFFICES ASSUME sharedToken[FOREIGN].role = "admin"
               PROVE  row'[ForeignUser].role = "admin" \/ earlier <= changed'[ForeignUser]
    OBVIOUS
  <2> DEFINE time == sharedToken[FOREIGN].until - ROLE_TTL - CACHE_TTL - 2 * LATENCY + 1
  <2>1. time \in Int /\ time <= now /\ RoleSince(ForeignUser, sharedToken[FOREIGN].role, time) /\ earlier <= time
    BY <1>2, <1>4, <1>7, <1>9
  <2> HIDE DEF time
  <2> QED BY <1>2, <1>4, <1>9, <2>1, RoleSinceKept
<1>10. ASSUME NEW earlier \in Int, earlier <= memoryToken[FOREIGN].until - RoleGrace(FOREIGN)
       PROVE  memoryToken[FOREIGN].role = "admin" =>
                 row'[ForeignUser].role = "admin" \/ earlier <= changed'[ForeignUser]
  <2> SUFFICES ASSUME memoryToken[FOREIGN].role = "admin"
               PROVE  row'[ForeignUser].role = "admin" \/ earlier <= changed'[ForeignUser]
    OBVIOUS
  <2> DEFINE time == memoryToken[FOREIGN].until - RoleGrace(FOREIGN)
  <2>1. time \in Int /\ time <= now /\ RoleSince(ForeignUser, memoryToken[FOREIGN].role, time) /\ earlier <= time
    BY <1>2, <1>4, <1>7, <1>10
  <2> HIDE DEF time
  <2> QED BY <1>2, <1>4, <1>10, <2>1, RoleSinceKept
<1>11. RoleSince(ForeignUser, memoryToken[FOREIGN].role, memoryToken[FOREIGN].until - RoleGrace(FOREIGN))'
  <2>1. CASE memoryToken'[FOREIGN] = memoryToken[FOREIGN]
    <3>1. memoryToken[FOREIGN].until - RoleGrace(FOREIGN) \in Int
      BY <1>7
    <3> QED BY <1>10, <2>1, <3>1 DEF RoleSince
  <2>2. ASSUME NEW role \in Roles, AdmitsAs(r, role), TOKEN[r] = FOREIGN
        PROVE  RoleSince(ForeignUser, memoryToken[FOREIGN].role, memoryToken[FOREIGN].until - RoleGrace(FOREIGN))'
    <3>1. memoryToken'[FOREIGN].role = role /\ memoryToken'[FOREIGN].until = now + CACHE_TTL
      BY <1>3, <1>4, <2>2 DEF AdmitsAs, Entry
    <3>2. now + CACHE_TTL - RoleGrace(FOREIGN) \in Int /\ now + CACHE_TTL - RoleGrace(FOREIGN) <= now - ROLE_TTL - LATENCY + 1
      BY <1>2
    <3>3. role = "admin" =>
             row'[ForeignUser].role = "admin" \/ now + CACHE_TTL - RoleGrace(FOREIGN) <= changed'[ForeignUser]
      BY <1>8, <2>2, <3>2
    <3>4. memoryToken'[FOREIGN].until - RoleGrace(FOREIGN) = now + CACHE_TTL - RoleGrace(FOREIGN)
      BY <1>2, <3>1
    <3>5. memoryToken'[FOREIGN].role = "admin" =>
             \/ row'[ForeignUser].role = "admin"
             \/ memoryToken'[FOREIGN].until - RoleGrace(FOREIGN) <= changed'[ForeignUser]
      BY <3>1, <3>3, <3>4
    <3> QED BY <3>5 DEF RoleSince
  <2>3. ASSUME now < sharedToken[FOREIGN].until,
               memoryToken'[FOREIGN] = Entry(sharedToken[FOREIGN].user, sharedToken[FOREIGN].role, now + CACHE_TTL)
        PROVE  RoleSince(ForeignUser, memoryToken[FOREIGN].role, memoryToken[FOREIGN].until - RoleGrace(FOREIGN))'
    <3>1. memoryToken'[FOREIGN].role = sharedToken[FOREIGN].role /\ memoryToken'[FOREIGN].until = now + CACHE_TTL
      BY <2>3 DEF Entry
    <3>2. /\ now + CACHE_TTL - RoleGrace(FOREIGN) \in Int
          /\ now + CACHE_TTL - RoleGrace(FOREIGN) <= sharedToken[FOREIGN].until - ROLE_TTL - CACHE_TTL - 2 * LATENCY + 1
      BY <1>2, <1>7, <2>3
    <3>3. sharedToken[FOREIGN].role = "admin" =>
             row'[ForeignUser].role = "admin" \/ now + CACHE_TTL - RoleGrace(FOREIGN) <= changed'[ForeignUser]
      BY <1>9, <3>2
    <3>4. memoryToken'[FOREIGN].until - RoleGrace(FOREIGN) = now + CACHE_TTL - RoleGrace(FOREIGN)
      BY <1>2, <3>1
    <3>5. memoryToken'[FOREIGN].role = "admin" =>
             \/ row'[ForeignUser].role = "admin"
             \/ memoryToken'[FOREIGN].until - RoleGrace(FOREIGN) <= changed'[ForeignUser]
      BY <3>1, <3>3, <3>4
    <3> QED BY <3>5 DEF RoleSince
  <2> QED BY <1>2, <1>3, <1>4, <2>1, <2>2, <2>3 DEF GuardWritten, AdmitsAs
<1>12. RoleSince(ForeignUser, sharedToken[FOREIGN].role,
                 sharedToken[FOREIGN].until - ROLE_TTL - CACHE_TTL - 2 * LATENCY + 1)'
  <2>1. sharedToken[FOREIGN].until - ROLE_TTL - CACHE_TTL - 2 * LATENCY + 1 \in Int
    BY <1>7
  <2> QED BY <1>2, <1>9, <2>1 DEF GuardWritten, RoleSince
<1>13. ASSUME NEW w \in late', w.kind = "token", w.key = FOREIGN
       PROVE  RoleSince(ForeignUser, w.role, w.since - ROLE_TTL - LATENCY + 1)'
  <2>1. CASE w \in late
    <3> DEFINE time == w.since - ROLE_TTL - LATENCY + 1
    <3>1. w \in LateToken
      BY <1>3, <1>13, <2>1 DEF LateName
    <3>2. time \in Int /\ time <= now
      BY <1>2, <2>1, <3>1 DEF LateToken, Clock
    <3>3. RoleSince(ForeignUser, w.role, time)
      BY <1>2, <1>13, <2>1 DEF RolesInv
    <3>4. w.role = "admin" => row'[ForeignUser].role = "admin" \/ time <= changed'[ForeignUser]
      <4> HIDE DEF time
      <4> QED BY <1>2, <1>4, <3>2, <3>3, RoleSinceKept
    <3> QED BY <3>4 DEF RoleSince
  <2>2. CASE w \notin late
    <3>1. PICK role \in Roles : AdmitsAs(r, role) /\ w = Later("token", TOKEN[r], token[TOKEN[r]].user, role)
      BY <1>13, <2>2, StepNameWritten DEF NameWritten, AdmitsAs, Later
    <3>2. w.role = role /\ w.since = now /\ TOKEN[r] = FOREIGN
      BY <1>13, <3>1 DEF Later
    <3>3. now - ROLE_TTL - LATENCY + 1 \in Int
      BY <1>2
    <3>4. role = "admin" =>
             row'[ForeignUser].role = "admin" \/ now - ROLE_TTL - LATENCY + 1 <= changed'[ForeignUser]
      BY <1>8, <3>1, <3>2, <3>3
    <3> QED BY <3>2, <3>4 DEF RoleSince
  <2> QED BY <2>1, <2>2
<1>14. ASSUME NEW s \in REQUESTS, s # r PROVE Ranked(s)'
  <2>1. /\ at'[s] = at[s] /\ got'[s] = got[s] /\ began'[s] = began[s] /\ decided'[s] = decided[s]
        /\ Ranked(s) /\ Placed(s) /\ InTime(s) /\ TOKEN[s] \in TOKENS
        /\ began[s] \in Int /\ decided[s] \in Int /\ RoleGrace(TOKEN[s]) \in Nat
    BY <1>1, <1>2, <1>3, <1>14 DEF Went, Carries, RolesInv, Issuance, Clock
  <2>2. at[s] \in GuardPlaces => token'[TOKEN[s]] = token[TOKEN[s]] /\ token[TOKEN[s]].user \in USERS
    BY <1>2, <2>1 DEF Placed, TokensKept, Issuance
  <2>3. at[s] \in {"signed", "stored", "listing"} => RoleSince(got[s].user, got[s].role, began[s])'
    <3> SUFFICES ASSUME at[s] \in {"signed", "stored", "listing"} PROVE RoleSince(got[s].user, got[s].role, began[s])'
      OBVIOUS
    <3>1. got[s].user \in USERS /\ began[s] <= now /\ RoleSince(got[s].user, got[s].role, began[s])
      BY <2>1 DEF Placed, SignPlaces, InTime, Active, Ends, Ended, Ranked
    <3>2. got[s].role = "admin" => row'[got[s].user].role = "admin" \/ began[s] <= changed'[got[s].user]
      BY <1>2, <2>1, <3>1, RoleSinceKept
    <3> QED BY <2>1, <3>2 DEF RoleSince
  <2>4. at[s] = "roleRead" => RoleSince(ForeignUser, got[s].role, began[s])'
    <3> SUFFICES ASSUME at[s] = "roleRead" PROVE RoleSince(ForeignUser, got[s].role, began[s])'
      OBVIOUS
    <3>1. began[s] <= now /\ RoleSince(ForeignUser, got[s].role, began[s])
      BY <2>1 DEF InTime, Active, Ends, Ended, Ranked
    <3>2. got[s].role = "admin" => row'[ForeignUser].role = "admin" \/ began[s] <= changed'[ForeignUser]
      BY <1>2, <1>4, <2>1, <3>1, RoleSinceKept
    <3> QED BY <2>1, <3>2 DEF RoleSince
  <2>5. at[s] = "admitted" /\ KIND[s] = "manage" =>
           RoleSince(token[TOKEN[s]].user, got[s].role, began[s] - RoleGrace(TOKEN[s]))'
    <3> SUFFICES ASSUME at[s] = "admitted", KIND[s] = "manage"
                 PROVE  RoleSince(token[TOKEN[s]].user, got[s].role, began[s] - RoleGrace(TOKEN[s]))'
      OBVIOUS
    <3> DEFINE time == began[s] - RoleGrace(TOKEN[s])
    <3>1. began[s] <= now /\ RoleSince(token[TOKEN[s]].user, got[s].role, time)
      BY <2>1 DEF InTime, Active, Ends, Ended, Ranked
    <3>2. time \in Int /\ time <= now /\ token[TOKEN[s]].user \in USERS
      BY <1>2, <2>1, <2>2, <3>1 DEF GuardPlaces
    <3>3. got[s].role = "admin" => row'[token[TOKEN[s]].user].role = "admin" \/ time <= changed'[token[TOKEN[s]].user]
      <4> HIDE DEF time
      <4> QED BY <1>2, <3>1, <3>2, RoleSinceKept
    <3>4. token'[TOKEN[s]] = token[TOKEN[s]]
      BY <2>2 DEF GuardPlaces
    <3> QED BY <2>1, <3>3, <3>4 DEF RoleSince
  <2>6. at[s] = "allowed" =>
           RoleSince(token[TOKEN[s]].user, "admin", decided[s] - RoleGrace(TOKEN[s]) - LATENCY)'
    <3> SUFFICES ASSUME at[s] = "allowed"
                 PROVE  RoleSince(token[TOKEN[s]].user, "admin", decided[s] - RoleGrace(TOKEN[s]) - LATENCY)'
      OBVIOUS
    <3> DEFINE time == decided[s] - RoleGrace(TOKEN[s]) - LATENCY
    <3>1. decided[s] <= now /\ RoleSince(token[TOKEN[s]].user, "admin", time)
      BY <2>1 DEF InTime, Ranked
    <3>2. time \in Int /\ time <= now /\ token[TOKEN[s]].user \in USERS
      BY <1>2, <2>1, <2>2, <3>1 DEF GuardPlaces
    <3>3. row'[token[TOKEN[s]].user].role = "admin" \/ time <= changed'[token[TOKEN[s]].user]
      <4> HIDE DEF time
      <4> QED BY <1>2, <3>1, <3>2, RoleSinceKept
    <3>4. token'[TOKEN[s]] = token[TOKEN[s]]
      BY <2>2 DEF GuardPlaces
    <3> QED BY <2>1, <3>3, <3>4 DEF RoleSince
  <2> QED BY <2>1, <2>3, <2>4, <2>5, <2>6 DEF Ranked
<1>15. Ranked(r)'
  <2>1. /\ at'[r] = place /\ TOKEN[r] \in TOKENS /\ Placed(r) /\ InTime(r) /\ Ranked(r) /\ Placed(r)' /\ Let(r)'
        /\ token[TOKEN[r]].until \in Int /\ began[r] \in Int /\ began'[r] \in Int /\ RoleGrace(TOKEN[r]) \in Nat
        /\ got[r].role \in Roles
    BY <1>1, <1>2, <1>3, StepIssuance DEF Went, RolesInv, TokensInv, Issuance, Clock, EntryType, GotType
  <2>2. ASSUME NEW p \in Places, place # p PROVE ~Goto(r, p)
    BY <1>3, <2>1, <2>2 DEF Goto
  <2>3. token[TOKEN[r]] # NoEntry => token'[TOKEN[r]] = token[TOKEN[r]]
    BY <1>2, <2>1 DEF TokensKept
  <2>4. ASSUME place = "signed" PROVE RoleSince(got[r].user, got[r].role, began[r])'
    <3>1. ASSUME NEW u \in USERS, NEW role \in Roles, Carry(r, u, role), UNCHANGED row,
                 role = "admin" => row[u].role = "admin"
          PROVE  RoleSince(got[r].user, got[r].role, began[r])'
      <4>1. got'[r].user = u /\ got'[r].role = role
        BY <1>3, <3>1 DEF Carry
      <4> QED BY <3>1, <4>1 DEF RoleSince
    <3>2. ~Goto(r, "wrong") /\ ~Goto(r, "refused")
      BY <2>2, <2>4 DEF Places
    <3>3. PERSON[r] \in USERS /\ \A u \in USERS : row[u].role \in Roles
      BY <1>3, SessionsAssumption DEF RowType, Roles
    <3>4. CASE Authenticate(r)
      BY <3>1, <3>2, <3>3, <3>4 DEF Authenticate, rows
    <3>5. CASE SignUp(r)
      BY <3>1, <3>3, <3>5 DEF SignUp, rows, Roles
    <3>6. CASE Refresh(r)
      <4>1. token[TOKEN[r]].user \in USERS
        BY <1>2, <2>1, <3>6 DEF Refresh, Holds, Issuance
      <4> QED BY <3>1, <3>2, <3>3, <3>6, <4>1 DEF Refresh, rows, Roles
    <3> QED BY <1>1, <2>4, <3>4, <3>5, <3>6 DEF Leads
  <2>5. ASSUME place \in {"stored", "listing"} PROVE RoleSince(got[r].user, got[r].role, began[r])'
    <3>1. StoreSession(r) \/ ReadList(r)
      BY <1>1, <2>5 DEF Leads
    <3>2. at[r] \in {"signed", "stored"} /\ got'[r].user = got[r].user /\ got'[r].role = got[r].role
      BY <1>3, <3>1 DEF StoreSession, ReadList, Move, Keep, GotType
    <3>3. UNCHANGED rows
      BY <3>1 DEF StoreSession, ReadList
    <3>4. began'[r] = began[r]
      BY <1>1, <2>5, <3>2 DEF Went, Ends, Ended
    <3> QED BY <2>1, <3>2, <3>3, <3>4 DEF Ranked, RoleSince, rows
  <2>6. ASSUME place = "roleRead" PROVE RoleSince(ForeignUser, got[r].role, began[r])'
    <3>1. ReadRole(r)
      BY <1>1, <2>6 DEF Leads
    <3>2. got'[r].role = row[ForeignUser].role /\ UNCHANGED row
      BY <1>3, <1>4, <3>1 DEF ReadRole, GotType, rows
    <3> QED BY <3>2 DEF RoleSince
  <2>7. ASSUME place = "admitted", KIND[r] = "manage"
        PROVE  RoleSince(token[TOKEN[r]].user, got[r].role, began[r] - RoleGrace(TOKEN[r]))'
    <3>1. token'[TOKEN[r]] # NoEntry /\ began'[r] <= token'[TOKEN[r]].until + TokenGrace
      BY <2>1, <2>7 DEF Placed, Let, GuardPlaces
    <3>2. began'[r] <= now
      BY <1>1, <1>2, <2>1, <2>7, StepGoes DEF Went, Ends, Ended, InTime, Active
    <3>3. CASE TOKEN[r] # FOREIGN
      <4>1. got'[r].role = token'[TOKEN[r]].role
        BY <2>1, <2>7, <3>3 DEF Let
      <4>2. RoleSince(token[TOKEN[r]].user, token[TOKEN[r]].role, token[TOKEN[r]].until - ACCESS_TTL - LATENCY)'
        BY <1>5, <2>1, <3>1, <3>3
      <4>3. token'[TOKEN[r]].until \in Int /\ changed'[token'[TOKEN[r]].user] \in Int
        BY <1>2, <2>1, <3>1, StepIssuance DEF TokensKept, EntryType, RowsKept, Issuance
      <4>4. began'[r] - RoleGrace(TOKEN[r]) <= token'[TOKEN[r]].until - ACCESS_TTL - LATENCY
        BY <2>1, <3>1, <3>3, <4>3
      <4> QED BY <2>1, <4>1, <4>2, <4>3, <4>4 DEF RoleSince
    <3>4. CASE TOKEN[r] = FOREIGN
      <4> DEFINE earlier == began'[r] - RoleGrace(FOREIGN)
      <4>1. earlier \in Int /\ earlier <= now - ROLE_TTL - LATENCY + 1
        BY <1>2, <2>1, <3>2
      <4>2. got'[r].role = "admin" => row'[ForeignUser].role = "admin" \/ earlier <= changed'[ForeignUser]
        <5>1. CASE \E role \in Roles : AdmitsAs(r, role)
          <6> HIDE DEF earlier
          <6> QED BY <1>8, <3>4, <4>1, <5>1 DEF AdmitsAs
        <5>2. CASE now < sharedToken[FOREIGN].until /\ got'[r].role = sharedToken[FOREIGN].role
          <6>1. earlier <= sharedToken[FOREIGN].until - ROLE_TTL - CACHE_TTL - 2 * LATENCY + 1
            BY <1>2, <1>7, <2>1, <3>2, <5>2
          <6> HIDE DEF earlier
          <6> QED BY <1>9, <4>1, <5>2, <6>1
        <5>3. CASE Remembered(FOREIGN) /\ got'[r].role = memoryToken[FOREIGN].role
          <6>1. earlier <= memoryToken[FOREIGN].until - RoleGrace(FOREIGN)
            BY <1>2, <1>7, <2>1, <3>2, <5>3 DEF Remembered
          <6> HIDE DEF earlier
          <6> QED BY <1>10, <4>1, <5>3, <6>1
        <5> QED BY <1>2, <2>1, <2>7, <3>4, <5>1, <5>2, <5>3 DEF GuardWritten
      <4> QED BY <1>4, <3>4, <4>2 DEF RoleSince
    <3> QED BY <3>3, <3>4
  <2>8. ASSUME place = "allowed"
        PROVE  RoleSince(token[TOKEN[r]].user, "admin", decided[r] - RoleGrace(TOKEN[r]) - LATENCY)'
    <3>1. CheckRole(r) /\ at[r] = "admitted" /\ KIND[r] = "manage" /\ UNCHANGED rows /\ ~Goto(r, "forbidden")
      BY <1>1, <2>2, <2>8 DEF Leads, CheckRole, Places, GuardPlaces
    <3>2. token'[TOKEN[r]] = token[TOKEN[r]] /\ token[TOKEN[r]].user \in USERS
      BY <1>2, <2>1, <2>3, <3>1 DEF Placed, GuardPlaces, Issuance
    <3>3. CASE row[token[TOKEN[r]].user].role = "admin"
      BY <3>1, <3>2, <3>3 DEF RoleSince, rows
    <3>4. CASE got[r].role = "admin"
      <4>1. RoleSince(token[TOKEN[r]].user, "admin", began[r] - RoleGrace(TOKEN[r])) /\ now <= began[r] + LATENCY
        BY <2>1, <3>1, <3>4 DEF Ranked, InTime, Active, Ends, Ended
      <4>2. decided'[r] = now /\ changed[token[TOKEN[r]].user] \in Int
        BY <1>1, <1>3, <2>8, <3>2 DEF Went, Ended
      <4>3. now - RoleGrace(TOKEN[r]) - LATENCY <= began[r] - RoleGrace(TOKEN[r])
        BY <1>2, <2>1, <4>1
      <4> QED BY <1>2, <2>1, <3>1, <3>2, <4>1, <4>2, <4>3 DEF RoleSince, rows
    <3> QED BY <3>1, <3>3, <3>4 DEF CheckRole
  <2> QED BY <2>1, <2>4, <2>5, <2>6, <2>7, <2>8 DEF Ranked
<1> QED BY <1>2, <1>5, <1>6, <1>11, <1>12, <1>13, <1>14, <1>15 DEF RolesInv

LEMMA StepLists ==
    ASSUME SessionsInv, NEW r \in REQUESTS, Step(r)
    PROVE  ListsInv'
<1>1. PICK place \in Places : Went(r, place) /\ Leads(r, place)
  BY StepGoes
<1>2. /\ now' = now /\ now \in Nat /\ SESSION_TTL \in Nat /\ Carries(r) /\ ListsWritten(r) /\ ListsInv
      /\ at'[r] = place /\ got \in [REQUESTS -> GotType] /\ Placed(r)
      /\ raced \in SUBSET SIGN_INS /\ session \in [SIGN_INS -> Int] /\ listed \in [USERS -> ListType]
  BY <1>1, StepGoes, StepCarries, StepListsWritten, Lives
     DEF SessionsInv, Types, TypesRequests, TypesTokens, Went, Issuance
<1>3. ASSUME NEW s \in SIGN_INS, s # r
      PROVE  at'[s] = at[s] /\ got'[s] = got[s] /\ session'[s] = session[s]
  BY <1>1, <1>2, <1>3 DEF Went, Carries, ListsWritten, SIGN_INS
<1>4. CASE place = "listing"
  <2>1. /\ at[r] = "stored" /\ got[r].user \in USERS /\ r \in SIGN_INS
        /\ got'[r].user = got[r].user
        /\ got'[r].ids = IF now < listed[got[r].user].until THEN listed[got[r].user].ids ELSE {}
        /\ session' = session /\ listed' = listed
        /\ \A s \in SIGN_INS \ {r} :
              at[s] = "listing" /\ got[s].user = got[r].user => {s, r} \subseteq raced'
    <3>1. ReadList(r)
      BY <1>1, <1>4 DEF Leads
    <3>2. at[r] = "stored" /\ got[r].user \in USERS /\ r \in SIGN_INS
      BY <1>2, <3>1 DEF ReadList, Move, Placed, SignPlaces
    <3> QED BY <1>2, <3>1, <3>2 DEF ReadList, GotType
  <2>2. ASSUME NEW q \in SIGN_INS PROVE (session[q] <= now + SESSION_TTL /\ ListKnown(q))'
    BY <1>2, <1>3, <1>4, <2>1 DEF ListsInv, ListKnown, ListsWritten
  <2>3. ASSUME NEW s \in SIGN_INS, NEW q \in SIGN_INS PROVE ListCarried(s, q)'
    <3>1. CASE s # r
      BY <1>2, <1>3, <1>4, <2>1, <3>1 DEF ListsInv, ListCarried, ListsWritten
    <3>2. CASE s = r
      <4> SUFFICES ASSUME at'[q] = "issued", q \notin raced', got'[r].user = got'[q].user, now < session'[q]
                   PROVE  q \in got'[r].ids
        BY <1>2, <3>2 DEF ListCarried
      <4>1. q # r /\ at[q] = "issued" /\ q \notin raced /\ got[q].user = got[r].user /\ now < session[q]
        BY <1>2, <1>3, <1>4, <2>1 DEF ListsWritten
      <4>2. session[q] <= listed[got[r].user].until /\ q \in listed[got[r].user].ids
        BY <1>2, <4>1 DEF ListsInv, ListKnown
      <4>3. session[q] \in Int /\ listed[got[r].user].until \in Int
        BY <1>2, <2>1 DEF ListType
      <4> QED BY <1>2, <2>1, <4>1, <4>2, <4>3
    <3> QED BY <3>1, <3>2
  <2>4. ASSUME NEW s \in SIGN_INS, NEW q \in SIGN_INS PROVE ListsRaced(s, q)'
    BY <1>2, <1>3, <2>1 DEF ListsInv, ListsRaced, ListsWritten
  <2> QED BY <2>2, <2>3, <2>4 DEF ListsInv
<1>5. CASE place = "issued"
  <2>1. /\ at[r] = "listing" /\ got[r].user \in USERS /\ r \in SIGN_INS /\ got' = got /\ session' = session
        /\ raced' = raced
        /\ listed' = [listed EXCEPT ![got[r].user] = [ids |-> got[r].ids \cup {r}, until |-> now + SESSION_TTL]]
    <3>1. WriteList(r)
      BY <1>1, <1>5 DEF Leads
    <3>2. at[r] = "listing" /\ got[r].user \in USERS /\ r \in SIGN_INS
      BY <1>2, <3>1 DEF WriteList, Move, Placed, SignPlaces
    <3> QED BY <3>1, <3>2 DEF WriteList, Keep
  <2>2. ASSUME NEW q \in SIGN_INS PROVE (session[q] <= now + SESSION_TTL /\ ListKnown(q))'
    <3>1. session[q] <= now + SESSION_TTL /\ session[q] \in Int
      BY <1>2 DEF ListsInv
    <3>2. /\ listed'[got[r].user].ids = got[r].ids \cup {r} /\ listed'[got[r].user].until = now + SESSION_TTL
          /\ \A u \in USERS \ {got[r].user} : listed'[u] = listed[u]
      BY <1>2, <2>1
    <3>3. CASE q = r
      BY <1>2, <2>1, <3>1, <3>2, <3>3 DEF ListKnown
    <3>4. CASE q # r
      <4> SUFFICES ASSUME at'[q] = "issued", q \notin raced'
                   PROVE  /\ session[q] <= listed'[got[q].user].until
                          /\ now < session[q] => q \in listed'[got[q].user].ids
        BY <1>2, <2>1, <3>1 DEF ListKnown
      <4>1. at[q] = "issued" /\ q \notin raced /\ got[q].user \in USERS
        BY <1>3, <2>1, <3>4 DEF SessionsInv, Issuance, Placed, SignPlaces, SIGN_INS
      <4>2. CASE got[q].user = got[r].user
        <5>1. now < session[q] => q \in got[r].ids
          BY <1>2, <2>1, <4>1, <4>2 DEF ListsInv, ListCarried
        <5> QED BY <3>1, <3>2, <4>2, <5>1
      <4>3. CASE got[q].user # got[r].user
        BY <1>2, <3>2, <4>1, <4>3 DEF ListsInv, ListKnown
      <4> QED BY <4>2, <4>3
    <3> QED BY <3>3, <3>4
  <2>3. ASSUME NEW s \in SIGN_INS, NEW q \in SIGN_INS PROVE ListCarried(s, q)'
    <3> SUFFICES ASSUME at'[s] = "listing", at'[q] = "issued", q \notin raced', got[s].user = got[q].user,
                        now < session[q]
                 PROVE  q \in got[s].ids
      BY <1>2, <2>1 DEF ListCarried
    <3>1. s # r /\ at[s] = "listing"
      BY <1>2, <1>3, <1>5
    <3>2. q # r
      BY <1>2, <2>1, <3>1 DEF ListsInv, ListsRaced
    <3> QED BY <1>2, <1>3, <2>1, <3>1, <3>2 DEF ListsInv, ListCarried
  <2>4. ASSUME NEW s \in SIGN_INS, NEW q \in SIGN_INS PROVE ListsRaced(s, q)'
    BY <1>2, <1>3, <1>5, <2>1 DEF ListsInv, ListsRaced
  <2> QED BY <2>2, <2>3, <2>4 DEF ListsInv
<1>6. CASE place \notin {"listing", "issued"}
  <2>1. listed' = listed /\ raced \subseteq raced'
    BY <1>2, <1>6 DEF ListsWritten
  <2>2. ASSUME NEW q \in SIGN_INS PROVE (session[q] <= now + SESSION_TTL /\ ListKnown(q))'
    <3>1. CASE q = r
      <4>1. session'[r] = session[r] \/ session'[r] = now + SESSION_TTL
        BY <1>2, <3>1 DEF ListsWritten
      <4> QED BY <1>2, <1>6, <3>1, <4>1 DEF ListsInv, ListKnown
    <3>2. CASE q # r
      BY <1>2, <1>3, <2>1, <3>2 DEF ListsInv, ListKnown
    <3> QED BY <3>1, <3>2
  <2>3. ASSUME NEW s \in SIGN_INS, NEW q \in SIGN_INS PROVE ListCarried(s, q)'
    BY <1>2, <1>3, <1>6, <2>1 DEF ListsInv, ListCarried
  <2>4. ASSUME NEW s \in SIGN_INS, NEW q \in SIGN_INS PROVE ListsRaced(s, q)'
    BY <1>2, <1>3, <1>6, <2>1 DEF ListsInv, ListsRaced
  <2> QED BY <2>2, <2>3, <2>4 DEF ListsInv
<1> QED BY <1>4, <1>5, <1>6

LEMMA StepKeeps ==
    ASSUME SessionsInv, NEW r \in REQUESTS, Step(r)
    PROVE  SessionsInv'
BY StepTypes, StepClock, StepIssuance, StepNames, StepTokensInv, StepRoles, StepLists DEF SessionsInv

-----------------------------------------------------------------------------
(* Time passes: what was so at a time stays so, and what is under way is not  *)
(* yet LATENCY old.                                                           *)

LEMMA TickKeeps ==
    ASSUME SessionsInv, Tick
    PROVE  SessionsInv'
<1> USE Lives
<1>1. /\ now \in Nat /\ now' = now + 1 /\ IDENTIFIER_TTL \in Nat
      /\ Types /\ Clock /\ Issuance /\ NamesInv /\ TokensInv /\ RolesInv /\ ListsInv
  BY SessionsAssumption DEF SessionsInv, Types, Tick
<1>2. /\ at' = at /\ began' = began /\ got' = got /\ decided' = decided
      /\ memoryName' = memoryName /\ sharedName' = sharedName /\ late' = late
  BY DEF Tick, requests, names
<1>3. /\ row' = row /\ disturbed' = disturbed /\ changed' = changed
      /\ session' = session /\ listed' = listed /\ token' = token /\ raced' = raced
  BY DEF Tick, rows, sessions
<1>4. /\ memoryToken' = memoryToken /\ sharedToken' = sharedToken /\ roleCache' = roleCache
      /\ blackRow' = blackRow /\ blackCache' = blackCache
  BY DEF Tick, guard
<1>5. Types'
  BY <1>1, <1>2, <1>3, <1>4 DEF Types, TypesRequests, TypesNames, TypesTokens
<1>6. Clock'
  <2>1. ASSUME NEW r \in REQUESTS PROVE InTime(r)'
    <3>1. InTime(r) /\ began[r] \in Int /\ decided[r] \in Int /\ (Active(r) => now - began[r] < LATENCY)
      BY <1>1 DEF Clock, Tick, Types, TypesRequests
    <3> QED BY <1>1, <1>2, <3>1 DEF InTime, Active
  <2>2. ASSUME NEW w \in late PROVE w.since <= now + 1 /\ now + 1 <= w.since + LATENCY
    <3>1. w.since \in Int /\ w.since <= now /\ now - w.since < LATENCY
      BY <1>1 DEF Clock, Tick, Types, TypesNames, LateName, LateToken
    <3> QED BY <1>1, <3>1
  <2>3. \A n \in NAMES : disturbed[n] \in Int /\ disturbed[n] <= now
    BY <1>1 DEF Clock, Types, TypesNames
  <2>4. \A u \in USERS : changed[u] \in Int /\ changed[u] <= now
    BY <1>1 DEF Clock, Types, TypesNames
  <2> QED BY <1>1, <1>2, <1>3, <2>1, <2>2, <2>3, <2>4 DEF Clock
<1>7. Issuance'
  BY <1>1, <1>2, <1>3 DEF Issuance, Placed
<1>8. NamesInv'
  <2>1. ASSUME NEW n \in NAMES, NEW entry \in EntryType, NEW grace, NameKnown(entry, n, grace)
        PROVE  entry # NoEntry =>
                  /\ entry.user \in USERS /\ entry.until <= now + 1 + IDENTIFIER_TTL
                  /\ NameSince(n, entry.user, entry.until - grace)
    BY <1>1, <2>1 DEF NameKnown, EntryType
  <2>2. \A n \in NAMES : memoryName[n] \in EntryType /\ sharedName[n] \in EntryType
    BY <1>1 DEF Types, TypesNames
  <2>3. \A n \in NAMES : NameKnown(memoryName[n], n, NameGrace)'
    BY <1>1, <1>2, <1>3, <2>1, <2>2 DEF NamesInv, NameKnown, NameSince
  <2>4. \A n \in NAMES : NameKnown(sharedName[n], n, IDENTIFIER_TTL + 2 * LATENCY)'
    BY <1>1, <1>2, <1>3, <2>1, <2>2 DEF NamesInv, NameKnown, NameSince
  <2>5. \A r \in REQUESTS : Looked(r)'
    BY <1>1, <1>2, <1>3 DEF NamesInv, Looked, NameSince
  <2> QED BY <1>1, <1>2, <1>3, <2>3, <2>4, <2>5 DEF NamesInv, NameSince
<1>9. TokensInv'
  <2>1. \A t \in TOKENS : memoryToken[t].until \in Int /\ sharedToken[t].until \in Int
    BY <1>1 DEF Types, TypesTokens, EntryType
  <2>2. \A r \in REQUESTS : Let(r)'
    BY <1>1, <1>2, <1>3 DEF TokensInv, Let
  <2>3. \A t, role, until, grace : TokenKnown(t, role, until, grace) => TokenKnown(t, role, until, grace)'
    BY <1>3 DEF TokenKnown
  <2> QED BY <1>1, <1>2, <1>4, <2>1, <2>2, <2>3 DEF TokensInv
<1>10. RolesInv'
  <2>1. \A t \in TOKENS : token[t].until \in Int
    BY <1>1 DEF Types, TypesTokens, EntryType
  <2>2. \A u \in USERS : roleCache[u].until \in Int
    BY <1>1 DEF Types, TypesTokens, EntryType
  <2>3. \A r \in REQUESTS : Ranked(r)'
    BY <1>1, <1>2, <1>3 DEF RolesInv, Ranked, RoleSince
  <2> QED BY <1>1, <1>2, <1>3, <1>4, <2>1, <2>2, <2>3 DEF RolesInv, RoleSince
<1>11. ListsInv'
  <2>1. ASSUME NEW r \in SIGN_INS PROVE (session[r] <= now + SESSION_TTL /\ ListKnown(r))'
    <3>1. session[r] \in Int /\ session[r] <= now + SESSION_TTL /\ ListKnown(r)
      BY <1>1 DEF ListsInv, Types, TypesTokens
    <3> QED BY <1>1, <1>2, <1>3, <3>1 DEF ListKnown
  <2>2. ASSUME NEW s \in SIGN_INS, NEW r \in SIGN_INS PROVE ListCarried(s, r)'
    <3>1. session[r] \in Int /\ ListCarried(s, r)
      BY <1>1 DEF ListsInv, Types, TypesTokens
    <3> QED BY <1>1, <1>2, <1>3, <3>1 DEF ListCarried
  <2>3. \A s, r \in SIGN_INS : ListsRaced(s, r)'
    BY <1>1, <1>2, <1>3 DEF ListsInv, ListsRaced
  <2> QED BY <2>1, <2>2, <2>3 DEF ListsInv
<1> QED BY <1>5, <1>6, <1>7, <1>8, <1>9, <1>10, <1>11 DEF SessionsInv

\* A write that arrives makes the shared cache no more out of date than it was itself,
\* and it is at most LATENCY old.
LEMMA LateWriteKeeps ==
    ASSUME SessionsInv, NEW w \in late, LateWrite(w)
    PROVE  SessionsInv'
<1> USE Lives
<1>1. /\ now \in Nat /\ now' = now /\ IDENTIFIER_TTL \in Nat /\ FOREIGN \in TOKENS
      /\ Types /\ Clock /\ Issuance /\ NamesInv /\ TokensInv /\ RolesInv /\ ListsInv
      /\ late' = late \ {w} /\ w \in LateName \cup LateToken
      /\ memoryName' = memoryName /\ memoryToken' = memoryToken /\ roleCache' = roleCache
      /\ blackRow' = blackRow /\ blackCache' = blackCache
  BY SessionsAssumption DEF SessionsInv, Types, TypesNames, LateWrite, TOKENS
<1>2. /\ at' = at /\ began' = began /\ got' = got /\ decided' = decided
      /\ row' = row /\ disturbed' = disturbed /\ changed' = changed
      /\ session' = session /\ listed' = listed /\ token' = token /\ raced' = raced
  BY DEF LateWrite, requests, rows, sessions
<1>3. /\ sharedName \in [NAMES -> EntryType] /\ sharedToken \in [TOKENS -> EntryType]
      /\ w.since \in Int /\ w.since <= now /\ now <= w.since + LATENCY
      /\ w.user \in USERS \cup {Nobody} /\ w.role \in Roles
  BY <1>1 DEF Types, TypesNames, TypesTokens, Clock, LateName, LateToken
\* What it writes.
<1>4. \/ /\ w \in LateName /\ w.kind = "name" /\ sharedToken' = sharedToken
         /\ sharedName' = [sharedName EXCEPT ![w.key] = Entry(w.user, "none", now + IDENTIFIER_TTL)]
      \/ /\ w \in LateToken /\ w.kind = "token" /\ sharedName' = sharedName
         /\ sharedToken' = [sharedToken EXCEPT ![w.key] = Entry(w.user, w.role, now + CACHE_TTL)]
  BY <1>1 DEF LateWrite, LateName, LateToken, IdentifierLife
<1>5. \A role \in Roles, until \in Int : Entry(w.user, role, until) \in EntryType
  BY <1>3 DEF Entry, EntryType
<1>6. Types'
  <2>1. sharedName' \in [NAMES -> EntryType] /\ sharedToken' \in [TOKENS -> EntryType]
    BY <1>1, <1>3, <1>4, <1>5 DEF Roles
  <2> QED BY <1>1, <1>2, <2>1 DEF Types, TypesRequests, TypesNames, TypesTokens
<1>7. Clock'
  BY <1>1, <1>2 DEF Clock, InTime, Active
<1>8. Issuance'
  BY <1>1, <1>2 DEF Issuance, Placed
<1>9. NamesInv'
  <2>1. ASSUME NEW n \in NAMES PROVE NameKnown(sharedName[n], n, IDENTIFIER_TTL + 2 * LATENCY)'
    <3>1. CASE sharedName'[n] = sharedName[n]
      BY <1>1, <1>2, <3>1 DEF NamesInv, NameKnown, NameSince
    <3>2. CASE w.kind = "name" /\ w.key = n /\ sharedName'[n] = Entry(w.user, "none", now + IDENTIFIER_TTL)
      <4>1. w.user \in USERS /\ (row[w.user].name = n \/ w.since - LATENCY <= disturbed[n])
        BY <1>1, <3>2 DEF NamesInv, NameSince
      <4>2. disturbed[n] \in Int
        BY <1>1 DEF Types, TypesNames
      <4>3. now + IDENTIFIER_TTL - (IDENTIFIER_TTL + 2 * LATENCY) <= w.since - LATENCY
        BY <1>1, <1>3
      <4> QED BY <1>1, <1>2, <1>3, <3>2, <4>1, <4>2, <4>3 DEF NameKnown, NameSince, Entry
    <3> QED BY <1>3, <1>4, <3>1, <3>2
  <2>2. \A n \in NAMES : NameKnown(memoryName[n], n, NameGrace)'
    BY <1>1, <1>2 DEF NamesInv, NameKnown, NameSince
  <2>3. \A r \in REQUESTS : Looked(r)'
    BY <1>1, <1>2 DEF NamesInv, Looked, NameSince
  <2> QED BY <1>1, <1>2, <2>1, <2>2, <2>3 DEF NamesInv, NameSince
<1>10. TokensInv'
  <2>1. ASSUME NEW t \in TOKENS, sharedToken'[t] # NoEntry
        PROVE  /\ sharedToken'[t].until <= now + CACHE_TTL
               /\ TokenKnown(t, sharedToken[t].role, sharedToken[t].until, CACHE_TTL + 2 * LATENCY - 1)'
    <3>1. CASE sharedToken'[t] = sharedToken[t]
      BY <1>1, <1>2, <2>1, <3>1 DEF TokensInv, TokenKnown
    <3>2. CASE w.kind = "token" /\ w.key = t /\ sharedToken'[t] = Entry(w.user, w.role, now + CACHE_TTL)
      <4>1. token[t] # NoEntry /\ w.since <= token[t].until + LATENCY - 1 /\ (t # FOREIGN => w.role = token[t].role)
        BY <1>1, <3>2 DEF TokensInv, TokenKnown
      <4>2. token[t].until \in Int
        BY <1>1 DEF Types, TypesTokens, EntryType
      <4>3. now + CACHE_TTL <= token[t].until + (CACHE_TTL + 2 * LATENCY - 1)
        BY <1>1, <1>3, <4>1, <4>2
      <4> QED BY <1>1, <1>2, <3>2, <4>1, <4>3 DEF TokenKnown, Entry
    <3> QED BY <1>3, <1>4, <3>1, <3>2
  <2>2. \A r \in REQUESTS : Let(r)'
    BY <1>1, <1>2 DEF TokensInv, Let
  <2> QED BY <1>1, <1>2, <2>1, <2>2 DEF TokensInv, TokenKnown
<1>11. RolesInv'
  <2>1. RoleSince(ForeignUser, sharedToken[FOREIGN].role,
                  sharedToken[FOREIGN].until - ROLE_TTL - CACHE_TTL - 2 * LATENCY + 1)'
    <3>1. CASE sharedToken'[FOREIGN] = sharedToken[FOREIGN]
      BY <1>1, <1>2, <3>1 DEF RolesInv, RoleSince
    <3>2. CASE /\ w.kind = "token" /\ w.key = FOREIGN
               /\ sharedToken'[FOREIGN] = Entry(w.user, w.role, now + CACHE_TTL)
      <4>1. w.role = "admin" =>
               row[ForeignUser].role = "admin" \/ w.since - ROLE_TTL - LATENCY + 1 <= changed[ForeignUser]
        BY <1>1, <3>2 DEF RolesInv, RoleSince
      <4>2. changed[ForeignUser] \in Int
        BY <1>1, SessionsAssumption DEF Types, TypesNames, ForeignUser
      <4>3. sharedToken'[FOREIGN].role = w.role /\ sharedToken'[FOREIGN].until = now + CACHE_TTL
        BY <3>2 DEF Entry
      <4>4. sharedToken'[FOREIGN].until - ROLE_TTL - CACHE_TTL - 2 * LATENCY + 1 <= w.since - ROLE_TTL - LATENCY + 1
        BY <1>1, <1>3, <4>3
      <4>5. w.role = "admin" =>
               \/ row[ForeignUser].role = "admin"
               \/ sharedToken'[FOREIGN].until - ROLE_TTL - CACHE_TTL - 2 * LATENCY + 1 <= changed[ForeignUser]
        BY <1>1, <1>3, <4>1, <4>2, <4>3, <4>4
      <4> QED BY <1>2, <4>3, <4>5 DEF RoleSince
    <3> QED BY <1>1, <1>3, <1>4, <3>1, <3>2
  <2>2. \A r \in REQUESTS : Ranked(r)'
    BY <1>1, <1>2 DEF RolesInv, Ranked, RoleSince
  <2> QED BY <1>1, <1>2, <2>1, <2>2 DEF RolesInv, RoleSince
<1>12. ListsInv'
  BY <1>1, <1>2 DEF ListsInv, ListKnown, ListCarried, ListsRaced
<1> QED BY <1>6, <1>7, <1>8, <1>9, <1>10, <1>11, <1>12 DEF SessionsInv

LEMMA StutterKeeps == SessionsInv /\ UNCHANGED vars => SessionsInv'
<1> SUFFICES ASSUME SessionsInv, UNCHANGED vars PROVE SessionsInv'
  OBVIOUS
<1>1. /\ now' = now /\ at' = at /\ began' = began /\ got' = got /\ decided' = decided
      /\ row' = row /\ disturbed' = disturbed /\ changed' = changed
      /\ memoryName' = memoryName /\ sharedName' = sharedName /\ late' = late
      /\ session' = session /\ listed' = listed /\ token' = token /\ raced' = raced
      /\ memoryToken' = memoryToken /\ sharedToken' = sharedToken /\ roleCache' = roleCache
      /\ blackRow' = blackRow /\ blackCache' = blackCache
  BY DEF vars, requests, rows, names, sessions, guard
<1>2. Types'
  BY <1>1 DEF SessionsInv, Types, TypesRequests, TypesNames, TypesTokens
<1>3. (Clock /\ Issuance)'
  BY <1>1 DEF SessionsInv, Clock, InTime, Active, Issuance, Placed
<1>4. NamesInv'
  BY <1>1 DEF SessionsInv, NamesInv, NameKnown, NameSince, Looked
<1>5. TokensInv'
  BY <1>1 DEF SessionsInv, TokensInv, TokenKnown, Let
<1>6. RolesInv'
  BY <1>1 DEF SessionsInv, RolesInv, RoleSince, Ranked
<1>7. ListsInv'
  BY <1>1 DEF SessionsInv, ListsInv, ListKnown, ListCarried, ListsRaced
<1> QED BY <1>2, <1>3, <1>4, <1>5, <1>6, <1>7 DEF SessionsInv

LEMMA SessionsInductive == SessionsInv /\ [Next]_vars => SessionsInv'
BY StepKeeps, TickKeeps, LateWriteKeeps, StutterKeeps DEF Next

-----------------------------------------------------------------------------

\* The state of the service is well typed in every history, and all that the invariant
\* says of names, tokens, roles and lists is so.
THEOREM SessionsKept == Spec => []SessionsInv
<1>1. Init => SessionsInv
  BY InitSessions
<1>2. SessionsInv /\ [Next]_vars => SessionsInv'
  BY SessionsInductive
<1> QED BY <1>1, <1>2, PTL DEF Spec

\* Once a name has been its owner's, undisturbed, for twice the lifetime of the caches
\* and three times LATENCY, the right password for it is never called wrong
\* (auth.service.ts, getIdentifierFromSharedCache and warmAuthCaches).
THEOREM RightfulOwnerRefused == Spec => []RightfulOwnerRefusedBriefly
<1>1. SessionsInv => RightfulOwnerRefusedBriefly
  <2> SUFFICES ASSUME SessionsInv, NEW r \in REQUESTS,
                      at[r] = "wrong", KIND[r] = "name", row[PERSON[r]].name = NAME[r]
               PROVE  decided[r] <= disturbed[NAME[r]] + 2 * IDENTIFIER_TTL + 3 * LATENCY - 1
    BY DEF RightfulOwnerRefusedBriefly
  <2>1. decided[r] <= disturbed[NAME[r]] + NameGrace + LATENCY
    BY DEF SessionsInv, NamesInv, Looked
  <2>2. /\ decided[r] \in Int /\ disturbed[NAME[r]] \in Int
        /\ IDENTIFIER_TTL \in Nat /\ LATENCY \in Nat
    BY SessionsAssumption DEF SessionsInv, Types, TypesRequests, TypesNames
  <2> QED BY <2>1, <2>2 DEF NameGrace
<1> QED BY <1>1, SessionsKept, PTL

\* No request is let through on a token later than twice the lifetime of the guard's
\* caches, and two LATENCY less two ticks, after the token's end (auth.guard.ts,
\* getCachedUser and the shared cache's auth:token).
THEOREM GraceBounded == Spec => []GraceIsBounded
<1>1. SessionsInv => GraceIsBounded
  <2> SUFFICES ASSUME SessionsInv, NEW r \in REQUESTS, at[r] \in {"admitted", "allowed", "forbidden"}
               PROVE  decided[r] <= token[TOKEN[r]].until + 2 * CACHE_TTL + 2 * LATENCY - 2
                         + IF at[r] = "admitted" THEN 0 ELSE LATENCY
    BY DEF GraceIsBounded
  <2>1. Let(r) /\ decided[r] \in Int /\ token[TOKEN[r]].until \in Int
    BY SessionsAssumption DEF SessionsInv, TokensInv, Types, TypesRequests, TypesTokens, EntryType
  <2> QED BY <2>1, Lives DEF Let
<1> QED BY <1>1, SessionsKept, PTL

\* Whoever is let through as an administrator was one until no longer ago than a role
\* can be remembered (auth.guard.ts, hydrateUserRole; roles.guard.ts).
THEOREM RoleRecent == Spec => []RoleIsRecent
<1>1. SessionsInv => RoleIsRecent
  <2> SUFFICES ASSUME SessionsInv, NEW r \in REQUESTS, at[r] = "allowed",
                      row[token[TOKEN[r]].user].role # "admin"
               PROVE  decided[r] <= changed[token[TOKEN[r]].user] + 2 * CACHE_TTL + 3 * LATENCY - 2
                         + IF TOKEN[r] = FOREIGN THEN ROLE_TTL ELSE ACCESS_TTL + LATENCY
    BY DEF RoleIsRecent
  <2>1. token[TOKEN[r]].user \in USERS
    BY TokenTypes DEF SessionsInv, Issuance, Placed, GuardPlaces
  <2>2. decided[r] \in Int /\ changed[token[TOKEN[r]].user] \in Int
    BY <2>1 DEF SessionsInv, Types, TypesRequests, TypesNames
  <2>3. decided[r] - RoleGrace(TOKEN[r]) - LATENCY <= changed[token[TOKEN[r]].user]
    BY DEF SessionsInv, RolesInv, Ranked, RoleSince
  <2> QED BY <2>2, <2>3, Lives
<1> QED BY <1>1, SessionsKept, PTL

\* A session that was signed in undisturbed stays in its user's list while it lives, however
\* many others sign in before and after (auth-session.service.ts, addToUserSessions).
THEOREM LiveListed == Spec => []LiveSessionsListed
<1>1. SessionsInv => LiveSessionsListed
  <2> SUFFICES ASSUME SessionsInv, NEW r \in SIGN_INS, at[r] = "issued", r \notin raced, now < session[r]
               PROVE  r \in listed[got[r].user].ids /\ now < listed[got[r].user].until
    BY DEF LiveSessionsListed
  <2>1. session[r] <= listed[got[r].user].until /\ r \in listed[got[r].user].ids
    BY DEF SessionsInv, ListsInv, ListKnown
  <2>2. got[r].user \in USERS
    BY DEF SessionsInv, Issuance, Placed, SignPlaces, SIGN_INS
  <2>3. now \in Int /\ session[r] \in Int /\ listed[got[r].user].until \in Int
    BY <2>2 DEF SessionsInv, Types, TypesTokens, ListType
  <2> QED BY <2>1, <2>3
<1> QED BY <1>1, SessionsKept, PTL

=============================================================================
