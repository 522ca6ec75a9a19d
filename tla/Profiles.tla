------------------------------- MODULE Profiles -------------------------------
(***************************************************************************)
(* The name and the picture of one user, who signs in with a provider that *)
(* has a picture of its own: ProfileService's reads and changes of the     *)
(* profile with its caches, the tasks a read leaves behind (validate, sync *)
(* and warm), and SupabaseService's copy of the provider's picture into    *)
(* the storage and its upsert of the profile at a sign-in.                 *)
(*                                                                         *)
(* A cached profile is an object that the tasks of several requests share  *)
(* and write in place.  Nothing in the code removes a stored picture.      *)
(***************************************************************************)
EXTENDS Integers, Sequences

CONSTANTS
    PROCESSES, REQUESTS,
    PLANS,          \* the jobs that are done together, functions REQUESTS -> Job, and the
                    \* name and the picture at the start
    NAMES,
    GIVEN,          \* the name and
    FOREIGN,        \* the picture that the provider has
    COPY,           \* the copy of that picture in the storage
    GOOGLE,         \* whether login_type is google
    FAILING,        \* processes whose calls out may fail
    MEMORY_TTL, REDIS_TTL, AVATAR_TTL,
    LATENCY, HORIZON,       \* bounds of the model
    NoName, NoPicture

KINDS == {"me", "member", "patch", "signIn", "none"}
Job == [kind : KINDS, process : PROCESSES, name : NAMES]
PATCHES == {r \in REQUESTS : \E plan \in PLANS : plan.jobs[r].kind = "patch"}
\* An upload is named after the request that makes it.
STORED == {COPY} \cup PATCHES
PICTURES == STORED \cup {FOREIGN, NoPicture}

ASSUME ProfilesAssumption ==
    /\ PLANS \subseteq [jobs : [REQUESTS -> Job], own : [name : NAMES, picture : PICTURES]]
    /\ FAILING \subseteq PROCESSES /\ GIVEN \in NAMES /\ NoName \notin NAMES

VARIABLES
    now, job, at, began,
    got,        \* the picture a request answers, or the row a sign-in has read
    sync, sight,            \* the tasks a request has left behind: syncGoogleAvatarIfNeeded
    clear,                  \* of whose object, validateStorageAvatar
    warm,                   \* and warmAvatarFromStorage, with the picture it has found
    taskBegan,
    row,        \* profiles: name and avatar_url
    storage,    \* the stored pictures in the order of their creation
    object,     \* the profile each request has made
    memory,     \* profileCache: whose object, of each process
    redis,      \* profile:<id>
    picture,    \* avatar:<id>
    stored,     \* storageAvatarCache of each process
    mirror,     \* avatarMirrorPromises of each process
    touched     \* history: when the user or a sign-in last changed the profile, or a task last
                \* put an object into the caches

requests == <<job, at, began, got>>
tasks == <<sync, sight, clear, warm, taskBegan>>
caches == <<object, memory, redis, picture, stored>>
tables == <<row, storage>>
vars == <<now, requests, tasks, tables, caches, mirror, touched>>

Kind(r) == job[r].kind
Here(r) == job[r].process
Busy(r) == at[r] \notin {"new", "shown", "over"}
Tasks(r) == sync[r] # "none" \/ clear[r] \/ warm[r].stage # "none"

Profile == [name : NAMES \cup {NoName}, picture : PICTURES]
Blank == [name |-> NoName, picture |-> NoPicture]
NoMemory == [of |-> "nobody", until |-> -1]
NoProfile == [profile |-> Blank, until |-> -1]
NoCache == [picture |-> NoPicture, until |-> -1]
NoWarm == [stage |-> "none", picture |-> NoPicture]

Init ==
    /\ now = 0
    /\ \E plan \in PLANS :
          /\ job = plan.jobs
          /\ row = plan.own
          /\ storage = IF plan.own.picture \in STORED THEN <<plan.own.picture>> ELSE <<>>
    /\ at = [r \in REQUESTS |-> "new"]
    /\ began = [r \in REQUESTS |-> 0]
    /\ got = [r \in REQUESTS |-> Blank]
    /\ sync = [r \in REQUESTS |-> "none"]
    /\ sight = [r \in REQUESTS |-> r]
    /\ clear = [r \in REQUESTS |-> FALSE]
    /\ warm = [r \in REQUESTS |-> NoWarm]
    /\ taskBegan = [r \in REQUESTS |-> 0]
    /\ object = [r \in REQUESTS |-> Blank]
    /\ memory = [p \in PROCESSES |-> NoMemory]
    /\ redis = NoProfile
    /\ picture = NoCache
    /\ stored = [p \in PROCESSES |-> NoCache]
    /\ mirror = [p \in PROCESSES |-> "none"]
    /\ touched = -HORIZON

Alive(entry, none) == IF entry.until < now + 1 THEN none ELSE entry
Used(r) == \/ \E p \in PROCESSES : memory'[p].of = r
           \/ \E s \in REQUESTS : sync[s] # "none" /\ sight[s] = r

\* No request, and none of its tasks, takes longer than LATENCY.  Time ends when there is
\* nothing left to do, and what has expired or is over is as good as gone.
Tick ==
    /\ now < HORIZON
    /\ \E r \in REQUESTS : at[r] # "new"
    /\ \E r \in REQUESTS : Kind(r) # "none" /\ (at[r] = "new" \/ Busy(r) \/ Tasks(r))
    /\ \A r \in REQUESTS : /\ Busy(r) => now - began[r] < LATENCY
                           /\ Tasks(r) => now - taskBegan[r] < LATENCY
    /\ now' = now + 1
    /\ memory' = [p \in PROCESSES |-> Alive(memory[p], NoMemory)]
    /\ stored' = [p \in PROCESSES |-> Alive(stored[p], NoCache)]
    /\ redis' = Alive(redis, NoProfile)
    /\ picture' = Alive(picture, NoCache)
    /\ at' = [r \in REQUESTS |-> IF at[r] = "shown" THEN "over" ELSE at[r]]
    /\ got' = [r \in REQUESTS |-> IF Busy(r) THEN got[r] ELSE Blank]
    /\ object' = [r \in REQUESTS |-> IF Busy(r) \/ Tasks(r) \/ Used(r) THEN object[r] ELSE Blank]
    /\ sight' = [r \in REQUESTS |-> IF sync[r] = "none" THEN r ELSE sight[r]]
    /\ taskBegan' = [r \in REQUESTS |-> IF Tasks(r) THEN taskBegan[r] ELSE 0]
    /\ UNCHANGED <<job, began, sync, clear, warm, tables, mirror, touched>>

Goto(r, place) ==
    /\ UNCHANGED <<now, job>>
    /\ at' = [at EXCEPT ![r] = place]
    /\ began' = [began EXCEPT ![r] = IF place \in {"shown", "over"} THEN 0
                                     ELSE IF at[r] = "new" THEN now ELSE @]
Carry(r, profile) == got' = [got EXCEPT ![r] = profile]

IsStored(p) == p \in STORED
Newest == IF storage = <<>> THEN NoPicture ELSE storage[Len(storage)]
\* An upload under a name that exists is not a newer picture.
Store(p) == storage' = IF \E i \in DOMAIN storage : storage[i] = p THEN storage ELSE Append(storage, p)

Cached(profile) == [profile |-> profile, until |-> now + REDIS_TTL]
Held(p) == [picture |-> p, until |-> now + AVATAR_TTL]

\* Mutant: a profile in memory never dies.
MemoryLifeLong == 1000 * MEMORY_TTL

MemoryLife == MEMORY_TTL

Remember(r, of) == memory' = [memory EXCEPT ![Here(r)] = [of |-> of, until |-> now + MemoryLife]]

-----------------------------------------------------------------------------
(* getProfileQuick, as GET /profile/me calls it.  What has been read leaves  *)
(* two tasks behind: one looks for the picture in the storage, the other     *)
(* copies the provider's picture there.                                      *)

\* Mutant: a profile whose picture is stored is synchronised as well.
SyncsAlways(p) == TRUE

\* syncGoogleAvatarIfNeeded: the picture, as it is in the object, is not a stored one.
Syncs(p) == ~IsStored(p)

\* A stored picture is there; any other is not, which validateStorageAvatar knows at once:
\* the picture leaves the object before the answer is made of it, and the row afterwards.
Validated(p) == IF IsStored(p) THEN p ELSE NoPicture
Clears(p) == p = FOREIGN

Leave(r, of, syncs, clears) ==
    /\ sync' = [sync EXCEPT ![r] = IF syncs THEN "asking" ELSE @]
    /\ sight' = [sight EXCEPT ![r] = IF syncs THEN of ELSE @]
    /\ clear' = [clear EXCEPT ![r] = clears]
    /\ taskBegan' = [taskBegan EXCEPT ![r] = IF syncs \/ clears THEN now ELSE @]
    /\ UNCHANGED warm

\* The controller looks into the storage for a picture the profile does not have.
Answer(r, profile) ==
    /\ Goto(r, IF profile.picture = NoPicture THEN "fetching" ELSE "shown")
    /\ Carry(r, profile)

ReadMemory(r) ==
    /\ Kind(r) = "me" /\ at[r] = "new"
    /\ LET known == memory[Here(r)] IN
       IF now > known.until THEN Goto(r, "redis") /\ UNCHANGED <<got, tasks>>
       ELSE /\ Answer(r, object[known.of])
            /\ Leave(r, known.of, Syncs(object[known.of].picture), FALSE)
    /\ UNCHANGED <<tables, caches, mirror, touched>>

\* A profile that has been read, from Redis or from the row, becomes the process's object.
Take(r, profile, fresh) ==
    LET valid == [profile EXCEPT !.picture = Validated(@)]
        clears == Clears(profile.picture) IN
    /\ object' = [object EXCEPT ![r] = valid]
    /\ Remember(r, r)
    /\ redis' = IF fresh \/ clears THEN Cached(valid) ELSE redis
    /\ touched' = IF ~fresh /\ clears THEN now ELSE touched
    /\ Answer(r, valid)
    /\ Leave(r, r, Syncs(profile.picture), clears)
    /\ UNCHANGED <<tables, picture, stored, mirror>>

ReadRedis(r) ==
    /\ at[r] = "redis"
    /\ IF now <= redis.until THEN Take(r, redis.profile, FALSE)
       ELSE Goto(r, "row") /\ UNCHANGED <<got, tasks, tables, caches, mirror, touched>>

ReadRow(r) ==
    /\ at[r] = "row"
    /\ Goto(r, "loaded") /\ Carry(r, row)
    /\ UNCHANGED <<tasks, tables, caches, mirror, touched>>

Load(r) == at[r] = "loaded" /\ Take(r, got[r], TRUE)

\* clearAvatarUrl, for a picture that the row had when it was read.
ClearRow(r) ==
    /\ clear[r]
    /\ clear' = [clear EXCEPT ![r] = FALSE]
    /\ row' = [row EXCEPT !.picture = NoPicture] \/ (Here(r) \in FAILING /\ UNCHANGED row)
    /\ UNCHANGED <<now, requests, sync, sight, warm, taskBegan, storage, caches, mirror, touched>>

-----------------------------------------------------------------------------
(* The copy of the provider's picture: ensureProfileAvatar makes one at a    *)
(* time, mirrorProfileAvatar uploads it and writes it to the row; if either  *)
(* fails, it writes the provider's picture, and nothing if that fails too.   *)

Mirroring(r) == [mirror EXCEPT ![Here(r)] = IF @ = "none" THEN "copying" ELSE @]

\* A task asks for the type of the login and the provider's picture.
AskProvider(r) ==
    /\ sync[r] = "asking"
    /\ \/ /\ GOOGLE
          /\ sync' = [sync EXCEPT ![r] = "waiting"]
          /\ mirror' = Mirroring(r)
       \/ /\ ~GOOGLE \/ Here(r) \in FAILING
          /\ sync' = [sync EXCEPT ![r] = "none"] /\ UNCHANGED mirror
    /\ UNCHANGED <<now, requests, sight, clear, warm, taskBegan, tables, caches, touched>>

Copy(p) ==
    /\ mirror[p] = "copying"
    /\ \/ Store(COPY) /\ mirror' = [mirror EXCEPT ![p] = "copied"]
       \/ p \in FAILING /\ mirror' = [mirror EXCEPT ![p] = "failed"] /\ UNCHANGED storage
    /\ UNCHANGED <<now, requests, tasks, row, caches, touched>>

\* Those who wait learn what has been written, if anything.
Mirrored(p, written) ==
    /\ sync' = [r \in REQUESTS |->
                   IF sync[r] # "waiting" \/ Here(r) # p THEN sync[r]
                   ELSE IF Kind(r) = "signIn" THEN "none" ELSE written]
    /\ mirror' = [mirror EXCEPT ![p] = "none"]

SavePicture(p) ==
    /\ mirror[p] \in {"copied", "failed"}
    /\ \/ /\ row' = [row EXCEPT !.picture = IF mirror[p] = "copied" THEN COPY ELSE FOREIGN]
          /\ Mirrored(p, mirror[p])
       \/ /\ p \in FAILING /\ mirror[p] = "copied"
          /\ mirror' = [mirror EXCEPT ![p] = "failed"] /\ UNCHANGED <<row, sync>>
       \/ /\ p \in FAILING /\ mirror[p] = "failed"
          /\ Mirrored(p, "none") /\ UNCHANGED row
    /\ UNCHANGED <<now, requests, sight, clear, warm, taskBegan, storage, caches, touched>>

\* The object the task was given takes the picture, and the place of whatever is cached now.
Adopt(r) ==
    /\ sync[r] \in {"copied", "failed"}
    /\ sync' = [sync EXCEPT ![r] = "none"]
    /\ LET url == IF sync[r] = "copied" THEN COPY ELSE FOREIGN
           of == sight[r]
           profile == [object[of] EXCEPT !.picture = url] IN
       IF url = object[of].picture THEN UNCHANGED <<caches, touched>>
       ELSE /\ object' = [object EXCEPT ![of] = profile]
            /\ Remember(r, of) /\ redis' = Cached(profile)
            /\ stored' = [stored EXCEPT ![Here(r)] = Held(url)] /\ picture' = Held(url)
            /\ touched' = now
    /\ UNCHANGED <<now, requests, sight, clear, warm, taskBegan, tables, mirror>>

-----------------------------------------------------------------------------
(* fetchAvatarWithTimeout, for GET /profile/me and for the members of a      *)
(* travel, and warmAvatarFromStorage.                                        *)

Shown(r, p) == Goto(r, "shown") /\ got' = [got EXCEPT ![r].picture = p]

\* Redis, then this process, then the storage.
FetchPicture(r) ==
    /\ \/ at[r] = "fetching"
       \/ Kind(r) = "member" /\ at[r] = "new"
    /\ LET known == IF now <= picture.until THEN picture ELSE stored[Here(r)] IN
       IF now > known.until THEN Goto(r, "listing") /\ UNCHANGED <<got, stored>>
       ELSE /\ Shown(r, known.picture)
            /\ stored' = IF now <= picture.until
                         THEN [stored EXCEPT ![Here(r)] = Held(picture.picture)] ELSE stored
    /\ UNCHANGED <<tasks, tables, object, memory, redis, picture, mirror, touched>>

\* The newest stored picture, none, or no answer in time.  What is left is to warm the caches:
\* after a timeout, and for a member who has none.
ListPictures(r) ==
    /\ at[r] = "listing"
    /\ \/ /\ Newest # NoPicture
          /\ Shown(r, Newest)
          /\ stored' = [stored EXCEPT ![Here(r)] = Held(Newest)] /\ picture' = Held(Newest)
          /\ UNCHANGED <<warm, taskBegan>>
       \/ /\ Newest = NoPicture /\ Kind(r) = "me"
          /\ Shown(r, NoPicture) /\ UNCHANGED <<warm, taskBegan, stored, picture>>
       \/ /\ Here(r) \in FAILING \/ (Newest = NoPicture /\ Kind(r) = "member")
          /\ Shown(r, NoPicture) /\ UNCHANGED <<stored, picture>>
          /\ warm' = [warm EXCEPT ![r].stage = "listing"] /\ taskBegan' = [taskBegan EXCEPT ![r] = now]
    /\ UNCHANGED <<sync, sight, clear, tables, object, memory, redis, mirror, touched>>

\* The task looks again.  A look that fails finds nothing.
FindWarm(r) ==
    /\ warm[r].stage = "listing"
    /\ \/ /\ Newest # NoPicture
          /\ warm' = [warm EXCEPT ![r] = [stage |-> "caching", picture |-> Newest]]
       \/ /\ Newest = NoPicture \/ Here(r) \in FAILING
          /\ warm' = [warm EXCEPT ![r] = NoWarm]
    /\ UNCHANGED <<now, requests, sync, sight, clear, taskBegan, tables, caches, mirror, touched>>

\* Where no profile is cached, one without a name is made up.
Warm(r) ==
    /\ warm[r].stage = "caching"
    /\ warm' = [warm EXCEPT ![r].stage = "saving"]
    /\ LET known == memory[Here(r)]
           of == IF now <= known.until THEN known.of ELSE r
           url == warm[r].picture IN
       /\ object' = [object EXCEPT ![of] =
             [name |-> IF now <= known.until THEN @.name ELSE NoName, picture |-> url]]
       /\ Remember(r, of) /\ UNCHANGED redis
       /\ stored' = [stored EXCEPT ![Here(r)] = Held(url)] /\ picture' = Held(url)
    /\ touched' = now
    /\ UNCHANGED <<now, requests, sync, sight, clear, taskBegan, tables, mirror>>

SaveWarm(r) ==
    /\ warm[r].stage = "saving"
    /\ warm' = [warm EXCEPT ![r] = NoWarm]
    /\ row' = [row EXCEPT !.picture = warm[r].picture] \/ (Here(r) \in FAILING /\ UNCHANGED row)
    /\ UNCHANGED <<now, requests, sync, sight, clear, taskBegan, storage, caches, mirror, touched>>

-----------------------------------------------------------------------------
(* updateProfile with a new name and a new picture, and a sign-in.           *)

Upload(r) ==
    /\ Kind(r) = "patch" /\ at[r] = "new"
    /\ Store(r) /\ Goto(r, "saving")
    /\ UNCHANGED <<got, tasks, row, caches, mirror, touched>>

SaveProfile(r) ==
    /\ at[r] = "saving"
    /\ \/ /\ Goto(r, "rereading")
          /\ row' = [name |-> job[r].name, picture |-> r]
          /\ touched' = now
       \/ Here(r) \in FAILING /\ Goto(r, "over") /\ UNCHANGED <<row, touched>>
    /\ UNCHANGED <<got, tasks, storage, caches, mirror>>

ReadSaved(r) ==
    /\ at[r] = "rereading"
    /\ Goto(r, "caching") /\ Carry(r, row)
    /\ UNCHANGED <<tasks, tables, caches, mirror, touched>>

CacheSaved(r) ==
    /\ at[r] = "caching" /\ Goto(r, "dropping")
    /\ object' = [object EXCEPT ![r] = got[r]]
    /\ Remember(r, r)
    /\ LET url == got[r].picture IN
       /\ picture' = IF url = NoPicture THEN NoCache ELSE Held(url)
       /\ stored' = IF url = NoPicture THEN stored ELSE [stored EXCEPT ![Here(r)] = Held(url)]
    /\ UNCHANGED <<got, tasks, tables, redis, mirror, touched>>

\* invalidateUserCache, which nobody waits for, goes from pattern to pattern, the profile's
\* and then the picture's: it asks Redis for the keys and then deletes them.  The new picture's
\* entry goes as well, and so does the index of the user's tokens (EditProfile in SocialLogin).
FindShared(r) ==
    /\ \/ at[r] = "dropping" /\ Goto(r, IF now <= redis.until THEN "dropProfile" ELSE "next")
       \/ at[r] = "next" /\ Goto(r, IF now <= picture.until THEN "dropPicture" ELSE "over")
    /\ UNCHANGED <<got, tasks, tables, caches, mirror, touched>>

DropShared(r) ==
    /\ \/ at[r] = "dropProfile" /\ Goto(r, "next") /\ redis' = NoProfile /\ UNCHANGED picture
       \/ at[r] = "dropPicture" /\ Goto(r, "over") /\ picture' = NoCache /\ UNCHANGED redis
    /\ UNCHANGED <<got, tasks, tables, object, memory, stored, mirror, touched>>

ReadOld(r) ==
    /\ Kind(r) = "signIn" /\ at[r] = "new"
    /\ Goto(r, "upserting") /\ Carry(r, row)
    /\ UNCHANGED <<tasks, tables, caches, mirror, touched>>

\* ensureProfileFromSupabaseUser: what the provider has replaces what the row has, and is
\* copied unless the row had a stored picture.
Upsert(r) ==
    /\ at[r] = "upserting" /\ Goto(r, "over")
    /\ \/ /\ row' = [name |-> GIVEN, picture |-> FOREIGN] /\ touched' = now
          /\ IF IsStored(got[r].picture) THEN UNCHANGED <<sync, taskBegan, mirror>>
             ELSE /\ sync' = [sync EXCEPT ![r] = "waiting"]
                  /\ taskBegan' = [taskBegan EXCEPT ![r] = now]
                  /\ mirror' = Mirroring(r)
       \/ Here(r) \in FAILING /\ UNCHANGED <<row, touched, sync, taskBegan, mirror>>
    /\ UNCHANGED <<got, sight, clear, warm, storage, caches>>

-----------------------------------------------------------------------------

Next ==
    \/ Tick
    \/ \E p \in PROCESSES : Copy(p) \/ SavePicture(p)
    \/ \E r \in REQUESTS :
          \/ ReadMemory(r) \/ ReadRedis(r) \/ ReadRow(r) \/ Load(r)
          \/ ClearRow(r) \/ AskProvider(r) \/ Adopt(r)
          \/ FetchPicture(r) \/ ListPictures(r)
          \/ FindWarm(r) \/ Warm(r) \/ SaveWarm(r)
          \/ Upload(r) \/ SaveProfile(r) \/ ReadSaved(r) \/ CacheSaved(r)
          \/ FindShared(r) \/ DropShared(r) \/ ReadOld(r) \/ Upsert(r)

Spec == Init /\ [][Next]_vars

-----------------------------------------------------------------------------
(* Properties.                                                                *)

CACHED_AGE == 2 * LATENCY + REDIS_TTL + MEMORY_TTL
Took(r) == /\ Kind(r) = "me" /\ at[r] \in {"new", "redis", "loaded"}
           /\ at'[r] \in {"fetching", "shown"}

\* A name that has been changed is shown for as long as the caches keep it, in Redis and then
\* in the memory of a process, which nobody tells; a task that puts its object, with the old
\* name, into the caches begins that time anew, and nothing else does.
\* profile.service.ts:196 getProfileQuick, and the tasks at :257, :274 and :654.
OldNameKeptByTasks ==
    [][\A r \in REQUESTS :
          Took(r) /\ got'[r].name \notin {row.name, NoName}
          => now - touched <= CACHED_AGE]_vars

\* A picture that the user has uploaded, once for as long as the caches remember an older one
\* nobody has changed the profile and no task has put an object into the caches, is replaced
\* by the user or a sign-in and by no task: the tasks write to the row because of what they
\* saw, or copied, before.
\* profile.service.ts:274 syncGoogleAvatarIfNeeded, supabaseService.ts:477 mirrorProfileAvatar.
UploadSettles ==
    [][/\ row.picture \in PATCHES /\ row'.picture # row.picture
       /\ \A r \in REQUESTS : Kind(r) \in {"patch", "signIn"} => at'[r] = at[r]
       => now - touched <= CACHED_AGE]_vars

\* No picture is taken off a profile that is still where it was: only a picture that the
\* storage says is not there (404) is.
\* supabaseService.ts:420, a comment in storageAvatarExists.
OnlyMissingPicturesCleared ==
    [][row.picture # NoPicture => row'.picture # NoPicture]_vars

=============================================================================
