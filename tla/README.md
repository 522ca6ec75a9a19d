# SseudamBackend: a verification project

SseudamBackend is the server of an application in which people who travel together
record what they spent, and learn who owes whom. It is a NestJS application (TypeScript,
Node) over PostgreSQL, with Redis as a cache, Supabase for users and files, and Bull for
queues. These modules model the parts in which a wrong interleaving, a failed statement
or a rounding would cost a group of friends its accounts. TLC checks them on small
instances, and TLAPS proves what matters most for every instance.

Paths below are relative to the repository; `modules/` is `src/modules/`.

## 1. The system

All requests of a process share one thread: code between two `await`s is not
interrupted, and at every `await` any other request may run. Several processes may run
against one database and one Redis. PostgreSQL runs at READ COMMITTED.

| Component | State | Operations | Interacts with |
|---|---|---|---|
| Settlement (`modules/travel-settlement`) | `travel_settlements` with `version` and `status`, `settlement_audit_logs`; the caches `settlement:summary` and `settlement:idempotency` | read the summary, save a computed plan, complete one settlement | expenses and members by SQL; the shared cache |
| Expenses (`modules/travel-expense`) | `travel_expenses`, `travel_expense_participants`; a context of members per travel, in each process and in Redis; list and detail caches | create, read, list, update, delete | drops the settlement summary; pushes; Bull; hears `travel.membership_changed` |
| Travels (`modules/travel`) | `travels.owner_id`, `travel_members.role`, `travel_invites`; caches of lists, details, members and invitations | create, update, delete, invite, join, leave, remove, transfer | emits `travel.membership_changed` in its own process |
| Shared cache (`modules/cache-shared`) | Redis, a fallback map per process, a cooldown; tags and dependencies; rate-limit buckets | get, set, del, delPattern, tags | everybody |
| Background jobs (`modules/core/services/background-job.service.ts`) | a queue, a counter, timers, all in memory | enqueue | social login hands it copies of avatars |
| Exchange rates and countries (`modules/meta`) | caches with expiry, promises in flight | get, refresh, warm up | two providers |
| Authentication, sessions, tokens (`modules/auth`, `shared`, `jwt-shared`) | sessions and lists of sessions and blacklisted tokens in the cache | sign up, log in, refresh, log out, delete the account | Supabase, social login |
| Social login (`modules/oauth`) | promises in flight, positive and negative answers in several caches, refresh tokens | check, log in, exchange codes, revoke | Apple, Google, Kakao; background jobs |
| Profiles (`modules/profile`), notifications, Bull queues, gateway, users, versions, health, pages | rows and caches; push sending and the Bull processors do nothing but log at this commit | reads and writes | |

What is hard in it:

- **Concurrency in the database.** The settlement's optimistic lock reads a version
  outside the transaction, computes, and compares under row locks; a completion changes
  one of the rows meanwhile. Ownership of a travel is checked outside the transaction that
  uses it. Two requests lock the same two rows in opposite orders.
- **Failure of one step of several.** An audit statement that fails inside a transaction
  dooms it although the error is caught; requests commit and then fail while they prepare
  their answer.
- **Order.** Cache writes that nobody awaits arrive after the deletion of their key; many
  lists in the cache are read, changed and written back.
- **Retries and time.** Idempotency keys, timers that put a job back, waits that nothing
  bounds.
- **Copies of copies.** Almost every answer passes through a memory of the process and an
  entry in Redis, each of which is filled from the other and lives its own time from then;
  some reads write back what they were given. How old an answer may be is the sum over the
  longest chain, or, where a hit renews the entry, nothing at all bounds it.
- **Arithmetic at the edge.** Balances, shares and transfers rounded to a hundredth.

What makes each part correct:

- Settlement: the stored plan is one plan; two saves do not both replace the same one; an
  answer says what is stored; a refused request changes nothing; the transfers conserve
  money, are few, and leave at most a hundredth per member; the loop ends.
- Travels: a travel has one owner, in `owner_id` and among the members alike; owners do
  not leave; a deleted travel has no members; every request ends.
- Background jobs: no job is lost or run twice at a time, no slot is idle while a job
  waits, each is retried as often as it may be.
- Expenses: nobody is charged who was never a member and no member is turned away, however
  old the caches are; a failed recording leaves nothing; an expense is deleted once; what
  Redis holds is corrected after every change.
- Shared cache: nothing is read after its time, and what a process has deleted it does not
  read again, however often Redis comes and goes.
- Sessions: what a cache remembers of a name, a token or a role holds for a bounded time
  after it stopped being true, and a session is in the list of its user.
- Social login: a registration is seen in bounded time, lookups of one token are shared, a
  revocation finds the cached tokens (at this commit not after an edit of the profile, and
  not those that a full index has pushed out), a ticket is redeemed once.
- Travel caches: requests that do not overlap see every change at once; others see it when
  the copies have died, which no chain of copies may put off for ever.
- Profiles: an old name outlives the caches only where a task puts its object back, and a
  picture the user uploaded stays once no cached object is older than it.
- Exchange rates: rates do not go back, a default does not stay, everybody is answered.

`PROJECT.json` lists each hazard at its line, with the properties that would catch it. Where
the code really does what the hazard names, the property has to except the case (by a history
variable such as `stale`, `late`, `raced` or `outlived`), and the hazard has a note that says so.

## 2. What is modelled

### SettlementAlgorithm

`calculateSettlements` (travel-settlement.service.ts:138-187), one action per turn of its
loop. Amounts are integers, hundredths; `EPSILON` is one of them. The sort compares
balances only, so members with equal balances come in any order, and `SortedDown` gives
all of them. `Number(x.toFixed(2))` of a difference of two amounts of hundredths is that
difference, so the loop rounds nothing away. The balances need not cancel out, because
`fetchBalances` drops the shares of members that have left.

### Settlement and SettlementBook

The three requests of `TravelSettlementService` as steps between awaits: `Arrive` (the
controller and the check of membership), `CheckKey`, `ReadVersion`, `ComputePlan`,
`LockVersion`, `ErasePlan`, `CommitPlan`, `DropSummary` for a save; `LockRow`,
`CommitCompletion` for a completion; `Lookup`, `QuerySummary` and the unawaited
`WriteSummary` and `WriteReplay` for the answers. Row locks (`holds`), statements that
have aborted their transaction (`doomed`), and the expiry of cache entries are explicit.
The expenses change at any time; of their state the model keeps a number, from which
`PLAN` gives the transfers.

`DATABASES` says what the database does with `SELECT COALESCE(MAX(version), 0) ... FOR
UPDATE`. PostgreSQL rejects it (`"rejects"`), so at this commit no save that has something
to store succeeds. `"locks"` is a database that locks the rows of the travel, which is what
the code relies on. Each behaviour takes one of them, and the properties are stated for
both. Identifiers of a stored settlement are the save, the travel and the transfer.

`SettlementBook` is the promise: a travel has one plan, which is replaced as a whole under
a higher version, or completed one settlement at a time. `Settlement` implements it with
`rows`, `completed` and `version` mapped to themselves; all else is a stutter.

### TravelMembership

The members and owner of one travel (travel.service.ts): `transferOwnership`,
`leaveTravel`, `removeMember`, `joinByInviteCode`, `deleteTravel`. Each step is a
statement, or several that nobody can come between; a statement reads the last commit, and
the locks of FOR UPDATE, UPDATE, DELETE and of the foreign key of an insertion are held to
the end of the transaction. Where two requests wait in a circle, the database aborts one
(`AbortDeadlocked`). Invitations and cached memberships may be minutes old, so `CheckInvite`
takes either answer. `stale` is a history variable: a request committed for a user who had
ceased to be the owner since its check. A request is `"lost"` when it has committed and
answers NotFound because the row it reads back is gone.

`transferOwnership`, `leaveTravel` and `removeMember` are methods that README.md documents
as endpoints; no controller calls them at this commit. Nor does one reach `joinByInviteCode`:
its one caller, `modules/travel/usecasesCases/invite-member.usecase.ts`, is in no module. Of the
five `deleteTravel` alone has a route. The model is of the methods, which the tests call.

### ExpenseLedger

`TravelExpenseService` for one travel: `createExpense`, `updateExpense`, `deleteExpense` and
`listExpenses`, while members join and leave. Each begins with `getTravelContext`, step by step:
`FindContext` (the map of the process), `ReadShared` and `KeepShared` (Redis),
`ReadMembers` (the tables), `KeepContext` (both caches, the second by `WriteContext`, which
nobody awaits). A context that comes back from Redis has lost its maps, because JSON makes
them empty objects; `getMemberProfile` then throws, inside the transaction of a recording
(`Record`) or an update (`Update`), after that of a deletion (`DropShared`, the answer
`"lost"`). An update (`FindUpdated`, `Update`) reads the result of `UPDATE ... RETURNING` as
rows, so it does not notice an expense that is gone and inserts its participants for no
expense; no file says whether the table refuses them, so both happen. `ReadList`,
`QueryList` and `WriteList` are the list with its cache. `DropList`, `DropLocal` and
`DropShared` are `invalidateExpenseCaches`, of which a change of the members causes only
the last two, in its own process (`Announce`). `known`, `past` and `late` are history.

Participants are a set (`SHARERS`); the date, amount, rate and share of an expense are left
out, and so are the date filters of the list. `getExpense` is left out with its cache: its
entity names columns (`travelId`, `expenseId`) that no statement of the service knows
(`travel_id`, `expense_id`), and no naming strategy translates them, so it fails before it
caches anything. Redis is taken to work: what the caches are
with Redis away is the subject of `SharedCache`. `leaveTravel` has
no route at this commit, and the route of a deletion passes a constant as the travel
(travel-expense.controller.ts:105), so that over HTTP it finds no expense: the model is of
the methods.

### BackgroundJobs

The whole of `BackgroundJobService`: `enqueue`, the start of a handler by `processNext`,
its success or failure, the timer of a retry. A step is what runs between two awaits, so
the end of a handler includes the start of the next.

### Time in the modules of caches

`Sessions`, `SocialLogin`, `TravelCaches`, `Profiles` and `SharedCache` count ticks (`now`).
An entry carries the tick until which it is good; a request and a write that nobody awaits
end within `LATENCY` ticks of their beginning, which is what `Tick` waits for; within a
tick everything interleaves. The lifetimes in the configurations are one to three ticks,
and their order is that of the code's (a session outlives its identifier, an index its
entries). The properties of time are stated in the lifetimes, not in ticks: "no more than
`EXISTS_TTL + CHECK_TTL + 5 * LATENCY - 2` after".

Except in `SharedCache` itself, the shared cache is a map whose entries die in time and may
be forgotten earlier; `SharedCache` shows what CacheService makes of that.

### SharedCache

`CacheService` for one key: `getRedisClient` with its ping (`Begin`, `Pong`, `NoPong`), the
"error" and "close" handlers (`Trouble`), the failure counter and the cooldown; `get`, `mget`,
`set`, `mset`, `del` and `delPattern` (`Send`, `Keys`, `Answer`, `Fail`) over the one server and
the fallback memory of each process. A command that is given up after 400 ms may still be
executed later (`Execute`). A handler belongs to the client that was made with it but sets
`this.redis` to null whoever is there: `made` says whether such a handler may exist.

A `set` that reaches Redis leaves an older value in the fallback memory. A delete clears
the memory of its own process alone, although the comment at cacheService.ts:233-236 speaks
of a complete invalidation; the property is therefore about the process that deletes.

### Sessions

`AuthService` (login, signup, refresh, logout), the part of `AuthSessionService` that is called
(`createAuthSession`), `UserService`'s changes of a name and a role, `AuthGuard` with both its
caches, `RolesGuard`, and `TypeOrmJwtBlacklistService`. `LookUpName` is the chain memory, shared
cache, table by which a user name becomes an e-mail address; `Authenticate` the password;
`StoreSession`, `ReadList`, `WriteList` the session and the list of sessions; `Verify`,
`AskBlacklist`, `Judge`, `AskLocal`, `AskCaches`, `AskSupabase`, `ReadRole`, `AdmitForeign` the guard; and
`CheckRole` the role. What the code does that a reader may not expect:

- issued tokens have no `jti`, so all of them share the entry `"unknown"` of the blacklist: of
  two logouts the second insertion fails on the unique key (`Insert`);
- `isBlacklisted` counts the rows that have expired (`Counted`), and an answer "listed" makes
  `tryEnhancedJwt` throw an exception that its caller swallows, after which `tryLocalJwt`
  admits the token: no logout refuses a token, although auth.controller.ts:352-354 says that
  one does at once. `GraceIsBounded` is about the end of a token, not about logouts;
- `refresh` looks at neither session nor blacklist; a session lives an hour in the cache
  while the answer names thirty days; `signup` writes no row in `profiles`.

### SocialLogin

`SocialAuthService`, `OptimizedOAuthService` and the Kakao routes of `OAuthController`:
`checkOAuthAccount` with its shared promises (`BeginLookup`, `Share`, `Answer`), the quick
question whether there is a row (`CheckExists`, `SelectRow`, `FillExists`), the paths of a lookup
(`AnswerOffline`, `Guess`, `VerifyLater`, `FindUser`), those of a login (`LookFast`, `Enter`,
`EnterOffline`, `EnterMissed`, `EnsureProfile`, `Enlist`), the index of tokens (`ReadIndex`,
`WriteIndex`) and a revocation that goes by it (`ReadTokens`, `DropTokens`, `DropIndex`), the
exchange of a Kakao code and its ticket (`Exchange`, `KeepTicket`, `ReadTicket`, `Redeem`).
The index has another writer, `updateProfile` of `ProfileService`: `EditProfile` is its commit
with the drop of the user's answer, `FindIndex` and `EraseIndex` are the KEYS and the DEL by which
`invalidateUserCache` erases the index. Where an account is deleted (auth.service.ts:625-634)
`invalidateOAuthCacheByUser` and `invalidateUserCache` run at once, which is a revocation beside an
edit; the removal of the row is not modelled.
`Register` and `CheckExists` by `"ask"` stand for other processes that work on the same user.

Facts of the code that shape the properties: a hit in Redis primes both caches again, so
that "not registered" can be renewed for ever for a token that cannot be decoded or has
ended (`RegisteredSeenInTime` leaves those out); the `finally` of a lookup deletes its
successor's promise (`outlived`); the index holds no more than
`INDEX_LIMIT` tokens, and one that newer ones push out of it is found by no revocation, though Redis
still has its user (`crowded`); nor are the tokens of an index that an edit of the profile has erased, until
they are listed anew (`orphaned`); a failed query counts as "not registered" for a quarter of
an hour; `checkKakaoAccountWithCode` asks for Kakao's raw id, so it always answers "not
registered", and uses up the code; two finalizations that overlap may both get the ticket.

### TravelCaches

What `TravelService` shows of one travel: `getTravelDetail` (`ReadDetail`, `AskMember`,
`SelectMember`, `LoadMembers`, `SelectRoster`, `SetDetail`, `FillDetail`, `ShowDetail`), `listTravels`
(`ReadList`, `SelectTravels`, `ShowList`), and the drops by `joinByInviteCode`, `leaveTravel`,
`removeMember`, `transferOwnership` and `deleteTravel` in the order of the code (`FindInvite`,
`Change`, `DropLists`, `DropDetail`, `DropMembersLists`, `ClearMembers`, `ReplaceDetail`).
The transactions are one step (`Change`): `TravelMembership` has their statements. Commands
of a process arrive at Redis in the order they were sent (`Send`, `Arrive`). A drop by
`delPattern` is one step here, where the code asks for the keys and then deletes them: of the
one key that the model has for a pattern, that is a drop at the moment of the deletion if the
key was there when they were asked for, and otherwise one at the moment of the question.

A roster found in the cache is published again with a new lifetime; a detail marks each of
its members as one, from a roster that may be old; the memory of memberships of another
process is never told. So a member who departed is admitted for as long as someone asks
often enough (`DepartedKeptByUse` says: by that alone).

### Profiles

`ProfileService` for one user in two processes: `getProfileQuick` (`ReadMemory`, `ReadRedis`,
`Load`, `Take`), the three tasks that a read leaves behind (`AskProvider`, `Adopt`, `Copy`,
`SavePicture` for `syncGoogleAvatarIfNeeded`; `ClearRow` for `validateStorageAvatar`; `FindWarm`,
`Warm` and `SaveWarm`), the edit with a picture (`Upload`, `SaveProfile`, `ReadSaved`, `CacheSaved`,
and `FindShared` and `DropShared`, which go from pattern to pattern as `invalidateUserCache` does)
and a sign-in's upsert (`ReadOld`, `Upsert`). Calls out and statements of a process in `FAILING`
may fail: a copy falls back to the provider's picture, and where that cannot be written either
those who wait for it get nothing. A cached profile is a JavaScript
object that several tasks hold and write in place: `object` says whose it is. The sync task
writes the row from an object it has held since before an upload, and a sign-in overwrites
name and picture with the provider's. `UploadSettles` says how long an upload is in danger,
counted from the last time anybody changed the profile or a task put an object into the
caches (`touched`): a chain of such tasks makes it longer, and so it does the life of an old name.

### ExchangeRates

`MetaService`: `GetExchangeRate` with its four ways to an answer (`AnswerKnown`, `AnswerDefault`,
a shared fetch, a new one), the two calls of a fetch (`Read`, `FailToRead`; `Outcomes` is what
`promiseAny` makes of them), `Land`, which stores, evicts and answers those who wait,
`GetCountries` and `LandCountries`. A rate is the provider it is from and the number of its
changes. A refresh that fails stores a default for a full lifetime in place of a rate that
was fetched; a pair without a default gets the rate 1; eviction takes the pair that came
first, even if it was renewed.

## 3. What is checked

| Run | Asks | Result |
|---|---|---|
| `settlement_algorithm` | every vector of four balances from -6 to 6 hundredths, every order of the sort | conserves money, few and worthwhile transfers, bounded remainder |
| `settlement` | two saves (with one key or none) and a completion on a travel with a plan of two transfers, on both databases | all properties hold, and the book is implemented |
| `membership` | two transfers, a departure, a removal, a joining and a deletion, with three users | all properties hold |
| `expenses` | batches of a recording, an update, two deletions and a list in two processes, while a guest joins and leaves | all properties hold |
| `background_jobs` | four jobs in two slots, with 0, 1 and 2 retries, one of which may hang | all properties hold |
| `sessions` | nine batches: logins by name while names change hands, sign-ins of one user, a demotion, tokens used past their end, the ways to log out | all properties hold |
| `social_login` | twelve batches of lookups, logins, a Kakao code and ticket, a revocation with a full index, an edit of the profile and a registration elsewhere | all properties hold |
| `social_signup` | is a profile written for whoever signs in, as social-auth.service.ts:805 says? | no: a lookup before the login makes it skip the step |
| `travel_caches` | twelve batches of details and lists in two processes around each change of the members | all properties hold |
| `profiles` | seven batches of reads, an edit with a picture, members' pictures and sign-ins in two processes | all properties hold |
| `exchange_rates` | two requests, again and again, for pairs with and without a default, one pair in the cache | all properties hold |
| `shared_cache` | five batches of four calls of two processes on a key, with failing connections and late commands | all properties hold |

Further configurations are kept beside these runs. Each checks one sentence of the
repository, which TLC refutes:

| Configuration (module) | Sentence | What happens |
|---|---|---|
| `settlement_fewest` (MCSettlementAlgorithm) | `MinimalTransfers`: the plan is the smallest (travel-settlement.service.ts:139) | debts 6, 4, 4 and claims 8, 6 take four transfers instead of three |
| `settlement_first_plan` (MCSettlement) | `SecondSaveConflicts`, if no plan is stored yet | there is no row to lock: both save |
| `settlement_audit` (MCSettlement) | `AuditFailureHarmless`: a failed audit leaves the completion alone (line 226) | the commit rolls back, the answer is without error |
| `settlement_postgres` (MCSettlement) | `SaveFailsAsDocumented` on PostgreSQL | the locking query is rejected |
| `membership_owner` (MCTravelMembership) | `OneOwner`: a travel has one owner | two overlapping transfers by one owner leave two |
| `expenses_late_list` (MCExpenseLedger) | `ReflectedAtOnce`: a recording shows at once (travel-expense.service.ts:455) | an earlier reader's list is written after the drop |
| `social_edit` (MCSocialLogin) | `EditDropsCachedUsers`: an edit of the profile drops all caches of the user, "OAuth caches included" (profile.service.ts:429) | it erases the index of the user's tokens and leaves the users cached for them |
| `travel_unlisted` (MCTravelCaches) | `UnlistedAreLookedUp`: who is not in the cached detail is looked up (travel.service.ts:607) | `isMember` believes the cache, which the hit renews |
| `profiles_cleared` (MCProfiles) | `OnlyMissingPicturesCleared`: only a certain 404 clears a picture (supabaseService.ts:420) | a picture that is not in the storage at all is cleared |

### The properties

- **SettlementAlgorithm.** `MoneyConserved`, `TransfersWorthwhile`, `NothingForgotten`
  (for balances that cancel out). `MinimalTransfers` is measured by a reference that splits
  the members into as many groups that cancel out as there can be.
- **Settlement.** `SecondSaveConflicts`, `ErasesOnlyWhatItSaw`, `AnsweredIsStored`,
  `FailedLeavesNoTrace`, the refinement `ImplementsBook`, the liveness
  `EveryRequestAnswered`. `OnePlanStored` is proved and needs no run.
- **TravelMembership.** `OwnerAgreed`, `NoMemberOfNothing`, the action property
  `OwnerNeverLeaves`, the liveness `EveryRequestAnswered`.
- **ExpenseLedger.** `MemberAdmitted` (an action property), `ChargedWereMembers`,
  `FailedLeavesNothing`, `DeletedOnce`, `RedisFollows`.
- **BackgroundJobs.** `SlotsWellUsed`, `TriedAsPromised`, and the liveness `EveryJobEnds`.
  `QueuedOnce` is proved and needs no run.
- **Sessions.** `RightfulOwnerRefusedBriefly` (a name that changed hands), `GraceIsBounded`
  (a token past its end), `RoleIsRecent` (an administrator who was demoted),
  `LiveSessionsListed` (a read-change-write of the list).
- **SocialLogin.** `RegisteredSeenInTime` (a denial that outlives a registration),
  `LookupsShared` (one question per token and window), `CachedUsersIndexed` (what a
  revocation finds: every cached user but those excepted as `raced`, `crowded` or `orphaned`),
  `TicketGoodOnce`; `SignedInHasProfile` and `EditDropsCachedUsers` are refuted.
- **TravelCaches.** `ViewsSoonTrue` (a bound on every chain of copies), `JoinerAdmitted`,
  `DepartedKeptByUse`, `ChangesSeenAtOnce` (with no overlap, no drop is missing). All are
  action properties, since they are about the moment of an answer. A change that alters
  nothing (one who is in joins again) starts the time of `ViewsSoonTrue` too, since it drops
  and fills like any other. What a detail shows counts for callers who are still members:
  after a deletion, fills with and without members may keep a gone travel's detail alive.
- **Profiles.** `OldNameKeptByTasks` and `UploadSettles`.
- **ExchangeRates.** `RatesMoveForward` and the liveness `RatesCatchUp` and
  `EveryRequestAnswered`.
- **SharedCache.** `OwnDeleteIsFinal` and `ValuesDie`.

### Bounds

Two saves are enough for every pair of conflicting plans, and the completion is the third
party that changes a version under them. A plan of two transfers tells a whole plan from a
part of one, and the two states of the expenses give an empty and a non-empty plan. Travels
share nothing but idempotency keys; one travel is checked. Four members give every shape
the two-pointer loop distinguishes (one against three, two against two, ties), and six
hundredths reach below, at and above EPSILON. Three users are the roles of a transfer:
the old owner, the new one, and one from outside; the two transfers are what the stale check
needs. For the expenses, two processes make every pair of a changed and an untold cache, and
the guest's joining and departure overlap each other. Two slots and four jobs let one hang
while the others queue for the other slot. None of these needs a bound on a variable:
requests are finite and each is made once.

In the other modules the requests come in batches (`BATCHES`, `PLANS`, `WANTED`): all of
them at once have too many interleavings, and what a batch leaves out would touch none of
the state the batch is about. A batch has up to five requests, which is a writer, a reader
that fills a cache in between, one that copies the entry on, and one that is answered by
the copy, and in `TravelCaches` a second one that copies. `HORIZON` is the last tick; each
is beyond the longest of the bounded times, so a chain that is too long is seen. With `LATENCY = 0` a request ends in the tick it began in
(interleaving with all others of that tick), with 1 it may see one tick pass. `WINDOW` is
the time for which a lookup may be shared, `INDEX_LIMIT` (12 in the code, 1 here) the length
of the index, exceeded by two tokens. `MAX_RATES` is 1 (1000 in the code), so a second pair
evicts the first. `CHANGES` bounds how often a provider's rates change, `FETCHES` how many
fetches are under way at a time; a rate that changes once tells old from new. `TROUBLES`
bounds the failures in a row of a process: two, so that the cooldown begins, ends and begins
again. `CHECK_DEADLOCK FALSE` stands where time ends at `HORIZON` and every request is done.

### Fairness

`Settlement` and `TravelMembership` assume weak fairness of one disjunction: as long as
some request can take its next step, one does. That is no more than that Node resumes a
request whose statement has finished and that the database grants a free lock. New
requests, expense changes, cache expiry and late cache writes are not assumed to happen.
`BackgroundJobs` assumes that timers fire and that a handler that does not hang settles; a
hanging handler is never given up, so `EveryJobEnds` is for fewer hanging jobs than slots.
`ExchangeRates` assumes that a request that has arrived is handled (the event loop), that
each call to a provider and the one for the countries ends (the headers come in time or the
call is given up), and that an entry expires when its time has come; `RatesCatchUp` has the rest as its premise: that
not every provider fails for ever and somebody keeps asking. `SettlementAlgorithm` states
that the loop runs on, for `Terminates`. The other modules state safety only and assume
nothing; their bounds on time are safety, because `Tick` waits for requests that are due.

## 4. What is proved

TLAPS checks the theorems from the assumptions on the constants alone (`SettlementAssumption`
and its like), which TLC evaluates in each run.

**SettlementProofs.** `TypeCorrect`, `Truthful` (AnsweredIsStored) and `FailedIsGone`
(FailedLeavesNoTrace) hold for every instance. They rest on `Always`: where a request
stands tells whether it has committed and whether it may hold locks, and nobody stores rows
under another's name. `OnePlan`, `Conflict`, `ErasesSeen` and `Implementation` (the
refinement) are about every behaviour with `[]FirstSavesApart`: no two saves of a travel
without a plan are past the version check together. The lock covers rows, so it cannot keep
two first saves apart, and `settlement_first_plan` shows both of them commit; the code does
nothing else against that. `StoredPlansKeepApart` proves the condition where every travel
starts with a plan (`PlansStored`), as in the run `settlement`. Their invariant `IInv` adds
that no two requests hold a row, that a save past its lock holds all of the travel's rows and
has read their newest version, that a completion past its lock holds its row pending, and
that each committed save read a version below the newest of today. None of the three safety properties is
inductive without the locks, and the version argument needs that MAX(version) never sinks
(`NewestGrows`). The step from a finite set of versions to its maximum (`LargestExists`)
is a descent along the strict subsets.

The same module has what is proved of `SettlementAlgorithm`, whose specification has `plan` in
its names so that one module may extend both: `AlgorithmTypes`, `Worthwhile`
(TransfersWorthwhile), `Conserved` (MoneyConserved) and `LittleForgotten` (NothingForgotten), for
any members, balances and EPSILON. The invariant says that every transfer lies behind the two
indexes and that each has moved one of them, which makes the pairs distinct and bounds
their number; and that what is left of a member and what the transfers moved are together the
balance. Sums over a set of transfers are folds, which no prover here unfolds by induction; `Total`
is therefore characterised by lemmas (nothing for no transfer, one more for one more
transfer, equal for equal terms), each by descent along the strict subsets (`WFMin`): a set
for which it fails has a smallest one, which one element less refutes.

**JobsAndRatesProofs.** Of `BackgroundJobs`, `WorkConserving`, `NoJobTwice` and `RetriesUsed`, for
any jobs, slots and retries. The one argument is about `processNext`: from a state in which
at most one slot is free beside the jobs it can start, one call restores the invariant.
Of `ExchangeRates`, `AnswersMoveForward` (RatesMoveForward), for any pairs, providers, requests
and sizes of the cache. The invariant is a chain for each pair and provider: what was last
answered is no newer than what is cached, that no newer than what a fetch under way has
read, and that no newer than what the provider has now. The middle link needs that a pair
has at most one fetch (`OneFetch`), so that none lands behind another, and that a fetch which
is not under way has asked nobody.

**TravelMembershipProofs.** `TypeCorrect`, `OwnerAgrees`, `Emptied` and `OwnerStays`, for any
users and requests. The invariant ties the place of a request to the locks it holds and the
rows it has seen under them; `OwnerStays` is an action property that follows from
what a departure holds when it commits.

**ExpenseLedgerProofs.** `LedgerTypes`, `Admitted`, `SharersWereMembers`, `NothingLeft`,
`OneDeletion` and `RedisCorrected`, for any users, processes and requests. The invariant
`IInv` says that a request keeps the context it goes by, that every context, wherever it
is, is of people who were members once, that whatever a table, a list or an answer names is
committed, and that behind an untrue entry in Redis there is a request which is going to
drop it. For the last, a joining that will fail before its event does not count: the
departure that makes it fail does.

**SharedCacheProofs.** `DeletesAreFinal` (OwnDeleteIsFinal) and `NothingOutlives`
(ValuesDie), for any processes, requests, lifetimes and failures. The invariant has two
halves. A write that is over (`Finished`) is never written again, all a delete is about is
over when it begins, and so neither a live entry of Redis nor the memory of the process
that deleted holds any of it, nor does a read that is on its way. And a value that is kept
anywhere is dated from the beginning of its write (`Dated`), since no tick passes between a
write's beginning and its execution.

**SessionsProofs.** `RightfulOwnerRefused`, `GraceBounded`, `RoleRecent` and `LiveListed` (the
four properties of the run), for any requests, users, names, tokens and lifetimes of at least a
tick. The first three are about chains of copies, and `SessionsInv` says of every link how old
what it holds can be, counted back from its end: a write on its way, the shared cache, the
memory, and the request that has read one of them. `NameSince(n, u, time)` is the form of each:
the row still says so, or it has changed since that time. What `LATENCY` bounds is in `Clock`.
A link adds the lifetime of the cache it is written to and the latency of its writer, and since
memory is good through its last tick and the shared cache is not, a chain through both
loses one tick (the `- 1` of `NameGrace`). The names need that no two rows have one, which
`Rename` keeps; the tokens need that a token is written once (`Issuance`). `LiveListed`
needs that whoever is about to write a list has read it with every undisturbed session in
it (`ListCarried`), and that two that have read one list are both `raced`.
The proof corrected the model in two places: the bound of `GraceIsBounded` had no room for the
time between the check of a token and the admission in which the guard's answer is cached, and
the bound of `RoleIsRecent` none for the wait of a sign-in between reading the role
and issuing the token. TLC then found both too small with three requests instead of two,
which the batch of `manage1`, `manage2` and `manage3` now contains; with the corrected bound of
`GraceIsBounded` reduced by one, it still finds a violation. `SessionsAssumption` has what the history
before the first state must satisfy: names are unique, and old tokens end when tokens that are issued do.

**SocialLoginProofs.** `RegisteredSeen`, `LookupsJoined`, `CachedUsersFound` and
`TicketRedeemedOnce` (the four properties of the run), for any requests, users, tokens, codes and
lifetimes. The invariant has one part for each.
`RegisteredInv` is again about a chain of copies: the row, the answer for the user, the lookup that
reads it, the memory, a write on its way to Redis, a lookup that reads Redis, and whoever shares its
promise. `Unseen(u, time)` is the form of each link (who has a row now was unseen until
that time), and `RowGrace`, `MemoryGrace`, `SharedGrace` and `LookupGrace` count how old each may be.
It needs `Guessed` (which lookup may answer from an old copy at all) and `Shares` (who joins a lookup
began before it answered). `LookupsInv` says that the promise kept for a token is that of its youngest
lookup, for as long as the window lasts, unless an older one's end has deleted it. `IndexInv` says that whoever works
on an undisturbed index has read all that is in it (`HeldAlone`), that a revocation has dropped what it
read before it drops the index (`DroppedFirst`), and that a token with a user in Redis is in the index, was pushed
out of it or erased with it, or is about to be listed (`Findable`). `TicketsInv` says that
a ticket that was redeemed is gone, and that who began after that is not given its session.
The proof corrected the model twice. The bound of `RegisteredSeenInTime` was `4 * LATENCY - 2`
and left out whoever shares a lookup; TLC meets `5 * LATENCY - 2` exactly when `LATENCY` and `WINDOW` are two
and lookups begin at ticks 0, 0, 2, 6 and 8. And `CachedUsersIndexed` is false of a
token that a full index pushed out, which two tokens and a limit of two could not show: hence the
history `crowded` and the limit of one. The erasure by an edit of the profile is the other exception
(`orphaned`); it ends where a login or a lookup lists the token again. `SocialLoginAssumption` asks for the types of the
constants and for what the code has of order: a code is one user's, an index lives as long as the users it
lists, and the answer to a lookup as long as that to a login.

**TravelCachesProofs.** `CachesBounded`, and from its invariant `SoonShown` (ViewsSoonTrue),
`JoinerIn` (JoinerAdmitted) and `DepartedOut` (DepartedKeptByUse); and `FoundRight`, with
`SeenAtOnce` (ChangesSeenAtOnce) from its invariant; for any users, processes,
requests and jobs, and any lifetimes that satisfy `TravelCachesAssumption`. `CachesInv` says of each
copy of the answers about members, the members' list, the detail and the lists of travels until
when it may be wrong, counted from the last change; copies that are under way have the same with
`LATENCY` added.
The hard part is that copies are renewed: the members' list is cached as it was found in the
cache, and a detail is made of it and cached with it. By itself that is a circle without a
bound. What breaks it is that a wrong list dies before the detail it was cached with
(`RosterOK`), so that who misses that detail does not find the list any more. By `Cleared` all
lists that readers from before the change left are gone, by `Made` the last reader who could
make a detail of one has begun, and `LateMiss` says that whoever begins later and misses the
detail finds every copy of the list `Sound`. That is where the two assumptions on lifetimes
are used: ROSTER_TTL is at most DETAIL_TTL (both are half a minute, travel.service.ts:92
and :102), and two latencies are no more than the life of a detail.
The proof corrected the model: the bound of `ViewsSoonTrue` was one for lists and details, and lists
have one chain more than it allowed. TLC finds it violated by the batches with two lists
after a removal, which were not in the run before; at `LATENCY` 0 both new bounds are met exactly.

`SeenAtOnce` is of requests that come one after another, and needs no times. `ApartInv`, in
conjunction with `CachesInv`, says that at most one of them is under way and that only its process still has
writes on their way (`OneAtATime`), that what it has read is still so (`ReadOK`), and that
every write on its way, detail, members' list and list of travels is right, except for what is about to be
mended: by the drops that a change has not made yet (`Unclean`, `ListUnclean`), by the detail
that a transfer is about to write (`Handing`), or by a write or a drop on its way. Among
requests of one process the same holds of the answers about members (`AnswersRight`); with
two processes it does not, as the other's memory is not dropped. TLC checks `ApartInv`, under the
constraint `apart`, on batches of a read, two changes and a read in one process to the end, and on
batches over two processes as far as a run of five minutes gets; neither is among the runs.

Only model-checked: all liveness, since the prover has neither fairness nor ENABLED;
and the properties of `Profiles`, whose invariant is not worked out.

## 5. What is not modelled

Not modelled for good: Bull's processors and push sending (they only log at this commit),
the gateway (its module is not imported) and the versions (their table is disabled),
`SmartCacheService` and the second blacklist in Redis (no caller), rate limiting (a counter
without a concurrent step), HTTP formatting, metrics, pages, scripts.

Left out of modelled parts: `updateTravel` (it misreads the result of `UPDATE ... RETURNING` and
always throws); `getExpense` with its detail cache, which fails before it caches anything;
amounts, rates and shares of an expense; thumbnails and the unique user name of a profile;
the calls that end a connection at Google or Kakao; the table of providers' refresh tokens,
which live routes only write; the deletion of an account, which a service that does nothing
carries out.

What a next step would be: `ExpenseLedger` composed with `Settlement`, whose expenses change
freely now; the invariant of `Profiles`.

## 6. Running

    tlc -workers 2 -config settlement.cfg MCSettlement
    tlapm SettlementProofs.tla

Each `.cfg` belongs to the MC module that `PROJECT.json` names. The longest run takes
about three minutes with two workers, the longest proofs (`SessionsProofs`, `TravelCachesProofs`)
three to six minutes.
