----------------------------- MODULE SharedCache -----------------------------
(***************************************************************************)
(* CacheService: the cache in front of the tables.  Each process reaches   *)
(* Redis over a client of its own, and keeps what it could not write there *)
(* in its own memory.  Sessions, SocialLogin, Profiles and TravelCaches    *)
(* take the cache for one that may forget, but answers nothing older than  *)
(* its time to live; here that is what is to be shown.                     *)
(*                                                                         *)
(* One key: keys do not interfere.  A value is the request that set it.    *)
(* Time passes in ticks, and calls to Redis end within theirs (a command   *)
(* is given up after 400 ms).  An entry is good through the tick it dies   *)
(* in.  The server may still execute a command that has been given up.     *)
(***************************************************************************)
EXTENDS Integers

CONSTANTS
    PROCESSES, REQUESTS,
    PLANS,          \* functions REQUESTS -> [op : OPERATIONS, on : PROCESSES]
    TTL,
    COOLDOWN,       \* redisCooldownMs
    TROUBLES,       \* bound of the model: failures of each process in a row
    HORIZON,        \* bound of the model: ticks
    Nobody          \* no value

READS == {"get", "mget"}
WRITES == {"set", "mset"}
DELETES == {"del", "delPattern"}
OPERATIONS == READS \cup WRITES \cup DELETES

ASSUME SharedCacheAssumption ==
    /\ PLANS \subseteq [REQUESTS -> [op : OPERATIONS, on : PROCESSES]]
    /\ TTL \in Nat /\ COOLDOWN \in Nat /\ HORIZON \in Nat
    /\ TROUBLES \in [PROCESSES -> Nat]
    /\ Nobody \notin REQUESTS

VARIABLES
    now,
    op, on,     \* of each request: what it asks for, of which process
    at,         \* where it is: "new", "ping", "keys", "call", "again", "done"
    wire,       \* its command: "none", "sent", "executed"
    got,        \* the value it has read, or Nobody
    born,       \* when a write began
    server,     \* what Redis keeps
    memory,     \* fallbackCache of each process
    client,     \* whether the process has a client (redis), and
    made,       \* has ever made one: those it gave up go on reporting
    failures,   \* redisFailureCount
    cooling,    \* how long until redisNextRetryAt
    over,       \* history: of a delete, the writes that were over when it began,
    doomed      \* and those a delete of the process that Redis answered came after

progress == <<op, at, wire, got>>
connection == <<client, made, failures, cooling>>
stores == <<server, memory>>
history == <<over, doomed>>
vars == <<now, on, progress, born, stores, connection, history>>

NoEntry == [value |-> Nobody, until |-> -1]
Entry(r) == [value |-> r, until |-> now + TTL]

Init ==
    /\ now = 0
    /\ \E plan \in PLANS : /\ op = [r \in REQUESTS |-> plan[r].op]
                           /\ on = [r \in REQUESTS |-> plan[r].on]
    /\ at = [r \in REQUESTS |-> "new"]
    /\ wire = [r \in REQUESTS |-> "none"]
    /\ got = [r \in REQUESTS |-> Nobody]
    /\ born = [r \in REQUESTS |-> 0]
    /\ server = NoEntry
    /\ memory = [p \in PROCESSES |-> NoEntry]
    /\ client = [p \in PROCESSES |-> FALSE]
    /\ made = [p \in PROCESSES |-> FALSE]
    /\ failures = [p \in PROCESSES |-> 0]
    /\ cooling = [p \in PROCESSES |-> 0]
    /\ over = [r \in REQUESTS |-> {}]
    /\ doomed = [p \in PROCESSES |-> {}]

-----------------------------------------------------------------------------
(* What the operations do to the memory of the process, once Redis has       *)
(* answered, failed, or was not asked.                                       *)

\* Mutant: an entry is read as long as it is there.
InMemoryForEver(p) == memory[p].value

InMemory(p) == IF now <= memory[p].until THEN memory[p].value ELSE Nobody

\* Mutant: a delete that Redis answered returns, as a write does.
ForgetUnlessReached(p, reached) ==
    memory' = IF reached THEN memory ELSE [memory EXCEPT ![p] = NoEntry]

Forget(p, reached) == memory' = [memory EXCEPT ![p] = NoEntry]

End(r) == at' = [at EXCEPT ![r] = "done"]

\* A read looks into the memory when Redis has nothing or was not reached; mget only falls back
\* on reads one by one, which ask for a client again, as the writes of mset do.
EndRead(r, reached, value) ==
    \/ /\ op[r] = "get" \/ (op[r] = "mget" /\ reached)
       /\ End(r)
       /\ got' = [got EXCEPT ![r] = IF value # Nobody \/ op[r] = "mget"
                                    THEN value ELSE InMemory(on[r])]
       /\ UNCHANGED <<op, memory, doomed>>
    \/ /\ op[r] = "mget" /\ ~reached
       /\ op' = [op EXCEPT ![r] = "get"]
       /\ at' = [at EXCEPT ![r] = "again"]
       /\ UNCHANGED <<got, memory, doomed>>

\* What Redis has taken does not reach the memory, whose older value stays.
EndWrite(r, reached) ==
    \/ /\ op[r] \in WRITES /\ reached
       /\ End(r)
       /\ UNCHANGED <<op, got, memory, doomed>>
    \/ /\ op[r] = "set" /\ ~reached
       /\ memory' = [memory EXCEPT ![on[r]] = Entry(r)]
       /\ End(r)
       /\ UNCHANGED <<op, got, doomed>>
    \/ /\ op[r] = "mset" /\ ~reached
       /\ op' = [op EXCEPT ![r] = "set"]
       /\ at' = [at EXCEPT ![r] = "again"]
       /\ UNCHANGED <<got, memory, doomed>>

EndDelete(r, reached) ==
    /\ op[r] \in DELETES
    /\ Forget(on[r], reached)
    /\ End(r)
    /\ doomed' = IF reached THEN [doomed EXCEPT ![on[r]] = @ \cup over[r]] ELSE doomed
    /\ UNCHANGED <<op, got>>

Finish(r, reached, value) ==
    EndRead(r, reached, value) \/ EndWrite(r, reached) \/ EndDelete(r, reached)

-----------------------------------------------------------------------------
(* getRedisClient.                                                           *)

IsOver(r) == at[r] = "done" /\ wire[r] # "sent"

Note(r) ==
    IF at[r] = "new"
    THEN /\ born' = IF op[r] \in WRITES THEN [born EXCEPT ![r] = now] ELSE born
         /\ over' = [over EXCEPT ![r] =
                        IF op[r] \in DELETES THEN {s \in REQUESTS : op[s] \in WRITES /\ IsOver(s)}
                        ELSE doomed[on[r]]]
    ELSE UNCHANGED <<born, over>>

\* The command goes out; a pattern is first asked for its keys.
Send(r) ==
    IF op[r] = "delPattern"
    THEN at' = [at EXCEPT ![r] = "keys"] /\ UNCHANGED wire
    ELSE at' = [at EXCEPT ![r] = "call"] /\ wire' = [wire EXCEPT ![r] = "sent"]

\* The cooldown grows with the failures in a row, up to five times.
Penalised(p) ==
    LET count == failures[p] + 1 IN
    /\ client' = [client EXCEPT ![p] = FALSE]
    /\ failures' = [failures EXCEPT ![p] = count]
    /\ cooling' = [cooling EXCEPT ![p] = COOLDOWN * (IF count <= 5 THEN count ELSE 5)]
    /\ UNCHANGED made

Begin(r) ==
    LET here == on[r] IN
    /\ at[r] \in {"new", "again"}
    /\ Note(r)
    /\ \/ /\ cooling[here] > 0
          /\ Finish(r, FALSE, Nobody)
          /\ UNCHANGED <<wire, connection>>
       \/ /\ cooling[here] = 0 /\ client[here]
          /\ Send(r)
          /\ UNCHANGED <<op, got, memory, doomed, connection>>
       \/ /\ cooling[here] = 0 /\ ~client[here]
          /\ client' = [client EXCEPT ![here] = TRUE]
          /\ made' = [made EXCEPT ![here] = TRUE]
          /\ at' = [at EXCEPT ![r] = "ping"]
          /\ UNCHANGED <<op, got, wire, memory, doomed, failures, cooling>>
    /\ UNCHANGED <<now, on, server>>

\* The client may have been given up while the ping was under way, or be another one.
Pong(r) ==
    LET here == on[r] IN
    /\ at[r] = "ping"
    /\ failures' = [failures EXCEPT ![here] = 0]
    /\ cooling' = [cooling EXCEPT ![here] = 0]
    /\ IF client[here] THEN Send(r) /\ UNCHANGED <<op, got, memory, doomed>>
       ELSE Finish(r, FALSE, Nobody) /\ UNCHANGED wire
    /\ UNCHANGED <<now, on, born, server, client, made, over>>

NoPong(r) ==
    /\ at[r] = "ping" /\ failures[on[r]] < TROUBLES[on[r]]
    /\ Penalised(on[r])
    /\ Finish(r, FALSE, Nobody)
    /\ UNCHANGED <<now, on, wire, born, server, over>>

\* An "error" or "close" of a client, the present one or one that was given up.
Trouble(p) ==
    /\ made[p] /\ failures[p] < TROUBLES[p]
    /\ Penalised(p)
    /\ UNCHANGED <<now, on, progress, born, stores, history>>

-----------------------------------------------------------------------------
(* The commands.                                                             *)

Alive == server.value # Nobody /\ now <= server.until

\* KEYS: a key that is not there is not deleted.
Keys(r) ==
    /\ at[r] = "keys"
    /\ IF Alive
       THEN /\ at' = [at EXCEPT ![r] = "call"]
            /\ wire' = [wire EXCEPT ![r] = "sent"]
            /\ UNCHANGED <<op, got, memory, doomed>>
       ELSE Finish(r, TRUE, Nobody) /\ UNCHANGED wire
    /\ UNCHANGED <<now, on, born, server, connection, over>>

NoKeys(r) ==
    /\ at[r] = "keys"
    /\ Finish(r, FALSE, Nobody)
    /\ UNCHANGED <<now, on, wire, born, server, connection, over>>

Execute(r) ==
    /\ wire[r] = "sent"
    /\ wire' = [wire EXCEPT ![r] = "executed"]
    /\ \/ /\ op[r] \in READS
          /\ got' = [got EXCEPT ![r] = IF Alive THEN server.value ELSE Nobody]
          /\ UNCHANGED server
       \/ op[r] \in WRITES /\ server' = Entry(r) /\ UNCHANGED got
       \/ op[r] \in DELETES /\ server' = NoEntry /\ UNCHANGED got
    /\ UNCHANGED <<now, on, op, at, born, memory, connection, history>>

Answer(r) ==
    /\ at[r] = "call" /\ wire[r] = "executed"
    /\ Finish(r, TRUE, got[r])
    /\ UNCHANGED <<now, on, wire, born, server, connection, over>>

\* No connection, no answer in time, or an error: the server may have executed the command, may
\* still do so (which matters for a write or a delete), or never will.  The two attempts of mset
\* to write are one command here.
Fail(r) ==
    /\ at[r] = "call"
    /\ Finish(r, FALSE, Nobody)
    /\ wire' = [wire EXCEPT ![r] = IF op[r] \in READS THEN "none" ELSE @]
    /\ UNCHANGED <<now, on, born, server, connection, over>>

Lose(r) ==
    /\ wire[r] = "sent" /\ at[r] = "done"
    /\ wire' = [wire EXCEPT ![r] = "none"]
    /\ UNCHANGED <<now, on, op, at, got, born, stores, connection, history>>

\* Redis may lose what it keeps.
Evict ==
    /\ server # NoEntry /\ server' = NoEntry
    /\ UNCHANGED <<now, on, progress, born, memory, connection, history>>

Tick ==
    /\ now < HORIZON /\ now' = now + 1
    /\ \A r \in REQUESTS : at[r] = "new" \/ IsOver(r)
    /\ \E r \in REQUESTS : at[r] = "new"
    /\ cooling' = [p \in PROCESSES |-> IF cooling[p] = 0 THEN 0 ELSE cooling[p] - 1]
    /\ UNCHANGED <<on, progress, born, stores, client, made, failures, history>>

Next ==
    \/ Tick \/ Evict
    \/ \E p \in PROCESSES : Trouble(p)
    \/ \E r \in REQUESTS : \/ Begin(r) \/ Pong(r) \/ NoPong(r)
                           \/ Keys(r) \/ NoKeys(r)
                           \/ Execute(r) \/ Answer(r) \/ Fail(r) \/ Lose(r)

Spec == Init /\ [][Next]_vars

-----------------------------------------------------------------------------
(* Properties.                                                                *)

\* No read answers a value after its time, wherever it is found: not in Redis, and not in the
\* memory of a process, which keeps dead values and is looked into again when Redis fails.
\* cacheService.ts:118 get, :143 set.
ValuesDie ==
    [][\A r \in REQUESTS : (at[r] # "done" /\ at'[r] = "done" /\ got'[r] # Nobody)
                              => now <= born[got'[r]] + TTL]_vars

\* After a delete that Redis has answered, the process reads no value again whose write was over
\* when the delete began: neither Redis, nor its memory brings it back when Redis fails.
\* cacheService.ts:170 del, :191 delPattern.
OwnDeleteIsFinal ==
    \A r \in REQUESTS : (op[r] \in READS /\ at[r] = "done") => got[r] \notin over[r]

=============================================================================
