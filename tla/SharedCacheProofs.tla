--------------------------- MODULE SharedCacheProofs ---------------------------
(* What a process has deleted it does not read again, and nobody reads a value *)
(* after its time, for any requests, processes and times to live.             *)
EXTENDS SharedCache, TLAPS

Value == REQUESTS \cup {Nobody}
EntryType == [value : Value, until : Int]
Places == {"new", "ping", "keys", "call", "again", "done"}

Types ==
    /\ now \in Int
    /\ op \in [REQUESTS -> OPERATIONS] /\ on \in [REQUESTS -> PROCESSES]
    /\ at \in [REQUESTS -> Places]
    /\ wire \in [REQUESTS -> {"none", "sent", "executed"}]
    /\ got \in [REQUESTS -> Value]
    /\ born \in [REQUESTS -> Int]
    /\ server \in EntryType
    /\ memory \in [PROCESSES -> EntryType]
    /\ over \in [REQUESTS -> SUBSET REQUESTS]
    /\ doomed \in [PROCESSES -> SUBSET REQUESTS]

\* The writes that nobody carries out any more.
Finished == {s \in REQUESTS : op[s] \in WRITES /\ IsOver(s)}

\* A request that has not begun has done nothing, and only reads find something.
Idle ==
    /\ \A r \in REQUESTS : at[r] = "new" => wire[r] = "none" /\ got[r] = Nobody
    /\ \A r \in REQUESTS : op[r] \notin READS => got[r] = Nobody

\* What a delete is about, and what was deleted, will not be written again.
History ==
    /\ \A p \in PROCESSES : doomed[p] \subseteq Finished
    /\ \A r \in REQUESTS : over[r] \subseteq Finished
    /\ \A r \in REQUESTS : op[r] \in READS => over[r] \subseteq doomed[on[r]]

\* An executed delete has left nothing of it, nor has one that found no key;
Deleted ==
    /\ \A r \in REQUESTS : op[r] \in DELETES /\ wire[r] = "executed" => server.value \notin over[r]
    /\ Alive => \A p \in PROCESSES : server.value \notin doomed[p]
    /\ \A p \in PROCESSES : memory[p].value \notin doomed[p]
    /\ \A r \in REQUESTS : op[r] \in READS => got[r] \notin over[r]

\* a value that is kept is of a write that has begun, and is dated from there.
Dated(entry) ==
    entry.value # Nobody =>
        /\ op[entry.value] \in WRITES /\ at[entry.value] # "new"
        /\ entry.until = born[entry.value] + TTL

Timed ==
    /\ \A r \in REQUESTS : op[r] \in WRITES /\ at[r] # "new" /\ ~IsOver(r) => born[r] = now
    /\ Dated(server)
    /\ \A p \in PROCESSES : Dated(memory[p])
    /\ \A r \in REQUESTS : at[r] # "done" /\ got[r] # Nobody =>
          op[got[r]] \in WRITES /\ at[got[r]] # "new" /\ now <= born[got[r]] + TTL

CacheInv == Types /\ Idle /\ History /\ Deleted /\ Timed

LEMMA InitCache == Init => CacheInv
<1> SUFFICES ASSUME Init PROVE CacheInv
  OBVIOUS
<1> USE SharedCacheAssumption
<1>1. Types
  <2>1. PICK plan \in PLANS : op = [r \in REQUESTS |-> plan[r].op] /\ on = [r \in REQUESTS |-> plan[r].on]
    BY DEF Init
  <2>2. \A r \in REQUESTS : plan[r].op \in OPERATIONS /\ plan[r].on \in PROCESSES
    OBVIOUS
  <2> QED BY <2>1, <2>2 DEF Init, Types, NoEntry, EntryType, Value, Places
<1>2. Idle
  BY DEF Init, Idle
<1>3. History /\ Deleted
  BY DEF Init, History, Deleted, Alive, NoEntry
<1>4. Timed
  BY DEF Init, Timed, Dated, NoEntry
<1> QED BY <1>1, <1>2, <1>3, <1>4 DEF CacheInv

\* The end of an operation touches its own request and the memory of its process.
Ended(r, reached, value) ==
    /\ op' \in [REQUESTS -> OPERATIONS] /\ at' \in [REQUESTS -> Places]
    /\ got' \in [REQUESTS -> Value] /\ memory' \in [PROCESSES -> EntryType]
    /\ doomed' \in [PROCESSES -> SUBSET REQUESTS]
    /\ \A s \in REQUESTS : s # r => op'[s] = op[s] /\ at'[s] = at[s] /\ got'[s] = got[s]
    /\ op'[r] \in READS <=> op[r] \in READS
    /\ op'[r] \in WRITES <=> op[r] \in WRITES
    /\ op'[r] \in DELETES <=> op[r] \in DELETES
    /\ at'[r] \in {"done", "again"}
    /\ op[r] \notin READS => got'[r] = got[r]
    /\ at'[r] = "done" /\ op[r] \in READS => got'[r] \in {value, InMemory(on[r])}
    /\ at'[r] # "done" => got'[r] = got[r]
    /\ \A p \in PROCESSES : \/ memory'[p] = memory[p] \/ memory'[p] = NoEntry
                            \/ op[r] \in WRITES /\ memory'[p] = Entry(r)
    /\ \A p \in PROCESSES : \/ doomed'[p] = doomed[p]
                            \/ /\ p = on[r] /\ reached /\ op[r] \in DELETES
                               /\ doomed'[p] = doomed[p] \cup over[r]
                               /\ memory'[p] = NoEntry

LEMMA FinishEnds ==
    ASSUME Types, NEW r \in REQUESTS, NEW reached \in BOOLEAN, NEW value \in Value,
           Finish(r, reached, value)
    PROVE  Ended(r, reached, value)
<1> USE SharedCacheAssumption
<1>1. /\ Entry(r) \in EntryType /\ NoEntry \in EntryType
      /\ InMemory(on[r]) \in Value /\ on[r] \in PROCESSES
      /\ op[r] \in OPERATIONS /\ over[r] \in SUBSET REQUESTS
      /\ doomed[on[r]] \cup over[r] \in SUBSET REQUESTS
  BY DEF Types, EntryType, Entry, NoEntry, Value, InMemory
<1>2. /\ \A x : x \in OPERATIONS <=> x \in READS \/ x \in WRITES \/ x \in DELETES
      /\ \A x : x \in READS <=> x = "get" \/ x = "mget"
      /\ \A x : x \in WRITES <=> x = "set" \/ x = "mset"
      /\ \A x : x \in DELETES <=> x = "del" \/ x = "delPattern"
  BY DEF READS, WRITES, DELETES, OPERATIONS
<1>3. CASE EndRead(r, reached, value)
  <2>1. CASE /\ op[r] \in READS /\ End(r) /\ op' = op /\ memory' = memory /\ doomed' = doomed
             /\ \E v \in {value, InMemory(on[r])} : got' = [got EXCEPT ![r] = v]
    <3>1. PICK v \in Value : got' = [got EXCEPT ![r] = v] /\ v \in {value, InMemory(on[r])}
      BY <1>1, <2>1
    <3>2. got' \in [REQUESTS -> Value] /\ got'[r] = v
      BY <3>1 DEF Types
    <3>3. at' \in [REQUESTS -> Places] /\ at'[r] = "done"
      BY <2>1 DEF Types, End, Places
    <3> QED BY <1>2, <2>1, <3>1, <3>2, <3>3 DEF Ended, Types, End
  <2>2. CASE /\ op[r] = "mget" /\ op' = [op EXCEPT ![r] = "get"] /\ at' = [at EXCEPT ![r] = "again"]
             /\ UNCHANGED <<got, memory, doomed>>
    BY <1>1, <1>2, <2>2 DEF Ended, Types, Places
  <2> QED BY <1>2, <1>3, <2>1, <2>2 DEF EndRead
<1>4. CASE EndWrite(r, reached)
  <2>1. CASE /\ op[r] \in WRITES /\ End(r) /\ UNCHANGED <<op, got, memory, doomed>>
    BY <1>1, <1>2, <2>1 DEF End, Ended, Types, Places
  <2>2. CASE /\ op[r] = "set" /\ End(r) /\ memory' = [memory EXCEPT ![on[r]] = Entry(r)]
             /\ UNCHANGED <<op, got, doomed>>
    <3>1. memory' \in [PROCESSES -> EntryType] /\ at' \in [REQUESTS -> Places] /\ at'[r] = "done"
      BY <1>1, <2>2 DEF End, Types, Places
    <3>2. \A p \in PROCESSES : memory'[p] = memory[p] \/ memory'[p] = Entry(r)
      BY <2>2 DEF Types
    <3> QED BY <1>2, <2>2, <3>1, <3>2 DEF End, Ended, Types
  <2>3. CASE /\ op[r] = "mset" /\ op' = [op EXCEPT ![r] = "set"] /\ at' = [at EXCEPT ![r] = "again"]
             /\ UNCHANGED <<got, memory, doomed>>
    BY <1>1, <1>2, <2>3 DEF Ended, Types, Places
  <2> QED BY <1>4, <2>1, <2>2, <2>3 DEF EndWrite
<1>5. CASE EndDelete(r, reached)
  <2>1. memory' \in [PROCESSES -> EntryType] /\ memory'[on[r]] = NoEntry
        /\ \A p \in PROCESSES : memory'[p] = memory[p] \/ memory'[p] = NoEntry
    BY <1>1, <1>5 DEF EndDelete, Forget, Types
  <2>2. at' \in [REQUESTS -> Places] /\ at'[r] = "done"
    BY <1>5 DEF EndDelete, End, Types, Places
  <2>3. doomed' \in [PROCESSES -> SUBSET REQUESTS]
    BY <1>1, <1>5 DEF EndDelete, Types
  <2>4. \A p \in PROCESSES : \/ doomed'[p] = doomed[p]
                             \/ p = on[r] /\ reached /\ doomed'[p] = doomed[p] \cup over[r]
    BY <1>1, <1>5 DEF EndDelete, Types
  <2>5. op[r] \in DELETES /\ op[r] \notin READS /\ op' = op /\ got' = got
    BY <1>2, <1>5 DEF EndDelete
  <2>6. \A s \in REQUESTS : s # r => at'[s] = at[s]
    BY <1>5 DEF EndDelete, End, Types
  <2> QED BY <2>1, <2>2, <2>3, <2>4, <2>5, <2>6 DEF Ended, Types
<1> QED BY <1>3, <1>4, <1>5 DEF Finish

\* A request notes, when it begins, what is over or deleted by then, and keeps it.
Noted(r) ==
    /\ over' \in [REQUESTS -> SUBSET REQUESTS] /\ born' \in [REQUESTS -> Int]
    /\ \A s \in REQUESTS : s # r => over'[s] = over[s] /\ born'[s] = born[s]
    /\ over'[r] \subseteq Finished
    /\ op[r] \in READS => over'[r] \subseteq doomed[on[r]]
    /\ at[r] # "new" => over'[r] = over[r]
    /\ op[r] \in WRITES => born'[r] = now

LEMMA KeepNotes ==
    ASSUME CacheInv, NEW r \in REQUESTS, at[r] # "done", at[r] # "new", born' = born, over' = over
    PROVE  Noted(r)
<1>1. op[r] \in WRITES => born[r] = now
  BY DEF CacheInv, Timed, IsOver
<1> QED BY <1>1 DEF Noted, CacheInv, Types, History

LEMMA NoteNotes ==
    ASSUME CacheInv, NEW r \in REQUESTS, at[r] # "done",
           Note(r)
    PROVE  Noted(r)
<1>1. op[r] \in READS => op[r] \notin DELETES
  BY DEF READS, DELETES
<1>2. CASE at[r] = "new"
  <2>1. over'[r] = IF op[r] \in DELETES THEN Finished ELSE doomed[on[r]]
    BY <1>2 DEF Note, CacheInv, Types, Finished
  <2>2. over' \in [REQUESTS -> SUBSET REQUESTS] /\ \A s \in REQUESTS : s # r => over'[s] = over[s]
    BY <1>2 DEF Note, CacheInv, Types
  <2>3. born' \in [REQUESTS -> Int] /\ \A s \in REQUESTS : s # r => born'[s] = born[s]
    BY <1>2 DEF Note, CacheInv, Types
  <2>4. op[r] \in WRITES => born'[r] = now
    BY <1>2 DEF Note, CacheInv, Types
  <2>5. doomed[on[r]] \subseteq Finished
    BY DEF CacheInv, Types, History
  <2> QED BY <1>1, <1>2, <2>1, <2>2, <2>3, <2>4, <2>5 DEF Noted
<1>3. CASE at[r] # "new"
  BY <1>3, KeepNotes DEF Note
<1> QED BY <1>2, <1>3

\* The end of an operation keeps the invariant, if Redis has answered it truly.
LEMMA EndKeeps ==
    ASSUME CacheInv, NEW r \in REQUESTS, NEW reached \in BOOLEAN, NEW value \in Value,
           at[r] # "done", Finish(r, reached, value), Noted(r),
           UNCHANGED <<now, on, server>>,
           wire' \in [REQUESTS -> {"none", "sent", "executed"}],
           \A s \in REQUESTS : s # r => wire'[s] = wire[s],
           wire'[r] \in {wire[r], "none"},
           reached /\ op[r] \in DELETES => (Alive => server.value \notin over[r]),
           op[r] \in READS => value \notin over'[r]
    PROVE  CacheInv'
<1> USE SharedCacheAssumption
<1>1. Ended(r, reached, value)
  BY FinishEnds DEF CacheInv
<1>2. Types'
  BY <1>1 DEF CacheInv, Types, Ended, Noted
<1>3. \A s \in REQUESTS : (op'[s] \in READS <=> op[s] \in READS)
                        /\ (op'[s] \in WRITES <=> op[s] \in WRITES)
                        /\ (op'[s] \in DELETES <=> op[s] \in DELETES)
  BY <1>1 DEF Ended
<1>4. Idle'
  <2>1. \A s \in REQUESTS : at'[s] = "new" => wire'[s] = "none" /\ got'[s] = Nobody
    BY <1>1 DEF Ended, CacheInv, Idle
  <2>2. \A s \in REQUESTS : op'[s] \notin READS => got'[s] = Nobody
    BY <1>1, <1>3 DEF Ended, CacheInv, Idle
  <2> QED BY <2>1, <2>2 DEF Idle
<1>5. Finished \subseteq Finished' /\ r \notin Finished
  BY <1>1, <1>3 DEF Ended, Finished, IsOver
<1>6. \A p \in PROCESSES : doomed[p] \subseteq doomed'[p] /\ doomed'[p] \subseteq Finished'
  BY <1>1, <1>5 DEF Ended, CacheInv, History
<1>7. History'
  <2>1. \A s \in REQUESTS : over'[s] \subseteq Finished'
    BY <1>5 DEF Noted, CacheInv, History
  <2>2. \A s \in REQUESTS : op[s] \in READS => over'[s] \subseteq doomed'[on[s]]
    BY <1>6 DEF Noted, CacheInv, History, Types
  <2> QED BY <1>3, <1>6, <2>1, <2>2 DEF History
<1>8. Deleted'
  <2>1. ASSUME NEW s \in REQUESTS, op'[s] \in DELETES, wire'[s] = "executed"
        PROVE  server'.value \notin over'[s]
    <3>1. CASE s = r
      BY <1>3, <2>1, <3>1 DEF Noted, CacheInv, Deleted, Idle
    <3>2. CASE s # r
      BY <1>3, <2>1, <3>2 DEF Noted, CacheInv, Deleted
    <3> QED BY <3>1, <3>2
  <2>2. ASSUME Alive', NEW p \in PROCESSES PROVE server'.value \notin doomed'[p]
    BY <1>1, <2>2 DEF Alive, Ended, CacheInv, Deleted
  <2>3. ASSUME NEW p \in PROCESSES PROVE memory'[p].value \notin doomed'[p]
    <3>1. CASE doomed'[p] = doomed[p] /\ memory'[p] = memory[p]
      BY <3>1 DEF CacheInv, Deleted
    <3>2. CASE memory'[p] = NoEntry
      BY <1>2, <3>2 DEF NoEntry, Types
    <3>3. CASE doomed'[p] = doomed[p] /\ memory'[p] = Entry(r)
      BY <1>5, <3>3 DEF Entry, CacheInv, History
    <3> QED BY <1>1, <3>1, <3>2, <3>3 DEF Ended
  <2>4. ASSUME NEW s \in REQUESTS, op'[s] \in READS PROVE got'[s] \notin over'[s]
    <3>1. CASE s # r
      BY <1>1, <1>3, <2>4, <3>1 DEF Ended, Noted, CacheInv, Deleted
    <3>2. CASE s = r /\ at'[r] = "done"
      <4>1. InMemory(on[r]) \notin over'[r]
        BY <1>3, <2>4, <3>2 DEF InMemory, Noted, CacheInv, Deleted, Types
      <4> QED BY <1>1, <1>3, <2>4, <3>2, <4>1 DEF Ended
    <3>3. CASE s = r /\ at'[r] # "done"
      <4>1. got'[r] = got[r]
        BY <1>1, <3>3 DEF Ended
      <4>2. CASE at[r] = "new"
        BY <3>3, <4>1, <4>2 DEF Noted, CacheInv, Idle
      <4>3. CASE at[r] # "new"
        BY <1>3, <2>4, <3>3, <4>1, <4>3 DEF Noted, CacheInv, Deleted
      <4> QED BY <4>2, <4>3
    <3> QED BY <3>1, <3>2, <3>3
  <2> QED BY <2>1, <2>2, <2>3, <2>4 DEF Deleted
<1>9. Timed'
  <2>1. \A s \in REQUESTS : at[s] # "new" => at'[s] # "new" /\ (op[s] \in WRITES => born'[s] = born[s])
    BY <1>1 DEF Ended, Noted, CacheInv, Timed, IsOver
  <2>2. ASSUME NEW s \in REQUESTS, op'[s] \in WRITES, at'[s] # "new", ~IsOver(s)'
        PROVE  born'[s] = now'
    BY ZenonT(40), <1>1, <1>3, <2>2 DEF Ended, Noted, CacheInv, Timed, IsOver
  <2>3. ASSUME NEW e \in EntryType, Dated(e)
        PROVE  /\ e.value # Nobody => op'[e.value] \in WRITES /\ at'[e.value] # "new"
               /\ e.value # Nobody => e.until = born'[e.value] + TTL
    BY <1>3, <2>1, <2>3 DEF Dated, EntryType, Value
  <2>4. Dated(server)'
    BY <2>3 DEF Dated, CacheInv, Timed, Types
  <2>5. ASSUME NEW p \in PROCESSES PROVE Dated(memory[p])'
    <3>1. CASE memory'[p] = memory[p]
      BY <2>3, <3>1 DEF Dated, CacheInv, Timed, Types
    <3>2. CASE memory'[p] = NoEntry
      BY <3>2 DEF Dated, NoEntry
    <3>3. CASE op[r] \in WRITES /\ memory'[p] = Entry(r)
      BY <1>1, <1>3, <3>3 DEF Dated, Entry, Ended, Noted
    <3> QED BY <1>1, <3>1, <3>2, <3>3 DEF Ended
  <2>6. ASSUME NEW s \in REQUESTS, at'[s] # "done", got'[s] # Nobody
        PROVE  op'[got'[s]] \in WRITES /\ at'[got'[s]] # "new" /\ now' <= born'[got'[s]] + TTL
    <3>1. got'[s] = got[s] /\ at[s] # "done"
      BY <1>1, <2>6 DEF Ended
    <3>2. got[s] \in REQUESTS
      BY <2>6, <3>1 DEF CacheInv, Types, Value
    <3>3. op[got[s]] \in WRITES /\ at[got[s]] # "new" /\ now <= born[got[s]] + TTL
      BY <2>6, <3>1 DEF CacheInv, Timed
    <3> QED BY <1>3, <2>1, <3>1, <3>2, <3>3
  <2> QED BY <2>2, <2>4, <2>5, <2>6 DEF Timed
<1> QED BY <1>2, <1>4, <1>7, <1>8, <1>9 DEF CacheInv

\* So does a request that goes on, with or without a command sent.
LEMMA MoveKeeps ==
    ASSUME CacheInv, NEW r \in REQUESTS, at[r] # "done", Noted(r),
           UNCHANGED <<now, on, op, got, server, memory, doomed>>,
           NEW place \in {"ping", "keys", "call"}, at' = [at EXCEPT ![r] = place],
           wire' = wire \/ wire' = [wire EXCEPT ![r] = "sent"]
    PROVE  CacheInv'
<1> USE SharedCacheAssumption
<1>1. /\ at' \in [REQUESTS -> Places] /\ at'[r] \notin {"new", "done"}
      /\ \A s \in REQUESTS : s # r => at'[s] = at[s]
  BY DEF CacheInv, Types, Places
<1>2. /\ wire' \in [REQUESTS -> {"none", "sent", "executed"}] /\ wire'[r] \in {wire[r], "sent"}
      /\ \A s \in REQUESTS : s # r => wire'[s] = wire[s]
  BY DEF CacheInv, Types
<1>3. Types'
  BY <1>1, <1>2 DEF CacheInv, Types, Noted
<1>4. Idle'
  BY <1>1, <1>2 DEF CacheInv, Idle
<1>5. Finished \subseteq Finished'
  BY <1>1, <1>2 DEF Finished, IsOver
<1>6. History'
  BY <1>5 DEF CacheInv, History, Noted
<1>7. Deleted'
  <2>1. ASSUME NEW s \in REQUESTS, op[s] \in DELETES, wire'[s] = "executed"
        PROVE  server.value \notin over'[s]
    BY <1>2, <2>1 DEF Noted, CacheInv, Deleted, Idle
  <2>2. ASSUME NEW s \in REQUESTS, op[s] \in READS PROVE got[s] \notin over'[s]
    <3>1. CASE s # r \/ at[r] # "new"
      BY <2>2, <3>1 DEF Noted, CacheInv, Deleted
    <3>2. CASE s = r /\ at[r] = "new"
      BY <3>2 DEF Noted, CacheInv, Idle
    <3> QED BY <3>1, <3>2
  <2>3. Alive' <=> Alive
    BY DEF Alive
  <2> QED BY <2>1, <2>2, <2>3 DEF CacheInv, Deleted
<1>8. Timed'
  <2>1. \A s \in REQUESTS : at[s] # "new" => at'[s] # "new" /\ (op[s] \in WRITES => born'[s] = born[s])
    BY <1>1 DEF Noted, CacheInv, Timed, IsOver
  <2>2. \A s \in REQUESTS : op[s] \in WRITES /\ at'[s] # "new" /\ ~IsOver(s)' => born'[s] = now
    BY <1>1, <1>2 DEF Noted, CacheInv, Timed, IsOver
  <2>3. \A e \in EntryType : Dated(e) /\ e.value # Nobody =>
           op[e.value] \in WRITES /\ at'[e.value] # "new" /\ e.until = born'[e.value] + TTL
    BY <2>1 DEF Dated, EntryType, Value
  <2>4. Dated(server)' /\ \A p \in PROCESSES : Dated(memory[p])'
    BY <2>3 DEF Dated, CacheInv, Timed, Types
  <2>5. ASSUME NEW s \in REQUESTS, at'[s] # "done", got[s] # Nobody
        PROVE  op[got[s]] \in WRITES /\ at'[got[s]] # "new" /\ now <= born'[got[s]] + TTL
    <3>1. got[s] \in REQUESTS /\ at[s] # "done"
      BY <1>1, <2>5 DEF CacheInv, Types, Value
    <3> QED BY <2>1, <2>5, <3>1 DEF CacheInv, Timed
  <2> QED BY <2>2, <2>4, <2>5 DEF Timed
<1> QED BY <1>3, <1>4, <1>6, <1>7, <1>8 DEF CacheInv

\* And the server, whose deletes are for ever and whose writes are not over yet.
LEMMA ExecuteKeeps ==
    ASSUME CacheInv, NEW r \in REQUESTS, Execute(r)
    PROVE  CacheInv'
<1> USE SharedCacheAssumption
<1>1. /\ wire[r] = "sent" /\ at[r] # "new" /\ ~IsOver(r) /\ r \notin Finished
      /\ wire' \in [REQUESTS -> {"none", "sent", "executed"}] /\ wire'[r] = "executed"
      /\ \A s \in REQUESTS : s # r => wire'[s] = wire[s]
      /\ UNCHANGED <<now, on, op, at, born, memory, over, doomed>>
  BY DEF Execute, CacheInv, Types, Idle, IsOver, Finished, history
<1>2. /\ server' \in EntryType
      /\ \/ server' = server \/ server' = NoEntry
         \/ op[r] \in WRITES /\ server' = Entry(r)
      /\ op[r] \in DELETES => server' = NoEntry
      /\ got' \in [REQUESTS -> Value]
      /\ \A s \in REQUESTS : s # r \/ op[s] \notin READS => got'[s] = got[s]
      /\ op[r] \in READS => got'[r] = Nobody \/ (Alive /\ got'[r] = server.value)
  <2>1. CASE op[r] \in READS
    <3>1. op[r] \notin DELETES /\ op[r] \notin WRITES
      BY <2>1 DEF READS, WRITES, DELETES
    <3>2. server' = server /\ got' = [got EXCEPT ![r] = IF Alive THEN server.value ELSE Nobody]
      BY <3>1 DEF Execute
    <3> QED BY <2>1, <3>1, <3>2 DEF CacheInv, Types, Value, EntryType
  <2>2. CASE op[r] \notin READS
    BY <2>2 DEF Execute, CacheInv, Types, Entry, NoEntry, EntryType, Value, READS, WRITES, DELETES
  <2> QED BY <2>1, <2>2
<1>3. Types'
  BY <1>1, <1>2 DEF CacheInv, Types
<1>4. Idle'
  BY <1>1, <1>2 DEF CacheInv, Idle
<1>5. Finished \subseteq Finished'
  BY <1>1 DEF Finished, IsOver
<1>6. History'
  BY <1>1, <1>5 DEF CacheInv, History
<1>7. /\ \A s \in REQUESTS : r \notin over[s]
      /\ \A p \in PROCESSES : r \notin doomed[p]
  BY <1>1 DEF CacheInv, History
<1>8. Deleted'
  <2>1. ASSUME NEW s \in REQUESTS, op[s] \in DELETES, wire'[s] = "executed"
        PROVE  server'.value \notin over[s]
    <3>1. CASE server' = NoEntry
      BY <3>1 DEF NoEntry, CacheInv, Types
    <3>2. CASE op[r] \in WRITES /\ server' = Entry(r)
      BY <1>7, <3>2 DEF Entry
    <3>3. CASE server' = server
      BY <1>1, <1>2, <2>1, <3>1, <3>3 DEF CacheInv, Deleted
    <3> QED BY <1>2, <3>1, <3>2, <3>3
  <2>2. ASSUME Alive', NEW p \in PROCESSES PROVE server'.value \notin doomed[p]
    <3>1. CASE server' = NoEntry
      BY <3>1 DEF NoEntry, CacheInv, Types
    <3>2. CASE op[r] \in WRITES /\ server' = Entry(r)
      BY <1>7, <3>2 DEF Entry
    <3>3. CASE server' = server
      BY <1>1, <2>2, <3>3 DEF Alive, CacheInv, Deleted
    <3> QED BY <1>2, <3>1, <3>2, <3>3
  <2>3. ASSUME NEW s \in REQUESTS, op[s] \in READS PROVE got'[s] \notin over[s]
    <3>1. CASE got'[s] = got[s] \/ got'[s] = Nobody
      BY <2>3, <3>1 DEF CacheInv, Deleted, Types
    <3>2. CASE s = r /\ Alive /\ got'[r] = server.value
      BY <2>3, <3>2 DEF CacheInv, Deleted, History, Types
    <3>3. CASE s # r
      BY <1>2, <3>1, <3>3
    <3>4. CASE s = r
      BY <1>2, <2>3, <3>1, <3>2, <3>4
    <3> QED BY <3>3, <3>4
  <2> QED BY <1>1, <2>1, <2>2, <2>3 DEF CacheInv, Deleted
<1>9. Timed'
  <2>1. \A s \in REQUESTS : op[s] \in WRITES /\ at[s] # "new" /\ ~IsOver(s)' => born[s] = now
    BY <1>1 DEF CacheInv, Timed, IsOver
  <2>2. Dated(server)'
    <3>1. CASE op[r] \in WRITES /\ server' = Entry(r)
      BY <1>1, <3>1 DEF Dated, Entry, CacheInv, Timed
    <3> QED BY <1>1, <1>2, <3>1 DEF Dated, NoEntry, CacheInv, Timed
  <2>3. \A p \in PROCESSES : Dated(memory[p])'
    BY <1>1 DEF Dated, CacheInv, Timed
  <2>4. ASSUME NEW s \in REQUESTS, at[s] # "done", got'[s] # Nobody
        PROVE  op[got'[s]] \in WRITES /\ at[got'[s]] # "new" /\ now <= born[got'[s]] + TTL
    <3>1. CASE got'[s] = got[s]
      BY <2>4, <3>1 DEF CacheInv, Timed
    <3>2. CASE Alive /\ got'[s] = server.value
      BY <3>2 DEF Alive, Dated, CacheInv, Timed, Types, EntryType
    <3>3. CASE s # r \/ op[s] \notin READS
      BY <1>2, <3>1, <3>3
    <3>4. CASE s = r /\ op[s] \in READS
      BY <1>2, <2>4, <3>2, <3>4
    <3> QED BY <3>3, <3>4
  <2> QED BY <1>1, <2>1, <2>2, <2>3, <2>4 DEF Timed
<1> QED BY <1>3, <1>4, <1>6, <1>8, <1>9 DEF CacheInv

LEMMA StillKeeps ==
    ASSUME CacheInv, UNCHANGED <<now, on, op, at, got, born, memory, over, doomed>>,
           server' = server \/ server' = NoEntry,
           wire' = wire \/ \E r \in REQUESTS : wire[r] = "sent" /\ wire' = [wire EXCEPT ![r] = "none"]
    PROVE  CacheInv'
<1> USE SharedCacheAssumption
<1>1. /\ wire' \in [REQUESTS -> {"none", "sent", "executed"}]
      /\ \A s \in REQUESTS : wire'[s] = wire[s] \/ wire'[s] = "none"
  BY DEF CacheInv, Types
<1>2. Types'
  BY <1>1 DEF CacheInv, Types, NoEntry, EntryType, Value
<1>3. Idle'
  BY <1>1 DEF CacheInv, Idle
<1>4. Finished \subseteq Finished'
  BY <1>1 DEF Finished, IsOver
<1>5. History'
  BY <1>4 DEF CacheInv, History
<1>6. Deleted'
  <2>1. \A s \in REQUESTS : Nobody \notin over[s]
    BY DEF CacheInv, Types
  <2>2. CASE server' = server
    BY <1>1, <2>2 DEF Alive, CacheInv, Deleted
  <2>3. CASE server' = NoEntry
    BY <2>1, <2>3 DEF NoEntry, Alive, CacheInv, Deleted
  <2> QED BY <2>2, <2>3
<1>7. Timed'
  BY <1>1 DEF CacheInv, Timed, Dated, NoEntry, IsOver
<1> QED BY <1>2, <1>3, <1>5, <1>6, <1>7 DEF CacheInv

LEMMA TickKeeps ==
    ASSUME CacheInv, Tick
    PROVE  CacheInv'
<1> USE SharedCacheAssumption
<1>1. /\ now' = now + 1 /\ UNCHANGED <<on, op, at, wire, got, born, server, memory, over, doomed>>
      /\ \A r \in REQUESTS : at[r] = "new" \/ IsOver(r)
  BY DEF Tick, progress, stores, history
<1>2. Types'
  BY <1>1 DEF CacheInv, Types
<1>3. Idle' /\ History' /\ (Alive' => Alive)
  BY <1>1 DEF CacheInv, Types, EntryType, Idle, History, Finished, IsOver, Alive
<1>4. Deleted'
  BY <1>1, <1>3 DEF CacheInv, Deleted
<1>5. \A r \in REQUESTS : at[r] # "done" => got[r] = Nobody
  BY <1>1 DEF IsOver, CacheInv, Idle
<1>6. Timed'
  BY <1>1, <1>5 DEF CacheInv, Timed, Dated, IsOver
<1> QED BY <1>2, <1>3, <1>4, <1>6 DEF CacheInv

\* What a read is told is good then: what Redis answered it, or its process remembers.
LEMMA EndTells ==
    ASSUME CacheInv, NEW r \in REQUESTS, NEW reached \in BOOLEAN, NEW value \in {Nobody, got[r]},
           at[r] # "done", Finish(r, reached, value)
    PROVE  \A s \in REQUESTS : (at[s] # "done" /\ at'[s] = "done" /\ got'[s] # Nobody)
                                   => now <= born[got'[s]] + TTL
<1> USE SharedCacheAssumption
<1>1. value \in Value
  BY DEF CacheInv, Types, Value
<1>2. Ended(r, reached, value)
  BY <1>1, FinishEnds DEF CacheInv
<1> SUFFICES ASSUME NEW s \in REQUESTS, at[s] # "done", at'[s] = "done", got'[s] # Nobody
             PROVE  now <= born[got'[s]] + TTL
  OBVIOUS
<1>3. s = r /\ op[r] \in READS
  BY <1>2 DEF Ended, CacheInv, Idle
<1>4. got'[r] \in {got[r], InMemory(on[r])}
  BY <1>2, <1>3 DEF Ended
<1>5. CASE got'[r] = got[r]
  BY <1>3, <1>5 DEF CacheInv, Timed
<1>6. CASE got'[r] = InMemory(on[r])
  <2>1. /\ on[r] \in PROCESSES /\ now <= memory[on[r]].until
        /\ got'[r] = memory[on[r]].value
    BY <1>3, <1>6 DEF InMemory, CacheInv, Types
  <2>2. Dated(memory[on[r]])
    BY <2>1 DEF CacheInv, Timed
  <2> QED BY <1>3, <2>1, <2>2 DEF Dated
<1> QED BY <1>4, <1>5, <1>6

Told == \A r \in REQUESTS : (at[r] # "done" /\ at'[r] = "done" /\ got'[r] # Nobody)
                                => now <= born[got'[r]] + TTL

LEMMA QuietTells ==
    ASSUME at' = at \/ \E r \in REQUESTS, place \in Places \ {"done"} : at' = [at EXCEPT ![r] = place],
           CacheInv
    PROVE  Told
BY DEF Told, CacheInv, Types

LEMMA CacheStep == CacheInv /\ [Next]_vars => CacheInv' /\ Told
<1> SUFFICES ASSUME CacheInv, [Next]_vars PROVE CacheInv' /\ Told
  OBVIOUS
<1> USE SharedCacheAssumption
<1>1. Types
  BY DEF CacheInv
<1>2. ASSUME NEW r \in REQUESTS, Begin(r) PROVE CacheInv' /\ Told
  <2>1. at[r] # "done" /\ Noted(r)
    <3>1. at[r] # "done" /\ Note(r)
      BY <1>2 DEF Begin
    <3> QED BY <3>1, NoteNotes
  <2>2. CASE Finish(r, FALSE, Nobody) /\ UNCHANGED <<wire, connection>>
    <3>1. Nobody \in Value /\ Nobody \notin over'[r] /\ UNCHANGED <<now, on, server>>
      BY <1>2, <2>1 DEF Begin, Value, Noted
    <3> QED BY <1>1, <2>1, <2>2, <3>1, EndKeeps, EndTells DEF Types, Told
  <2>3. CASE Send(r) /\ UNCHANGED <<op, got, memory, doomed>>
    <3>1. UNCHANGED <<now, on, op, got, server, memory, doomed>>
      BY <1>2, <2>3 DEF Begin
    <3>2. PICK place \in {"keys", "call"} :
             /\ at' = [at EXCEPT ![r] = place]
             /\ wire' = wire \/ wire' = [wire EXCEPT ![r] = "sent"]
      BY <2>3 DEF Send
    <3> QED BY <2>1, <3>1, <3>2, MoveKeeps, QuietTells DEF Places
  <2>4. CASE at' = [at EXCEPT ![r] = "ping"] /\ UNCHANGED <<op, got, wire, memory, doomed>>
    <3>1. UNCHANGED <<now, on, op, got, server, memory, doomed>>
      BY <1>2, <2>4 DEF Begin
    <3> QED BY <2>1, <2>4, <3>1, MoveKeeps, QuietTells DEF Places
  <2> QED BY <1>2, <2>2, <2>3, <2>4 DEF Begin
<1>3. ASSUME NEW r \in REQUESTS, Pong(r) PROVE CacheInv' /\ Told
  <2>1. at[r] # "done" /\ Noted(r) /\ UNCHANGED <<now, on, server>>
    BY <1>3, KeepNotes DEF Pong
  <2>2. CASE Finish(r, FALSE, Nobody) /\ UNCHANGED wire
    <3>1. Nobody \in Value /\ Nobody \notin over'[r]
      BY <2>1 DEF Value, Noted
    <3> QED BY <1>1, <2>1, <2>2, <3>1, EndKeeps, EndTells DEF Types, Told
  <2>3. CASE Send(r) /\ UNCHANGED <<op, got, memory, doomed>>
    <3>1. PICK place \in {"keys", "call"} :
             /\ at' = [at EXCEPT ![r] = place]
             /\ wire' = wire \/ wire' = [wire EXCEPT ![r] = "sent"]
      BY <2>3 DEF Send
    <3> QED BY <2>1, <2>3, <3>1, MoveKeeps, QuietTells DEF Places
  <2> QED BY <1>3, <2>2, <2>3 DEF Pong
<1>4. ASSUME NEW r \in REQUESTS, NoPong(r) \/ NoKeys(r) \/ Fail(r) PROVE CacheInv' /\ Told
  <2>1. /\ at[r] \notin {"done", "new"} /\ UNCHANGED <<now, on, server, born, over>>
        /\ Finish(r, FALSE, Nobody)
    BY <1>4 DEF NoPong, NoKeys, Fail
  <2>2. /\ wire' \in [REQUESTS -> {"none", "sent", "executed"}] /\ wire'[r] \in {wire[r], "none"}
        /\ \A s \in REQUESTS : s # r => wire'[s] = wire[s]
    BY <1>1, <1>4 DEF NoPong, NoKeys, Fail, Types
  <2>3. Noted(r)
    BY <2>1, KeepNotes
  <2>4. Nobody \in Value /\ Nobody \notin over'[r]
    BY <2>3 DEF Value, Noted
  <2> QED BY <2>1, <2>2, <2>3, <2>4, EndKeeps, EndTells DEF Told
<1>5. ASSUME NEW r \in REQUESTS, Keys(r) PROVE CacheInv' /\ Told
  <2>1. at[r] # "done" /\ Noted(r) /\ UNCHANGED <<now, on, server>>
    BY <1>5, KeepNotes DEF Keys
  <2>2. CASE ~Alive
    <3>1. Nobody \in Value /\ Nobody \notin over'[r] /\ Finish(r, TRUE, Nobody) /\ wire' = wire
      BY <1>5, <2>1, <2>2 DEF Keys, Value, Noted
    <3> QED BY <1>1, <2>1, <2>2, <3>1, EndKeeps, EndTells DEF Types, Told
  <2>3. CASE Alive
    <3>1. /\ at' = [at EXCEPT ![r] = "call"] /\ wire' = [wire EXCEPT ![r] = "sent"]
          /\ UNCHANGED <<op, got, memory, doomed>>
      BY <1>5, <2>3 DEF Keys
    <3> QED BY <2>1, <3>1, MoveKeeps, QuietTells DEF Places
  <2> QED BY <2>2, <2>3
<1>6. ASSUME NEW r \in REQUESTS, Answer(r) PROVE CacheInv' /\ Told
  <2>1. /\ at[r] \notin {"done", "new"} /\ wire[r] = "executed" /\ Finish(r, TRUE, got[r])
        /\ UNCHANGED <<now, on, server, wire, born, over>>
    BY <1>6 DEF Answer
  <2>2. Noted(r) /\ got[r] \in Value
    BY <1>1, <2>1, KeepNotes DEF Types
  <2>3. op[r] \in READS => got[r] \notin over'[r]
    BY <2>1 DEF CacheInv, Deleted
  <2>4. op[r] \in DELETES => server.value \notin over[r]
    BY <2>1 DEF CacheInv, Deleted
  <2> QED BY <1>1, <2>1, <2>2, <2>3, <2>4, EndKeeps, EndTells DEF Types, Told
<1>7. ASSUME NEW r \in REQUESTS, Execute(r) PROVE CacheInv' /\ Told
  BY <1>7, ExecuteKeeps, QuietTells DEF Execute
<1>8. ASSUME NEW r \in REQUESTS, Lose(r) PROVE CacheInv' /\ Told
  BY <1>8, StillKeeps, QuietTells DEF Lose, stores, history
<1>9. CASE Evict \/ \E p \in PROCESSES : Trouble(p)
  BY <1>9, StillKeeps, QuietTells DEF Evict, Trouble, progress, stores, history
<1>10. CASE Tick
  BY <1>10, TickKeeps, QuietTells DEF Tick, progress
<1>11. CASE UNCHANGED vars
  BY <1>11, StillKeeps, QuietTells DEF vars, progress, stores, history
<1> QED BY <1>2, <1>3, <1>4, <1>5, <1>6, <1>7, <1>8, <1>9, <1>10, <1>11 DEF Next

LEMMA CacheAlways == Spec => []CacheInv
BY InitCache, CacheStep, PTL DEF Spec

\* OwnDeleteIsFinal for any processes, requests and lifetimes: what a process deleted, it reads
\* no more, whatever becomes of its connection to Redis (cacheService.ts:170 and :191).
THEOREM DeletesAreFinal == Spec => []OwnDeleteIsFinal
<1>1. CacheInv => OwnDeleteIsFinal
  BY DEF CacheInv, Deleted, OwnDeleteIsFinal
<1> QED BY <1>1, CacheAlways, PTL

\* ValuesDie for any processes, requests and lifetimes: a read answers no value after its time
\* (cacheService.ts:118 and :143).
THEOREM NothingOutlives == Spec => ValuesDie
<1>1. CacheInv /\ [Next]_vars =>
        [\A r \in REQUESTS : (at[r] # "done" /\ at'[r] = "done" /\ got'[r] # Nobody)
                                 => now <= born[got'[r]] + TTL]_vars
  BY CacheStep DEF Told
<1> QED BY <1>1, CacheAlways, PTL DEF Spec, ValuesDie
=============================================================================
