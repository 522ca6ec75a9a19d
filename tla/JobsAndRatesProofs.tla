-------------------------- MODULE JobsAndRatesProofs --------------------------
(***************************************************************************)
(* Theorems about two modules that share no name: BackgroundJobs, for any  *)
(* jobs, retries and slots, and ExchangeRates, for any currencies,         *)
(* providers, requests and fetches.                                        *)
(***************************************************************************)
EXTENDS BackgroundJobs, ExchangeRates, FiniteSetTheorems, TLAPS

Places == {"outside", "queued", "running", "waiting", "done", "failed"}

\* What was tried of each job, from where it is.
Tried(j) ==
    /\ left[j] <= RETRIES[j]
    /\ place[j] \in {"outside", "queued"} => runs[j] = RETRIES[j] - left[j]
    /\ place[j] \notin {"outside", "queued"} => runs[j] = RETRIES[j] - left[j] + 1
    /\ place[j] = "waiting" => left[j] > 0
    /\ place[j] = "failed" => left[j] = 0

JobsInv == TypeOK /\ SlotsWellUsed /\ QueuedOnce /\ \A j \in JOBS : Tried(j)

\* What processNext is given: a queue in order, the handlers that run, and no more
\* jobs than it can start left waiting beside a free slot.
Given(q, a, p) ==
    /\ q \in Seq(JOBS) /\ a \in Nat /\ p \in [JOBS -> Places]
    /\ \A x, y \in DOMAIN q : q[x] = q[y] => x = y
    /\ \A j \in JOBS : p[j] = "queued" <=> \E x \in DOMAIN q : q[x] = j
    /\ a = Cardinality({j \in JOBS : p[j] = "running"})
    /\ a <= CONCURRENCY
    /\ q = <<>> \/ a = CONCURRENCY \/ a = CONCURRENCY - 1 \/ Len(q) = 1

\* processNext leaves the slots well used and every queued job in the queue once.
LEMMA ProcessNextWorks ==
    ASSUME NEW q, NEW a, NEW p, Given(q, a, p), ProcessNext(q, a, p),
           left' \in [JOBS -> Nat], runs \in [JOBS -> Nat]
    PROVE  TypeOK' /\ SlotsWellUsed' /\ QueuedOnce'
<1> USE JobsAssumption
<1>1. CASE a >= CONCURRENCY \/ q = <<>>
  <2>1. queue' = q /\ active' = a /\ place' = p /\ runs' = runs
    BY <1>1 DEF ProcessNext, Given
  <2>2. TypeOK'
    BY <2>1 DEF TypeOK, Given, Places
  <2>3. Running' = {j \in JOBS : p[j] = "running"}
    BY <2>1 DEF Running
  <2>4. queue' # <<>> => active' = CONCURRENCY
    BY <1>1, <2>1 DEF Given
  <2>5. SlotsWellUsed'
    BY <2>1, <2>3, <2>4 DEF SlotsWellUsed, Given
  <2>6. QueuedOnce'
    BY <2>1 DEF QueuedOnce, Given
  <2> QED
    BY <2>2, <2>5, <2>6
<1>2. CASE a < CONCURRENCY /\ q # <<>>
  <2> DEFINE h == Head(q)
  <2>1. /\ q \in Seq(JOBS) /\ h \in JOBS /\ h = q[1] /\ 1 \in DOMAIN q
        /\ Tail(q) \in Seq(JOBS) /\ Len(Tail(q)) = Len(q) - 1
        /\ \A x \in DOMAIN Tail(q) : x + 1 \in DOMAIN q /\ x + 1 # 1 /\ Tail(q)[x] = q[x + 1]
        /\ \A x \in DOMAIN q : x # 1 => x - 1 \in DOMAIN Tail(q) /\ Tail(q)[x - 1] = q[x]
    <3>1. q \in Seq(JOBS) /\ Len(q) \in Nat \ {0} /\ DOMAIN q = 1 .. Len(q)
      BY <1>2 DEF Given
    <3>2. Tail(q) \in Seq(JOBS) /\ Len(Tail(q)) = Len(q) - 1
      BY <3>1, <1>2
    <3>3. DOMAIN Tail(q) = 1 .. Len(q) - 1
      BY <3>2
    <3>4. \A x \in 1 .. Len(q) - 1 : Tail(q)[x] = q[x + 1]
      BY <3>1, <1>2
    <3>5. h \in JOBS /\ h = q[1]
      BY <3>1, <1>2
    <3>6. ASSUME NEW x \in DOMAIN Tail(q)
          PROVE  x + 1 \in DOMAIN q /\ x + 1 # 1 /\ Tail(q)[x] = q[x + 1]
      <4>1. x \in 1 .. Len(q) - 1
        BY <3>3
      <4>2. x + 1 \in 1 .. Len(q) /\ x + 1 # 1
        <5> DEFINE n == Len(q)
        <5>1. n \in Nat /\ x \in 1 .. n - 1
          BY <3>1, <4>1
        <5> HIDE DEF n
        <5>2. x + 1 \in 1 .. n /\ x + 1 # 1
          BY <5>1
        <5> QED
          BY <5>2 DEF n
      <4>3. Tail(q)[x] = q[x + 1]
        BY <3>4, <4>1, Zenon
      <4> QED
        BY <3>1, <4>2, <4>3, Zenon
    <3>7. ASSUME NEW x \in DOMAIN q, x # 1
          PROVE  x - 1 \in DOMAIN Tail(q) /\ Tail(q)[x - 1] = q[x]
      <4>1. x - 1 \in 1 .. Len(q) - 1 /\ (x - 1) + 1 = x
        BY SMTT(40), <3>1, <3>7
      <4>2. Tail(q)[x - 1] = q[(x - 1) + 1]
        BY <3>4, <4>1
      <4> QED
        BY <3>3, <4>1, <4>2
    <3>8. 1 \in DOMAIN q
      BY <3>1
    <3> QED
      BY <3>1, <3>2, <3>5, <3>6, <3>7, <3>8
  <2>2. p[h] = "queued"
    BY <2>1 DEF Given
  <2>3. /\ queue' = Tail(q) /\ active' = a + 1
        /\ place' = [p EXCEPT ![h] = "running"] /\ runs' = [runs EXCEPT ![h] = @ + 1]
    BY SMTT(40), <1>2 DEF ProcessNext, Given
  <2> HIDE DEF h
  <2>4. TypeOK'
    BY SMTT(40), <2>1, <2>3 DEF TypeOK, Given, Places
  <2>5. SlotsWellUsed'
    <3> DEFINE before == {j \in JOBS : p[j] = "running"}
    <3>1. Running' = before \cup {h} /\ h \notin before
      BY <2>1, <2>2, <2>3 DEF Running, Given
    <3>2. IsFiniteSet(before)
      BY FS_Subset
    <3>3. Cardinality(Running') = a + 1
      BY <3>1, <3>2, FS_AddElement DEF Given
    <3>4. Cardinality(Running)' = Cardinality(Running')
      OBVIOUS
    <3>5. queue' # <<>> => active' = CONCURRENCY
      <4>1. queue' # <<>> => Len(q) # 1
        BY <2>1, <2>3
      <4> QED
        BY <1>2, <2>3, <4>1 DEF Given
    <3> QED
      BY <1>2, <2>3, <3>3, <3>4, <3>5 DEF SlotsWellUsed, Given
  <2>6. QueuedOnce'
    <3>1. \A x, y \in DOMAIN Tail(q) : Tail(q)[x] = Tail(q)[y] => x = y
      BY <2>1 DEF Given
    <3>2. ASSUME NEW j \in JOBS PROVE place'[j] = "queued" <=> \E x \in DOMAIN Tail(q) : Tail(q)[x] = j
      <4>1. CASE j = h
        <5>1. place'[j] = "running"
          BY <2>1, <2>3, <4>1 DEF Given
        <5>2. ASSUME NEW x \in DOMAIN Tail(q) PROVE Tail(q)[x] # j
          <6>1. x + 1 \in DOMAIN q /\ x + 1 # 1 /\ Tail(q)[x] = q[x + 1]
            BY <2>1
          <6>2. q[x + 1] # q[1]
            BY <2>1, <6>1 DEF Given
          <6> QED
            BY <2>1, <4>1, <6>1, <6>2
        <5> QED
          BY <5>1, <5>2
      <4>2. CASE j # h
        <5>1. place'[j] = p[j]
          BY <2>3, <4>2 DEF Given
        <5>2. (\E x \in DOMAIN q : q[x] = j) <=> \E x \in DOMAIN Tail(q) : Tail(q)[x] = j
          BY ZenonT(40), <2>1, <4>2
        <5> QED
          BY <5>1, <5>2 DEF Given
      <4> QED
        BY <4>1, <4>2
    <3> QED
      BY <2>3, <3>1, <3>2 DEF QueuedOnce
  <2> QED
    BY <2>4, <2>5, <2>6
<1> QED
  BY <1>1, <1>2 DEF ProcessNext

\* A job that comes to the end of the queue was not in it.
LEMMA AppendGiven ==
    ASSUME JobsInv, NEW j \in JOBS, place[j] \notin {"queued", "running"}
    PROVE  Given(Append(queue, j), active, [place EXCEPT ![j] = "queued"])
<1> DEFINE q == Append(queue, j)
           p == [place EXCEPT ![j] = "queued"]
<1> USE JobsAssumption DEF JobsInv
<1>1. /\ q \in Seq(JOBS) /\ Len(q) = Len(queue) + 1 /\ q[Len(queue) + 1] = j
      /\ Len(queue) + 1 \in DOMAIN q
      /\ \A x \in DOMAIN queue : x \in DOMAIN q /\ q[x] = queue[x]
      /\ \A x \in DOMAIN q : x \in DOMAIN queue \/ x = Len(queue) + 1
  <2>1. queue \in Seq(JOBS) /\ Len(queue) \in Nat /\ DOMAIN queue = 1 .. Len(queue)
    BY DEF TypeOK
  <2>2. q \in Seq(JOBS) /\ Len(q) = Len(queue) + 1
    BY <2>1
  <2>3. DOMAIN q = 1 .. Len(queue) + 1
    BY <2>1, <2>2
  <2>4. q[Len(queue) + 1] = j /\ \A x \in 1 .. Len(queue) : q[x] = queue[x]
    BY <2>1
  <2> QED
    BY <2>1, <2>2, <2>3, <2>4
<1>2. \A x \in DOMAIN queue : queue[x] # j
  BY DEF QueuedOnce
<1>3. p \in [JOBS -> Places] /\ active \in Nat /\ active <= CONCURRENCY
  BY DEF TypeOK, Places, SlotsWellUsed
<1>4. active = Cardinality({k \in JOBS : p[k] = "running"})
  <2>1. {k \in JOBS : p[k] = "running"} = Running
    BY DEF Running, TypeOK
  <2> QED
    BY <2>1 DEF SlotsWellUsed
<1>5. active = CONCURRENCY \/ Len(q) = 1
  BY <1>1 DEF SlotsWellUsed, TypeOK
<1>6. \A k \in JOBS : p[k] = "queued" <=> \E x \in DOMAIN q : q[x] = k
  BY SMTT(40), <1>1 DEF QueuedOnce, TypeOK
<1>7. \A x, y \in DOMAIN q : q[x] = q[y] => x = y
  BY <1>1, <1>2 DEF QueuedOnce
<1> QED
  BY <1>1, <1>3, <1>4, <1>5, <1>6, <1>7 DEF Given

\* A handler that has settled leaves one slot for one waiting job.
LEMMA SettledGiven ==
    ASSUME JobsInv, NEW j \in JOBS, place[j] = "running", NEW to \in {"done", "waiting", "failed"}
    PROVE  Given(queue, active - 1, [place EXCEPT ![j] = to])
<1> USE JobsAssumption DEF JobsInv
<1> DEFINE p == [place EXCEPT ![j] = to]
<1>1. {k \in JOBS : p[k] = "running"} = Running \ {j} /\ j \in Running
  BY DEF Running, TypeOK
<1>2. IsFiniteSet(Running)
  BY FS_Subset DEF Running
<1>3. /\ active - 1 = Cardinality({k \in JOBS : p[k] = "running"})
      /\ active - 1 \in Nat
  <2>1. Cardinality(Running \ {j}) = Cardinality(Running) - 1 /\ IsFiniteSet(Running \ {j})
    BY <1>1, <1>2, FS_RemoveElement
  <2>2. Cardinality(Running \ {j}) \in Nat
    BY <2>1, FS_CardinalityType
  <2> QED
    BY <1>1, <2>1, <2>2 DEF SlotsWellUsed
<1>4. p \in [JOBS -> Places] /\ \A k \in JOBS : p[k] = "queued" <=> place[k] = "queued"
  BY DEF TypeOK, Places
<1>5. queue \in Seq(JOBS) /\ (queue = <<>> \/ active - 1 = CONCURRENCY - 1) /\ active - 1 <= CONCURRENCY
  BY SMTT(40) DEF TypeOK, SlotsWellUsed
<1> QED
  BY <1>3, <1>4, <1>5 DEF Given, QueuedOnce

\* What processNext does to the record of a job's tries.
LEMMA ProcessNextCounts ==
    ASSUME NEW q, NEW a, NEW p, Given(q, a, p), ProcessNext(q, a, p), runs \in [JOBS -> Nat]
    PROVE  \A j \in JOBS :
              \/ place'[j] = p[j] /\ runs'[j] = runs[j]
              \/ p[j] = "queued" /\ place'[j] = "running" /\ runs'[j] = runs[j] + 1
<1>1. CASE a >= CONCURRENCY \/ q = <<>>
  BY <1>1, JobsAssumption DEF ProcessNext, Given
<1>2. CASE a < CONCURRENCY /\ q # <<>>
  <2>1. Head(q) \in JOBS /\ Head(q) = q[1] /\ 1 \in DOMAIN q
    BY <1>2 DEF Given
  <2>2. p[Head(q)] = "queued"
    BY <2>1 DEF Given
  <2> QED
    BY <1>2, <2>1, <2>2, JobsAssumption DEF ProcessNext, Given
<1> QED
  BY <1>1, <1>2 DEF ProcessNext

\* Nothing waits and nothing runs at the start.
LEMMA JobsInit == ASSUME Init PROVE JobsInv
<1>1. Running = {} /\ Cardinality(Running) = 0
  BY FS_EmptySet DEF Init, Running
<1> QED
  BY <1>1, JobsAssumption DEF Init, JobsInv, TypeOK, SlotsWellUsed, QueuedOnce, Tried

\* Each event keeps the queue, the slots and the count of tries in step.
LEMMA JobsStep == ASSUME JobsInv, [Next]_vars PROVE JobsInv'
<1> USE JobsAssumption
<1>1. ASSUME NEW j \in JOBS, Enqueue(j) PROVE JobsInv'
  <2> DEFINE p == [place EXCEPT ![j] = "queued"]
  <2>1. Given(Append(queue, j), active, p) /\ ProcessNext(Append(queue, j), active, p) /\ left' = left
    BY <1>1, AppendGiven DEF Enqueue
  <2>2. TypeOK' /\ SlotsWellUsed' /\ QueuedOnce'
    BY <2>1, ProcessNextWorks DEF JobsInv, TypeOK
  <2>3. \A k \in JOBS : \/ place'[k] = p[k] /\ runs'[k] = runs[k]
                        \/ p[k] = "queued" /\ place'[k] = "running" /\ runs'[k] = runs[k] + 1
    BY <2>1, ProcessNextCounts DEF JobsInv, TypeOK
  <2>4. ASSUME NEW k \in JOBS PROVE Tried(k)'
    BY ZenonT(40), <1>1, <2>1, <2>3 DEF Enqueue, JobsInv, TypeOK, Tried
  <2> QED
    BY <2>2, <2>4 DEF JobsInv
<1>2. ASSUME NEW j \in JOBS, place[j] = "running", left' = left, NEW to \in {"done", "waiting", "failed"},
             to = "waiting" => left[j] > 0, to = "failed" => left[j] = 0,
             ProcessNext(queue, active - 1, [place EXCEPT ![j] = to])
      PROVE  JobsInv'
  <2> DEFINE p == [place EXCEPT ![j] = to]
  <2>1. Given(queue, active - 1, p)
    BY <1>2, SettledGiven
  <2>2. TypeOK' /\ SlotsWellUsed' /\ QueuedOnce'
    BY <1>2, <2>1, ProcessNextWorks DEF JobsInv, TypeOK
  <2>3. \A k \in JOBS : \/ place'[k] = p[k] /\ runs'[k] = runs[k]
                        \/ p[k] = "queued" /\ place'[k] = "running" /\ runs'[k] = runs[k] + 1
    BY <1>2, <2>1, ProcessNextCounts DEF JobsInv, TypeOK
  <2>4. ASSUME NEW k \in JOBS PROVE Tried(k)'
    BY <1>2, <2>3 DEF JobsInv, TypeOK, Tried
  <2> QED
    BY <2>2, <2>4 DEF JobsInv
<1>3. ASSUME NEW j \in JOBS, Settle(j) PROVE JobsInv'
  BY <1>2, <1>3 DEF Settle, Succeed, Fail, JobsInv, TypeOK
<1>4. ASSUME NEW j \in JOBS, Retry(j) PROVE JobsInv'
  <2> DEFINE p == [place EXCEPT ![j] = "queued"]
  <2>1. Given(Append(queue, j), active, p) /\ ProcessNext(Append(queue, j), active, p)
    BY <1>4, AppendGiven DEF Retry
  <2>2. left[j] > 0 /\ left' = [left EXCEPT ![j] = @ - 1] /\ left' \in [JOBS -> Nat]
    BY <1>4 DEF Retry, JobsInv, TypeOK, Tried
  <2>3. TypeOK' /\ SlotsWellUsed' /\ QueuedOnce'
    BY <2>1, <2>2, ProcessNextWorks DEF JobsInv, TypeOK
  <2>4. \A k \in JOBS : \/ place'[k] = p[k] /\ runs'[k] = runs[k]
                        \/ p[k] = "queued" /\ place'[k] = "running" /\ runs'[k] = runs[k] + 1
    BY <2>1, ProcessNextCounts DEF JobsInv, TypeOK
  <2>5. ASSUME NEW k \in JOBS PROVE Tried(k)'
    BY SMTT(40), <1>4, <2>2, <2>4 DEF Retry, JobsInv, TypeOK, Tried
  <2> QED
    BY <2>3, <2>5 DEF JobsInv
<1>5. ASSUME UNCHANGED vars PROVE JobsInv'
  BY <1>5 DEF vars, JobsInv, TypeOK, SlotsWellUsed, QueuedOnce, Tried, Running
<1> QED
  BY <1>1, <1>3, <1>4, <1>5 DEF Next, Idle

\* The queue, the slots and the tries are always in step.
LEMMA JobsInductive == Spec => []JobsInv
<1>1. Init => JobsInv
  BY JobsInit
<1>2. JobsInv /\ [Next]_vars => JobsInv'
  BY JobsStep
<1> QED
  BY <1>1, <1>2, PTL DEF Spec

\* No free slot beside a waiting job, no handler too many.
THEOREM WorkConserving == Spec => []SlotsWellUsed
<1>1. JobsInv => SlotsWellUsed
  BY DEF JobsInv
<1> QED
  BY <1>1, JobsInductive, PTL

\* No job is lost from the queue or in it twice.
THEOREM NoJobTwice == Spec => []QueuedOnce
<1>1. JobsInv => QueuedOnce
  BY DEF JobsInv
<1> QED
  BY <1>1, JobsInductive, PTL

\* A job is tried once and for each of its retries before it is given up.
THEOREM RetriesUsed == Spec => []TriedAsPromised
<1>1. ASSUME JobsInv, NEW j \in JOBS
      PROVE  runs[j] <= RETRIES[j] + 1 /\ (place[j] = "failed" => runs[j] = RETRIES[j] + 1)
  <2>1. left[j] \in Nat /\ RETRIES[j] \in Nat
    BY <1>1, JobsAssumption DEF JobsInv, TypeOK
  <2> QED
    BY <1>1, <2>1 DEF JobsInv, Tried
<1>2. JobsInv => TriedAsPromised
  BY <1>1 DEF TriedAsPromised
<1> QED
  BY <1>2, JobsInductive, PTL

-----------------------------------------------------------------------------
(* Exchange rates: nobody is answered an older rate of a provider after a newer one. *)

Rate == [from : PROVIDERS \cup {Default, Nothing}, version : Nat]

Types ==
    /\ version \in [PROVIDERS -> Nat]
    /\ rate \in [PAIRS -> Rate]
    /\ last \in [PAIRS -> [PROVIDERS -> Nat]]
    /\ shared \in [PAIRS -> FETCHES \cup {Nothing}]
    /\ pairOf \in [FETCHES -> PAIRS \cup {Nothing}]
    /\ leg \in [FETCHES -> [PROVIDERS -> {"asked", "read", "failed"}]]
    /\ found \in [FETCHES -> [PROVIDERS -> Nat]]

\* A fetch that is under way is the one its pair knows of: a pair has one at most.
OneFetch == \A f \in FETCHES : pairOf[f] # Nothing => shared[pairOf[f]] = f

\* What is cached of a provider lies between what has been answered and what it has now,
Cached ==
    \A pair \in PAIRS, x \in PROVIDERS :
       /\ last[pair][x] <= version[x]
       /\ rate[pair].from = x =>
             last[pair][x] <= rate[pair].version /\ rate[pair].version <= version[x]

\* and what a fetch has read, between what is cached and that.
Found ==
    \A f \in FETCHES, x \in PROVIDERS :
       (pairOf[f] # Nothing /\ leg[f][x] = "read") =>
          /\ last[pairOf[f]][x] <= found[f][x] /\ found[f][x] <= version[x]
          /\ rate[pairOf[f]].from = x => rate[pairOf[f]].version <= found[f][x]

\* A fetch that is not under way has asked nobody yet.
AtRest == \A f \in FETCHES : pairOf[f] = Nothing => \A x \in PROVIDERS : leg[f][x] = "asked"

RatesInv == Types /\ OneFetch /\ AtRest /\ Cached /\ Found

Forward == \A pair \in PAIRS, x \in PROVIDERS : last'[pair][x] >= last[pair][x]

\* Nothing is cached or fetched at first.
LEMMA InitRates == RatesInit => RatesInv
<1> USE ExchangeRatesAssumption DEF RatesInit, Rate, NoRate
<1> SUFFICES ASSUME RatesInit PROVE RatesInv
  OBVIOUS
<1>1. Types
  BY DEF Types
<1>2. OneFetch /\ AtRest
  BY DEF OneFetch, AtRest
<1>3. Cached /\ Found
  BY DEF Cached, Found
<1> QED BY <1>1, <1>2, <1>3 DEF RatesInv

\* A request joins the fetch of its pair, or begins one that has asked nobody.
LEMMA JoinRates ==
    ASSUME RatesInv, NEW pair \in PAIRS, Join(pair)
    PROVE  /\ shared' \in [PAIRS -> FETCHES \cup {Nothing}]
           /\ pairOf' \in [FETCHES -> PAIRS \cup {Nothing}]
           /\ leg' = leg /\ found' = found
           /\ \A f \in FETCHES : \/ pairOf'[f] = pairOf[f]
                                 \/ (pairOf[f] = Nothing /\ pairOf'[f] = pair)
           /\ OneFetch' /\ AtRest'
<1> USE ExchangeRatesAssumption DEF RatesInv, Types, OneFetch, AtRest
<1>1. CASE shared[pair] # Nothing
  <2>1. UNCHANGED <<shared, pairOf, leg, found>>
    BY <1>1 DEF Join, fetches
  <2> QED BY <2>1
<1>2. CASE shared[pair] = Nothing
  <2>1. PICK f \in FETCHES : /\ pairOf[f] = Nothing
                             /\ pairOf' = [pairOf EXCEPT ![f] = pair]
                             /\ shared' = [shared EXCEPT ![pair] = f]
                             /\ UNCHANGED <<leg, found>>
    BY <1>2 DEF Join, Fetch
  <2>2. /\ shared' \in [PAIRS -> FETCHES \cup {Nothing}]
        /\ pairOf' \in [FETCHES -> PAIRS \cup {Nothing}]
        /\ leg' = leg /\ found' = found
    BY <2>1
  <2>3. \A g \in FETCHES : \/ pairOf'[g] = pairOf[g]
                           \/ (pairOf[g] = Nothing /\ pairOf'[g] = pair)
    BY <2>1
  <2>4. OneFetch'
    <3> SUFFICES ASSUME NEW g \in FETCHES, pairOf'[g] # Nothing PROVE shared'[pairOf'[g]] = g
      OBVIOUS
    <3>1. CASE g = f
      BY <2>1, <3>1
    <3>2. CASE g # f
      <4>1. pairOf'[g] = pairOf[g] /\ shared[pairOf[g]] = g
        BY <2>1, <3>2
      <4>2. pairOf[g] # pair
        BY <1>2, <4>1
      <4> QED BY <2>1, <4>1, <4>2
    <3> QED BY <3>1, <3>2
  <2>5. AtRest'
    BY <2>1
  <2> QED BY <2>2, <2>3, <2>4, <2>5
<1> QED BY <1>1, <1>2

\* A request that asks for a rate keeps what is read between what was answered and what is current.
LEMMA AskedRates ==
    ASSUME RatesInv, NEW r \in REQUESTS, NEW pair \in PAIRS, GetExchangeRate(r, pair)
    PROVE  RatesInv' /\ Forward
<1> USE ExchangeRatesAssumption DEF RatesInv, Types, Rate, NoRate, DefaultRate, GetExchangeRate
<1>1. CASE AnswerKnown(r, pair)
  <2> DEFINE known == rate[pair]
  <2>1. /\ rate' = rate /\ version' = version
        /\ \/ last' = last
           \/ /\ known.from \in PROVIDERS
              /\ last' = [last EXCEPT ![pair] = [last[pair] EXCEPT ![known.from] = known.version]]
    BY <1>1 DEF AnswerKnown, Answered, rates
  <2>2. /\ shared' \in [PAIRS -> FETCHES \cup {Nothing}]
        /\ pairOf' \in [FETCHES -> PAIRS \cup {Nothing}]
        /\ leg' = leg /\ found' = found
        /\ \A f \in FETCHES : pairOf'[f] = pairOf[f] \/ pairOf[f] = Nothing
        /\ OneFetch' /\ AtRest'
    <3>1. CASE pair \in fresh
      <4>1. UNCHANGED <<shared, pairOf, leg, found>>
        BY <1>1, <3>1 DEF AnswerKnown, fetches
      <4> QED BY <4>1 DEF OneFetch, AtRest
    <3>2. CASE pair \notin fresh
      <4>1. Join(pair)
        BY <1>1, <3>2 DEF AnswerKnown
      <4> HIDE DEF RatesInv, Types, Rate
      <4> QED BY <4>1, JoinRates
    <3> QED BY <3>1, <3>2
  <2> known \in Rate /\ known.version \in Nat
    OBVIOUS
  <2> HIDE DEF known
  <2>3. /\ last' \in [PAIRS -> [PROVIDERS -> Nat]]
        /\ \A other \in PAIRS, x \in PROVIDERS :
              last'[other][x] = last[other][x]
              \/ (other = pair /\ x = known.from /\ last'[other][x] = known.version)
    <3>1. CASE last' = last
      BY <3>1
    <3>2. CASE /\ known.from \in PROVIDERS
               /\ last' = [last EXCEPT ![pair] = [last[pair] EXCEPT ![known.from] = known.version]]
      BY <3>2
    <3> QED BY <2>1, <3>1, <3>2
  <2>4. Types'
    BY <2>1, <2>2, <2>3
  <2>5. Cached'
    BY <2>1, <2>3 DEF Cached, known
  <2>6. Found'
    <3> SUFFICES ASSUME NEW f \in FETCHES, NEW x \in PROVIDERS,
                        pairOf'[f] # Nothing, leg'[f][x] = "read"
                 PROVE  /\ last'[pairOf'[f]][x] <= found'[f][x] /\ found'[f][x] <= version'[x]
                        /\ rate'[pairOf'[f]].from = x => rate'[pairOf'[f]].version <= found'[f][x]
      BY DEF Found
    <3>1. pairOf'[f] = pairOf[f]
      BY <2>2 DEF AtRest
    <3> QED BY <2>1, <2>2, <2>3, <3>1 DEF Found, Cached, known
  <2>7. Forward
    BY <2>3 DEF Forward, Cached, known
  <2> QED BY <2>2, <2>4, <2>5, <2>6, <2>7
<1>2. CASE AnswerDefault(r, pair) \/ AwaitRate(r, pair)
  <2>1. /\ version' = version /\ last' = last
        /\ rate' = rate \/ rate' = [rate EXCEPT ![pair] = DefaultRate]
    BY <1>2 DEF AnswerDefault, AwaitRate, rates
  <2>2. /\ shared' \in [PAIRS -> FETCHES \cup {Nothing}]
        /\ pairOf' \in [FETCHES -> PAIRS \cup {Nothing}]
        /\ leg' = leg /\ found' = found
        /\ \A f \in FETCHES : pairOf'[f] = pairOf[f] \/ pairOf[f] = Nothing
        /\ OneFetch' /\ AtRest'
    <3>1. CASE UNCHANGED fetches
      <4>1. UNCHANGED <<shared, pairOf, leg, found>>
        BY <3>1 DEF fetches
      <4> QED BY <4>1 DEF OneFetch, AtRest
    <3>2. CASE Join(pair)
      <4> HIDE DEF RatesInv, Types, Rate
      <4> QED BY <3>2, JoinRates
    <3> QED BY <1>2, <3>1, <3>2 DEF AnswerDefault, AwaitRate
  <2>7. /\ rate' \in [PAIRS -> Rate]
        /\ \A other \in PAIRS : rate'[other] = rate[other] \/ rate'[other].from = Default
    <3>1. CASE rate' = rate
      BY <3>1
    <3>2. CASE rate' = [rate EXCEPT ![pair] = DefaultRate]
      BY <3>2
    <3> QED BY <2>1, <3>1, <3>2
  <2>3. Types'
    BY <2>1, <2>2, <2>7
  <2>4. Cached'
    BY <2>1, <2>7 DEF Cached
  <2>5. Found'
    <3> SUFFICES ASSUME NEW f \in FETCHES, NEW x \in PROVIDERS,
                        pairOf'[f] # Nothing, leg'[f][x] = "read"
                 PROVE  /\ last'[pairOf'[f]][x] <= found'[f][x] /\ found'[f][x] <= version'[x]
                        /\ rate'[pairOf'[f]].from = x => rate'[pairOf'[f]].version <= found'[f][x]
      BY DEF Found
    <3>1. pairOf'[f] = pairOf[f]
      BY <2>2 DEF AtRest
    <3> QED BY <2>1, <2>2, <2>7, <3>1 DEF Found
  <2>6. Forward
    BY <2>1 DEF Forward
  <2> QED BY <2>2, <2>3, <2>4, <2>5, <2>6
<1> QED BY <1>1, <1>2

\* What is stored for one pair is what was read for it; the others keep their rates or lose them.
LEMMA StoreRates ==
    ASSUME RatesInv, NEW pair \in PAIRS, NEW known \in Rate, Store(pair, known)
    PROVE  /\ rate' \in [PAIRS -> Rate]
           /\ rate'[pair] = known \/ rate'[pair].from = Nothing
           /\ \A other \in PAIRS \ {pair} :
                 rate'[other] = rate[other] \/ rate'[other].from = Nothing
<1> DEFINE row == Cleaned(Place(pair), fresh \cup {pair})
           inside == {row[where] : where \in DOMAIN row}
<1>1. rate' = [other \in PAIRS |-> IF other \notin inside THEN NoRate
                                  ELSE IF other = pair THEN known ELSE rate[other]]
  BY DEF Store
<1> HIDE DEF inside, row
<1> QED BY <1>1 DEF RatesInv, Types, Rate, NoRate

\* A fetch that lands has read nothing older than what has been answered.
LEMMA LandRates ==
    ASSUME RatesInv, NEW f \in FETCHES, Land(f)
    PROVE  RatesInv' /\ Forward
<1> USE ExchangeRatesAssumption DEF RatesInv, Types
<1> DEFINE pair == pairOf[f]
<1>1. pair \in PAIRS /\ shared[pair] = f
  BY DEF Land, OneFetch
<1>2. PICK known \in Outcomes(f) :
         /\ Store(pair, known)
         /\ \/ last' = last
            \/ /\ known.from \in PROVIDERS
               /\ last' = [last EXCEPT ![pair] = [last[pair] EXCEPT ![known.from] = known.version]]
  BY DEF Land, Answered
<1>3. /\ version' = version
      /\ shared' = [shared EXCEPT ![pair] = Nothing]
      /\ pairOf' = [pairOf EXCEPT ![f] = Nothing]
      /\ leg' = [leg EXCEPT ![f] = [x \in PROVIDERS |-> "asked"]]
      /\ found' = [found EXCEPT ![f] = [x \in PROVIDERS |-> 0]]
  BY DEF Land, Release
<1>4. /\ known \in Rate /\ known.version \in Nat
      /\ \A x \in PROVIDERS : known.from = x => leg[f][x] = "read" /\ known.version = found[f][x]
  BY DEF Outcomes, Quote, Rate, DefaultRate
<1>5. /\ rate' \in [PAIRS -> Rate]
      /\ rate'[pair] = known \/ rate'[pair].from = Nothing
      /\ \A other \in PAIRS \ {pair} : rate'[other] = rate[other] \/ rate'[other].from = Nothing
  <2> HIDE DEF RatesInv, pair
  <2> QED BY <1>1, <1>2, <1>4, StoreRates
<1>6. /\ last' \in [PAIRS -> [PROVIDERS -> Nat]]
      /\ \A other \in PAIRS, x \in PROVIDERS :
            last'[other][x] = last[other][x]
            \/ (other = pair /\ x = known.from /\ last'[other][x] = known.version)
  <2> HIDE DEF pair
  <2>1. CASE last' = last
    BY <2>1
  <2>2. CASE /\ known.from \in PROVIDERS
             /\ last' = [last EXCEPT ![pair] = [last[pair] EXCEPT ![known.from] = known.version]]
    BY <1>1, <1>4, <2>2
  <2> QED BY <1>2, <2>1, <2>2
<1>7. \A x \in PROVIDERS : known.from = x =>
         /\ last[pair][x] <= known.version /\ known.version <= version[x]
  BY <1>1, <1>4 DEF Found
<1>12. \A other \in PAIRS, x \in PROVIDERS : rate'[other].from = x =>
          /\ other = pair => known.from = x /\ rate'[other].version = known.version
          /\ other # pair => rate[other].from = x /\ rate'[other].version = rate[other].version
  <2> HIDE DEF pair
  <2> QED BY <1>1, <1>5
<1>8. Types' /\ OneFetch' /\ AtRest'
  <2>1. Types'
    BY <1>1, <1>3, <1>5, <1>6
  <2>2. OneFetch'
    BY <1>1, <1>3 DEF OneFetch
  <2>3. AtRest'
    BY <1>3 DEF AtRest
  <2> QED BY <2>1, <2>2, <2>3
<1>9. Cached'
  <2> SUFFICES ASSUME NEW other \in PAIRS, NEW x \in PROVIDERS
               PROVE  /\ last'[other][x] <= version'[x]
                      /\ rate'[other].from = x =>
                            last'[other][x] <= rate'[other].version /\ rate'[other].version <= version'[x]
    BY DEF Cached
  <2>3. /\ last[other][x] <= version[x] /\ version'[x] = version[x]
        /\ rate[other].from = x =>
              last[other][x] <= rate[other].version /\ rate[other].version <= version[x]
    BY <1>3 DEF Cached
  <2>4. last[other][x] \in Nat /\ version[x] \in Nat
    OBVIOUS
  <2> HIDE DEF pair, RatesInv, Types
  <2>1. CASE other = pair
    BY <1>4, <1>6, <1>7, <1>12, <2>1, <2>3, <2>4
  <2>2. CASE other # pair
    BY <1>6, <1>12, <2>2, <2>3, <2>4
  <2> QED BY <2>1, <2>2
<1>10. Found'
  <2> SUFFICES ASSUME NEW g \in FETCHES, NEW x \in PROVIDERS,
                      pairOf'[g] # Nothing, leg'[g][x] = "read"
               PROVE  /\ last'[pairOf'[g]][x] <= found'[g][x] /\ found'[g][x] <= version'[x]
                      /\ rate'[pairOf'[g]].from = x => rate'[pairOf'[g]].version <= found'[g][x]
    BY DEF Found
  <2>1. g # f /\ pairOf'[g] = pairOf[g] /\ leg'[g] = leg[g] /\ found'[g] = found[g]
    BY <1>3
  <2>2. pairOf[g] # pair
    BY <1>1, <2>1 DEF OneFetch
  <2> HIDE DEF pair
  <2>3. pairOf[g] \in PAIRS
    BY <2>1
  <2> QED BY ZenonT(40), <1>3, <1>6, <1>12, <2>1, <2>2, <2>3 DEF Found
<1>11. Forward
  <2> HIDE DEF pair
  <2> QED BY SMTT(40), <1>6, <1>7 DEF Forward
<1> QED BY <1>8, <1>9, <1>10, <1>11

\* RatesInv is inductive, and what was answered last never gets older.
LEMMA NextRates == RatesInv /\ [RatesNext]_ratesVars => RatesInv' /\ [Forward]_ratesVars
<1> SUFFICES ASSUME RatesInv, [RatesNext]_ratesVars PROVE RatesInv' /\ Forward
  OBVIOUS
<1> USE ExchangeRatesAssumption
<1>1. ASSUME NEW x \in PROVIDERS, Change(x) PROVE RatesInv' /\ Forward
  <2> USE DEF RatesInv, Types
  <2>1. /\ version' = [version EXCEPT ![x] = version[x] + 1]
        /\ UNCHANGED <<rate, last, shared, pairOf, leg, found>>
    BY <1>1 DEF Change, rates, fetches
  <2>2. Types' /\ OneFetch' /\ AtRest'
    BY <2>1 DEF OneFetch, AtRest
  <2>3. \A y \in PROVIDERS : version[y] <= version'[y]
    BY <2>1
  <2>4. Cached'
    BY <2>1, <2>2, <2>3 DEF Cached, Rate
  <2>5. Found'
    BY <2>1, <2>2, <2>3 DEF Found
  <2>6. Forward
    BY <2>1 DEF Forward
  <2> QED BY <2>2, <2>4, <2>5, <2>6
<1>2. ASSUME UNCHANGED <<version, rate, last, shared, pairOf, leg, found>>
      PROVE  RatesInv' /\ Forward
  <2>1. RatesInv'
    BY <1>2 DEF RatesInv, Types, OneFetch, AtRest, Cached, Found
  <2>2. Forward
    BY <1>2 DEF Forward, RatesInv, Types
  <2> QED BY <2>1, <2>2
<1>3. ASSUME NEW f \in FETCHES, NEW x \in PROVIDERS, Read(f, x) PROVE RatesInv' /\ Forward
  <2> USE DEF RatesInv, Types
  <2>1. /\ leg' = [leg EXCEPT ![f] = [leg[f] EXCEPT ![x] = "read"]]
        /\ found' = [found EXCEPT ![f] = [found[f] EXCEPT ![x] = version[x]]]
        /\ UNCHANGED <<version, rate, last, shared, pairOf>> /\ pairOf[f] # Nothing
    BY <1>3 DEF Read, rates
  <2>2. Types' /\ OneFetch' /\ AtRest'
    BY <2>1 DEF OneFetch, AtRest
  <2>3. Cached' /\ Forward
    BY <2>1 DEF Cached, Forward
  <2>4. Found'
    <3> SUFFICES ASSUME NEW g \in FETCHES, NEW y \in PROVIDERS,
                        pairOf'[g] # Nothing, leg'[g][y] = "read"
                 PROVE  /\ last'[pairOf'[g]][y] <= found'[g][y] /\ found'[g][y] <= version'[y]
                        /\ rate'[pairOf'[g]].from = y => rate'[pairOf'[g]].version <= found'[g][y]
      BY DEF Found
    <3>1. CASE g = f /\ y = x
      <4>1. found'[g][y] = version[y] /\ pairOf[g] \in PAIRS
        BY <2>1, <3>1
      <4> QED BY <2>1, <4>1 DEF Cached
    <3>2. CASE ~(g = f /\ y = x)
      <4>1. found'[g][y] = found[g][y] /\ leg'[g][y] = leg[g][y]
        BY <2>1, <3>2
      <4> QED BY <2>1, <4>1 DEF Found
    <3> QED BY <3>1, <3>2
  <2> QED BY <2>2, <2>3, <2>4
<1>4. ASSUME NEW f \in FETCHES, NEW x \in PROVIDERS, FailToRead(f, x) PROVE RatesInv' /\ Forward
  <2> USE DEF RatesInv, Types
  <2>1. /\ leg' = [leg EXCEPT ![f] = [leg[f] EXCEPT ![x] = "failed"]]
        /\ UNCHANGED <<version, rate, last, shared, pairOf, found>> /\ pairOf[f] # Nothing
    BY <1>4 DEF FailToRead, rates
  <2>2. Types' /\ OneFetch' /\ AtRest'
    BY <2>1 DEF OneFetch, AtRest
  <2>3. Cached' /\ Forward
    BY <2>1 DEF Cached, Forward
  <2>4. \A g \in FETCHES, y \in PROVIDERS : leg'[g][y] = "read" => leg[g][y] = "read"
    BY <2>1
  <2>5. Found'
    BY <2>1, <2>4 DEF Found
  <2> QED BY <2>2, <2>3, <2>5
<1>5. CASE UNCHANGED ratesVars \/ ExpireCountries \/ LandCountries
  BY <1>2, <1>5 DEF ratesVars, ExpireCountries, LandCountries, rates, fetches
<1>6. ASSUME NEW pair \in PAIRS, Expire(pair) PROVE RatesInv' /\ Forward
  BY <1>2, <1>6 DEF Expire, fetches
<1>7. ASSUME NEW r \in REQUESTS, Ask(r) \/ GetCountries(r) PROVE RatesInv' /\ Forward
  BY <1>2, <1>7 DEF Ask, GetCountries, rates, fetches
<1> QED BY <1>1, <1>3, <1>4, <1>5, <1>6, <1>7, AskedRates, LandRates DEF RatesNext

\* Nobody is answered an older rate of a provider after a newer one, for any currencies, providers,
\* requests, fetches and size of the cache.
THEOREM AnswersMoveForward == RatesSpec => RatesMoveForward
<1>1. [Forward]_ratesVars =>
        [\A pair \in PAIRS, x \in PROVIDERS : last'[pair][x] >= last[pair][x]]_ratesVars
  BY DEF Forward
<1> QED BY <1>1, InitRates, NextRates, PTL DEF RatesSpec, RatesMoveForward

==============================================================================
