---------------------------- MODULE BackgroundJobs ----------------------------
(***************************************************************************)
(* BackgroundJobService: a queue in the memory of one process, whose jobs  *)
(* run a few at a time and are tried again after a delay when they fail.   *)
(*                                                                         *)
(* Node runs the code between two awaits without interruption, so an       *)
(* action is all that a call of enqueue, the end of a handler or a timer   *)
(* does, the start of the next handler included.  Of a delay only that it  *)
(* ends matters.                                                           *)
(***************************************************************************)
EXTENDS Integers, Sequences, FiniteSets

CONSTANTS
    JOBS,
    CONCURRENCY,    \* handlers that may run at once
    RETRIES,        \* [JOBS -> Nat], the retries each job comes with
    HANGING         \* jobs whose handler may never settle

ASSUME JobsAssumption ==
    /\ IsFiniteSet(JOBS)
    /\ CONCURRENCY \in Nat \ {0}
    /\ RETRIES \in [JOBS -> Nat]
    /\ HANGING \subseteq JOBS

VARIABLES
    queue,      \* the jobs that wait for a slot, in order
    active,     \* the service's count of running handlers
    place,      \* where each job is
    left,       \* the retries a job has left
    runs        \* how often its handler was called

vars == <<queue, active, place, left, runs>>

Running == {j \in JOBS : place[j] = "running"}

Init ==
    /\ queue = <<>>
    /\ active = 0
    /\ place = [j \in JOBS |-> "outside"]
    /\ left = RETRIES
    /\ runs = [j \in JOBS |-> 0]

\* processNext, with the queue at q, a handlers running and the jobs at p: it
\* calls the first handler when there is one and a slot is free.
ProcessNext(q, a, p) ==
    \/ /\ a >= CONCURRENCY \/ q = <<>>
       /\ queue' = q /\ active' = a /\ place' = p
       /\ UNCHANGED runs
    \/ /\ a < CONCURRENCY /\ q # <<>>
       /\ queue' = Tail(q)
       /\ active' = a + 1
       /\ place' = [p EXCEPT ![Head(q)] = "running"]
       /\ runs' = [runs EXCEPT ![Head(q)] = @ + 1]

Enqueue(j) ==
    /\ place[j] = "outside"
    /\ ProcessNext(Append(queue, j), active, [place EXCEPT ![j] = "queued"])
    /\ UNCHANGED left

\* Mutated form: the slot is free and nobody takes it.
SucceedIdly(j) ==
    /\ place[j] = "running"
    /\ place' = [place EXCEPT ![j] = "done"]
    /\ active' = active - 1
    /\ UNCHANGED <<queue, left, runs>>

\* The handler returns, and the slot goes to the next job.
Succeed(j) ==
    /\ place[j] = "running"
    /\ ProcessNext(queue, active - 1, [place EXCEPT ![j] = "done"])
    /\ UNCHANGED left

\* Mutated form: an error keeps the slot.
FailWithSlot(j) ==
    /\ place[j] = "running"
    /\ \/ left[j] > 0 /\ ProcessNext(queue, active, [place EXCEPT ![j] = "waiting"])
       \/ left[j] = 0 /\ ProcessNext(queue, active, [place EXCEPT ![j] = "failed"])
    /\ UNCHANGED left

\* The handler throws: a timer is set if a retry is left, and the slot goes to the
\* next job either way.
Fail(j) ==
    /\ place[j] = "running"
    /\ \/ left[j] > 0 /\ ProcessNext(queue, active - 1, [place EXCEPT ![j] = "waiting"])
       \/ left[j] = 0 /\ ProcessNext(queue, active - 1, [place EXCEPT ![j] = "failed"])
    /\ UNCHANGED left

\* Mutated form: the job comes back with the retries it had.
RetryForFree(j) ==
    /\ place[j] = "waiting"
    /\ ProcessNext(Append(queue, j), active, [place EXCEPT ![j] = "queued"])
    /\ UNCHANGED left

\* The timer fires: the job goes to the end of the queue with a retry less.
Retry(j) ==
    /\ place[j] = "waiting"
    /\ left' = [left EXCEPT ![j] = @ - 1]
    /\ ProcessNext(Append(queue, j), active, [place EXCEPT ![j] = "queued"])

Settle(j) == Succeed(j) \/ Fail(j)

\* Every job was handed over and is over: the service has nothing to do.
Idle ==
    /\ \A j \in JOBS : place[j] \in {"done", "failed"}
    /\ UNCHANGED vars

Next == (\E j \in JOBS : Enqueue(j) \/ Settle(j) \/ Retry(j)) \/ Idle

Spec == Init /\ [][Next]_vars

\* Timers fire, and a handler that does not hang settles.  Nothing makes a caller
\* enqueue a job, and the service itself never gives a handler up.
FairSpec ==
    /\ Spec
    /\ \A j \in JOBS : WF_vars(Retry(j))
    /\ \A j \in JOBS \ HANGING : WF_vars(Settle(j))

-----------------------------------------------------------------------------

TypeOK ==
    /\ queue \in Seq(JOBS)
    /\ active \in Nat
    /\ place \in [JOBS -> {"outside", "queued", "running", "waiting", "done", "failed"}]
    /\ left \in [JOBS -> Nat]
    /\ runs \in [JOBS -> Nat]

\* The counter counts the handlers that run, there are never more of them than
\* slots, and no slot is free while a job waits for one, although each event starts
\* at most one handler (lines 31-55).
SlotsWellUsed ==
    /\ active = Cardinality(Running)
    /\ active <= CONCURRENCY
    /\ queue # <<>> => active = CONCURRENCY

\* A job that waits for a slot is in the queue once, and no other job is: none is
\* lost between a failure and its retry or runs twice at a time (lines 36 and 44-47).
QueuedOnce ==
    /\ \A x, y \in DOMAIN queue : queue[x] = queue[y] => x = y
    /\ \A j \in JOBS : place[j] = "queued" <=> \E x \in DOMAIN queue : queue[x] = j

\* A handler is called once more for each retry used, so a job that is given up was
\* tried once and for each of its retries, and no job more often (lines 42-50).
TriedAsPromised ==
    \A j \in JOBS :
        /\ runs[j] <= RETRIES[j] + 1
        /\ place[j] = "failed" => runs[j] = RETRIES[j] + 1

\* As long as fewer handlers hang than there are slots, every other job that was
\* handed over is done or given up in the end (lines 29-55).
EveryJobEnds ==
    Cardinality(HANGING) < CONCURRENCY =>
        \A j \in JOBS \ HANGING : place[j] # "outside" ~> place[j] \in {"done", "failed"}

=============================================================================
