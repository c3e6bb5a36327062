----------------------------- MODULE WorkerPool -----------------------------
(***************************************************************************)
(* A pool of threads (worker_pool.c): a bounded queue of jobs, a mutex and *)
(* one condition variable.  A pool is a record, an operation of the pool a *)
(* function from the pool before to the pool after, and "Can" says when    *)
(* the operation may happen.  Everything between a lock and its unlock is  *)
(* one operation.  Threads are alike, so only how many wait on the         *)
(* condition, are about to take the mutex, run a job or have returned is   *)
(* kept.                                                                   *)
(***************************************************************************)
EXTENDS Integers, Sequences

CONSTANTS
  Threads, \* KSI_WORKER_POOL_MAX_THREADS
  MaxJobs  \* KSI_WORKER_POOL_MAX_JOBS

ASSUME PoolAssumption == Threads \in Nat \ {0} /\ MaxJobs \in Nat \ {0}

\* The pool once every thread has reached its wait.
IdlePool == [jobs |-> <<>>, waiting |-> Threads, awake |-> 0, active |-> 0, left |-> 0, stopping |-> FALSE]

PoolType(p) == /\ {p.waiting, p.awake, p.active, p.left} \subseteq 0..Threads
               /\ p.waiting + p.awake + p.active + p.left = Threads
               /\ Len(p.jobs) <= MaxJobs
               /\ p.stopping \in BOOLEAN

\* pthread_cond_signal and pthread_cond_broadcast
Signal(p) == IF p.waiting = 0 THEN p ELSE [p EXCEPT !.waiting = @ - 1, !.awake = @ + 1]
Broadcast(p) == [p EXCEPT !.waiting = 0, !.awake = @ + p.waiting]

\* A mutant: only the first job of an empty queue wakes a thread.
SubmitQuietly(p, job) == IF p.jobs = <<>> THEN Signal([p EXCEPT !.jobs = <<job>>])
                         ELSE [p EXCEPT !.jobs = Append(@, job)]

CanSubmit(p) == ~p.stopping /\ Len(p.jobs) < MaxJobs
Submit(p, job) == Signal([p EXCEPT !.jobs = Append(@, job)])

\* A mutant: a stop wakes one thread only.
StopSignalling(p) == Signal([p EXCEPT !.stopping = TRUE])

\* Queued jobs stay: they are destroyed, not run.
RequestStop(p) == Broadcast([p EXCEPT !.stopping = TRUE])

\* A thread that was woken and has the mutex waits again, returns or takes the
\* oldest job.
CanWait(p) == p.awake > 0 /\ ~p.stopping /\ p.jobs = <<>>
Wait(p) == [p EXCEPT !.awake = @ - 1, !.waiting = @ + 1]

\* All the threads that are awake return together.
CanLeave(p) == p.awake > 0 /\ p.stopping
Leave(p) == [p EXCEPT !.awake = 0, !.left = @ + p.awake]

CanTake(p) == p.awake > 0 /\ ~p.stopping /\ p.jobs # <<>>
Take(p) == [p EXCEPT !.awake = @ - 1, !.active = @ + 1, !.jobs = Tail(@)]

\* The job has returned, and the thread looks for the next one.
JobDone(p) == CASE p.stopping -> [p EXCEPT !.active = @ - 1, !.left = @ + 1]
                [] ~p.stopping /\ p.jobs = <<>> -> [p EXCEPT !.active = @ - 1, !.waiting = @ + 1]
                [] OTHER -> [p EXCEPT !.active = @ - 1, !.awake = @ + 1]

\* ksi_worker_pool_join_before succeeds when every thread has returned.
CanJoin(p) == p.left = Threads

\* No job waits in the queue for a thread that sleeps.
NobodySleepsOnWork(p) == p.waiting = 0 \/ p.stopping \/ Len(p.jobs) <= p.awake
=============================================================================
