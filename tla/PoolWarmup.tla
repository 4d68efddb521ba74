----------------------------- MODULE PoolWarmup -----------------------------
(***************************************************************************)
(* concurrency:"multi" with an explicit cap: the generated provider's      *)
(* constructor materializes every worker of its pool                       *)
(* (qt-host-generator/lidl_gen_cdylib_glue.cpp).                           *)
(*                                                                         *)
(* It submits one task per worker and makes them meet: a task releases     *)
(* `entered`, blocks on `release` and releases `finished`; the constructor *)
(* waits for all to have entered, lets them go and waits for all to have   *)
(* finished, because the three semaphores live on its stack.               *)
(*                                                                         *)
(* Without a cap the pool takes its size from the machine and its threads  *)
(* are created as calls arrive.  The pool (QThreadPool) is external: a     *)
(* task goes to an idle thread, to a new one below the maximum, or to the  *)
(* queue, and an idle thread ends at its expiry timeout, if it has one.    *)
(***************************************************************************)
EXTENDS Naturals, FiniteSets, Sequences

CONSTANT Workers  \* the pool's size, as the set of the tasks that warm it up

\* `workers` is a configured cap above 0 or qMax(1, QThread::idealThreadCount()).
ASSUME WorkersAssumption == IsFiniteSet(Workers) /\ Workers # {}

VARIABLES
  capped,     \* the size is a configured cap
  pc,         \* where the constructor is
  maxThreads, \* the pool's maximum
  expiring,   \* its idle threads have an expiry timeout
  threads,    \* threads the pool has created
  submitted,  \* tasks handed to the pool
  queue,      \* tasks that wait for a thread
  task,       \* where each task is
  entered,    \* the three semaphores' counts
  release,
  finished,
  alive       \* the semaphores exist

semaphores == <<entered, release, finished, alive>>
limits     == <<capped, maxThreads, expiring>>
poolVars   == <<pc, limits, threads, submitted, queue, task, semaphores>>

N == Cardinality(Workers)

PoolInit ==
  /\ capped \in BOOLEAN
  /\ pc = "configure"
  /\ maxThreads = 1
  /\ expiring = TRUE
  /\ threads = 0
  /\ submitted = {}
  /\ queue = <<>>
  /\ task = [w \in Workers |-> "none"]
  /\ entered = 0
  /\ release = 0
  /\ finished = 0
  /\ alive = FALSE

Active == {w \in Workers : task[w] \in {"started", "waiting", "passed"}}
-----------------------------------------------------------------------------
\* Slip: the maximum is set one too low.
ConfigureBelow ==
  /\ pc = "configure"
  /\ maxThreads' = N - 1
  /\ expiring' = FALSE
  /\ alive' = capped
  /\ pc' = IF capped THEN "submit" ELSE "returned"
  /\ UNCHANGED <<capped, threads, submitted, queue, task, entered, release,
                 finished>>

\* Slip: the pool keeps its expiry timeout.
ConfigureExpiring ==
  /\ pc = "configure"
  /\ maxThreads' = N
  /\ alive' = capped
  /\ pc' = IF capped THEN "submit" ELSE "returned"
  /\ UNCHANGED <<capped, expiring, threads, submitted, queue, task, entered,
                 release, finished>>

\* The maximum, and no expiry; without a cap there is nothing to warm up.
Configure ==
  /\ pc = "configure"
  /\ maxThreads' = N
  /\ expiring' = FALSE
  /\ alive' = capped
  /\ pc' = IF capped THEN "submit" ELSE "returned"
  /\ UNCHANGED <<capped, threads, submitted, queue, task, entered, release,
                 finished>>

\* m_workerPool.start of one task; after the last one the constructor goes on.
Submit(w) ==
  /\ pc = "submit"
  /\ w \notin submitted
  /\ submitted' = submitted \cup {w}
  /\ IF Cardinality(Active) < maxThreads
     THEN /\ task' = [task EXCEPT ![w] = "started"]
          /\ threads' = IF Cardinality(Active) < threads THEN threads
                                                         ELSE threads + 1
          /\ UNCHANGED queue
     ELSE /\ queue' = Append(queue, w)
          /\ UNCHANGED <<task, threads>>
  /\ pc' = IF submitted' = Workers THEN "enter" ELSE pc
  /\ UNCHANGED <<limits, semaphores>>

\* entered.acquire(workers)
AllEntered ==
  /\ pc = "enter"
  /\ entered >= N
  /\ entered' = entered - N
  /\ pc' = "release"
  /\ UNCHANGED <<limits, threads, submitted, queue, task, release, finished,
                 alive>>

\* release.release(workers)
ReleaseAll ==
  /\ pc = "release"
  /\ release' = release + N
  /\ pc' = "finish"
  /\ UNCHANGED <<limits, threads, submitted, queue, task, entered, finished,
                 alive>>

\* Slip: the constructor does not wait for the tasks to have finished.
ReturnAtOnce ==
  /\ pc = "finish"
  /\ alive' = FALSE
  /\ pc' = "returned"
  /\ UNCHANGED <<limits, threads, submitted, queue, task, entered, release,
                 finished>>

\* finished.acquire(workers), and the semaphores go out of scope.
AllFinished ==
  /\ pc = "finish"
  /\ finished >= N
  /\ finished' = finished - N
  /\ alive' = FALSE
  /\ pc' = "returned"
  /\ UNCHANGED <<limits, threads, submitted, queue, task, entered, release>>
-----------------------------------------------------------------------------
\* A task's body, on its worker.
TaskEnters(w) ==
  /\ task[w] = "started"
  /\ entered' = entered + 1
  /\ task' = [task EXCEPT ![w] = "waiting"]
  /\ UNCHANGED <<pc, limits, threads, submitted, queue, release, finished,
                 alive>>

TaskPasses(w) ==
  /\ task[w] = "waiting"
  /\ release > 0
  /\ release' = release - 1
  /\ task' = [task EXCEPT ![w] = "passed"]
  /\ UNCHANGED <<pc, limits, threads, submitted, queue, entered, finished,
                 alive>>

\* The task is over; its thread takes the next one of the queue.
TaskFinishes(w) ==
  /\ task[w] = "passed"
  /\ finished' = finished + 1
  /\ IF queue = <<>>
     THEN /\ task' = [task EXCEPT ![w] = "over"]
          /\ UNCHANGED queue
     ELSE /\ task' = [task EXCEPT ![w] = "over", ![Head(queue)] = "started"]
          /\ queue' = Tail(queue)
  /\ UNCHANGED <<pc, limits, threads, submitted, entered, release, alive>>

Constructor ==
  \/ Configure
  \/ \E w \in Workers : Submit(w)
  \/ AllEntered
  \/ ReleaseAll
  \/ AllFinished

Task(w) == TaskEnters(w) \/ TaskPasses(w) \/ TaskFinishes(w)

\* The constructor's thread and the pool's threads run.
PoolFairness ==
  WF_poolVars(Constructor) /\ \A w \in Workers : WF_poolVars(Task(w))
-----------------------------------------------------------------------------
\* No task still needs a semaphore that is gone.
SemaphoresOutliveTasks == Active # {} => alive

\* The meeting takes place: loading a module does not hang in its constructor.
ConstructorReturns == <>(pc = "returned")
=============================================================================
