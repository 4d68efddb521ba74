----------------------------- MODULE LoadProofs -----------------------------
(***************************************************************************)
(* The safety properties of ModuleLoad, and of PoolWarmup inside it, for a *)
(* pool of any size.                                                       *)
(*                                                                         *)
(* Nothing is released before all tasks have been submitted, so each task  *)
(* that is submitted finds every thread of the pool busy with another one  *)
(* and gets a thread of its own: the pool is complete when the constructor *)
(* goes on, and stays so because its threads never expire.                 *)
(***************************************************************************)
EXTENDS ModuleLoad, FiniteSetTheorems, TLAPS

\* The tasks that are over.
Over == {w \in Workers : task[w] = "over"}

\* Where the tasks are while the constructor is at a stage.
TaskInv ==
  /\ task \in [Workers -> {"none", "started", "waiting", "passed", "over"}]
  /\ submitted \subseteq Workers
  /\ \A w \in Workers : task[w] = "none" <=> w \notin submitted
  /\ queue = <<>>
  /\ pc \in {"configure", "submit", "enter", "release"} =>
       release = 0 /\ \A w \in Workers : task[w] \notin {"passed", "over"}
  /\ pc = "configure" => submitted = {}
  /\ pc = "returned" => Active = {}

\* One thread has been created for each task.
ThreadInv ==
  /\ pc # "configure" => maxThreads = N
  /\ pc = "configure" => threads = 0
  /\ pc = "submit" => threads = Cardinality(submitted)
  /\ pc \in {"enter", "release", "finish"} => threads = N

\* What the constructor waits for is that all tasks are over.
CountInv == pc # "returned" => finished = Cardinality(Over)

\* What is left when the constructor has returned; calls come only then.
PoolInv ==
  /\ pc \in {"configure", "returned", "submit", "enter", "release", "finish"}
  /\ capped \in BOOLEAN
  /\ pc # "configure" => expiring = FALSE
  /\ pc = "returned" /\ capped = TRUE => threads = N
  /\ pc \in {"submit", "enter", "release", "finish"} => alive = TRUE
  /\ pc # "returned" => busy = 0

\* The order of onInit, and of setEventListener.
LoadInv ==
  /\ onInit \in {"services", "context", "done"} => (stamped.authToken => anchor)
  /\ onInit \in {"context", "done"} =>
       (stamped.services = "granted" /\ stamped.gates => services)
  /\ context => onInit = "done"
  /\ emitter => callback
  /\ events # "dropped"

IInv == TaskInv /\ ThreadInv /\ CountInv /\ PoolInv /\ LoadInv
-----------------------------------------------------------------------------
LEMMA NIsNat == N \in Nat
  BY FS_CardinalityType, WorkersAssumption DEF N

\* Any set of tasks is counted within the pool's size.
LEMMA Counted ==
  ASSUME NEW S \in SUBSET Workers
  PROVE  /\ IsFiniteSet(S)
         /\ Cardinality(S) \in Nat
         /\ Cardinality(S) <= N
         /\ Cardinality(S) = N => S = Workers
         /\ \A w \in Workers \ S : Cardinality(S \cup {w}) = Cardinality(S) + 1
  <1>1. IsFiniteSet(S) /\ Cardinality(S) <= N /\ (Cardinality(S) = N => S = Workers)
    BY FS_Subset, WorkersAssumption, Zenon DEF N
  <1>2. Cardinality(S) \in Nat
    BY <1>1, FS_CardinalityType
  <1>3. ASSUME NEW w \in Workers \ S
        PROVE  Cardinality(S \cup {w}) = Cardinality(S) + 1
    BY <1>1, FS_AddElement
  <1> QED
    BY <1>1, <1>2, <1>3

\* A task that is submitted finds all threads busy and room for one more.
LEMMA RoomToStart ==
  ASSUME TaskInv, ThreadInv, pc = "submit", NEW w \in Workers, w \notin submitted
  PROVE  /\ Cardinality(Active) < maxThreads
         /\ ~(Cardinality(Active) < threads)
         /\ threads + 1 = Cardinality(submitted \cup {w})
         /\ threads \in Nat
  <1>1. Active = submitted
    BY DEF TaskInv, Active
  <1>2. submitted \in SUBSET Workers
    BY DEF TaskInv
  <1>3. Cardinality(submitted) # N
    BY <1>2, Counted
  <1>4. Cardinality(submitted) < N
    BY <1>2, <1>3, Counted, NIsNat
  <1>5. maxThreads = N /\ threads = Cardinality(submitted)
    BY DEF ThreadInv
  <1> QED
    BY <1>1, <1>2, <1>4, <1>5, Counted, NIsNat
-----------------------------------------------------------------------------
LEMMA InitIInv == Init => IInv
  <1> SUFFICES ASSUME Init
               PROVE  IInv
    OBVIOUS
  <1> USE DEF Init, PoolInit
  <1>1. TaskInv
    BY DEF TaskInv, Active
  <1>2. ThreadInv
    BY DEF ThreadInv
  <1>3. Over = {}
    BY DEF Over
  <1>4. CountInv
    BY <1>3, FS_EmptySet DEF CountInv
  <1>5. PoolInv /\ LoadInv
    BY DEF PoolInv, LoadInv
  <1> QED
    BY <1>1, <1>2, <1>4, <1>5 DEF IInv

\* The constructor and its tasks.
PoolStep ==
  /\ Constructor \/ \E w \in Workers : Task(w)
  /\ UNCHANGED loadVars

LEMMA KeepsTaskInv ==
  ASSUME TaskInv, ThreadInv, CountInv, PoolStep
  PROVE  TaskInv'
  <1>1. CASE Configure
    BY <1>1 DEF Configure, TaskInv, Active
  <1>2. ASSUME NEW w \in Workers, Submit(w)
        PROVE  TaskInv'
    <2>1. Cardinality(Active) < maxThreads
      BY <1>2, RoomToStart DEF Submit
    <2>2. task' = [task EXCEPT ![w] = "started"] /\ queue' = queue
      BY <1>2, <2>1 DEF Submit
    <2>3. /\ submitted' = submitted \cup {w}
          /\ UNCHANGED release
          /\ pc = "submit" /\ pc' \in {"submit", "enter"}
      BY <1>2 DEF Submit, semaphores
    <2> QED
      BY <2>2, <2>3 DEF TaskInv
  <1>3. CASE AllEntered
    BY <1>3 DEF AllEntered, TaskInv, Active
  <1>4. CASE ReleaseAll
    BY <1>4 DEF ReleaseAll, TaskInv, Active
  <1>5. CASE AllFinished
    <2>1. finished >= N /\ pc = "finish" /\ finished = Cardinality(Over)
      BY <1>5 DEF AllFinished, CountInv
    <2>2. Over \in SUBSET Workers
      BY DEF Over
    <2>3. Over = Workers
      BY <2>1, <2>2, Counted, NIsNat
    <2>4. Active = {}
      BY <2>3 DEF Active, Over
    <2> QED
      BY <1>5, <2>4 DEF AllFinished, TaskInv, Active
  <1>6. ASSUME NEW w \in Workers, TaskEnters(w)
        PROVE  TaskInv'
    BY <1>6 DEF TaskEnters, TaskInv, Active
  <1>7. ASSUME NEW w \in Workers, TaskPasses(w)
        PROVE  TaskInv'
    <2>1. pc \notin {"configure", "submit", "enter", "release"}
      BY <1>7 DEF TaskPasses, TaskInv
    <2> QED
      BY <1>7, <2>1 DEF TaskPasses, TaskInv, Active
  <1>8. ASSUME NEW w \in Workers, TaskFinishes(w)
        PROVE  TaskInv'
    <2>1. task' = [task EXCEPT ![w] = "over"] /\ queue' = queue
      BY <1>8 DEF TaskFinishes, TaskInv
    <2> QED
      BY <1>8, <2>1 DEF TaskFinishes, TaskInv, Active
  <1> QED
    BY <1>1, <1>2, <1>3, <1>4, <1>5, <1>6, <1>7, <1>8
       DEF PoolStep, Constructor, Task

LEMMA KeepsThreadInv ==
  ASSUME TaskInv, ThreadInv, PoolStep
  PROVE  ThreadInv'
  <1>1. CASE Configure
    <2>1. Cardinality(submitted) = 0
      BY <1>1, FS_EmptySet DEF Configure, TaskInv
    <2>2. threads' = 0 /\ submitted' = submitted /\ maxThreads' = N
      BY <1>1 DEF Configure, ThreadInv
    <2>3. pc' \in {"submit", "returned"}
      BY <1>1, Zenon DEF Configure
    <2> QED
      BY <2>1, <2>2, <2>3 DEF ThreadInv, N
  <1>2. ASSUME NEW w \in Workers, Submit(w)
        PROVE  ThreadInv'
    <2>1. /\ Cardinality(Active) < maxThreads
          /\ ~(Cardinality(Active) < threads)
          /\ threads + 1 = Cardinality(submitted \cup {w})
      BY <1>2, RoomToStart DEF Submit
    <2>2. threads' = Cardinality(submitted')
      BY <1>2, <2>1 DEF Submit
    <2>3. pc = "submit" /\ pc' = IF submitted' = Workers THEN "enter" ELSE pc
      BY <1>2 DEF Submit
    <2>4. UNCHANGED maxThreads
      BY <1>2 DEF Submit, limits
    <2> QED
      BY <2>2, <2>3, <2>4 DEF ThreadInv, N
  <1>3. CASE AllEntered \/ ReleaseAll \/ AllFinished
    BY <1>3 DEF AllEntered, ReleaseAll, AllFinished, ThreadInv, limits, N
  <1>4. ASSUME NEW w \in Workers, Task(w)
        PROVE  ThreadInv'
    BY <1>4 DEF Task, TaskEnters, TaskPasses, TaskFinishes, ThreadInv, limits, N
  <1> QED
    BY <1>1, <1>2, <1>3, <1>4 DEF PoolStep, Constructor

LEMMA KeepsCountInv ==
  ASSUME TaskInv, ThreadInv, CountInv, PoolStep
  PROVE  CountInv'
  <1>1. CASE Configure
    BY <1>1 DEF Configure, CountInv, Over
  <1>2. ASSUME NEW w \in Workers, Submit(w)
        PROVE  CountInv'
    <2>1. task' = [task EXCEPT ![w] = "started"]
      BY <1>2, RoomToStart DEF Submit
    <2>2. task[w] = "none" /\ pc = "submit" /\ UNCHANGED finished
      BY <1>2 DEF Submit, TaskInv, semaphores
    <2>3. Over' = Over
      BY <2>1, <2>2 DEF Over, TaskInv
    <2> QED
      BY <2>2, <2>3 DEF CountInv
  <1>3. CASE AllEntered \/ ReleaseAll
    BY <1>3 DEF AllEntered, ReleaseAll, CountInv, Over
  <1>4. CASE AllFinished
    BY <1>4 DEF AllFinished, CountInv
  <1>5. ASSUME NEW w \in Workers, TaskEnters(w) \/ TaskPasses(w)
        PROVE  CountInv'
    <2>1. Over' = Over /\ UNCHANGED <<pc, finished>>
      BY <1>5 DEF TaskEnters, TaskPasses, Over, TaskInv
    <2> QED
      BY <2>1 DEF CountInv
  <1>6. ASSUME NEW w \in Workers, TaskFinishes(w)
        PROVE  CountInv'
    <2>1. task' = [task EXCEPT ![w] = "over"] /\ task[w] = "passed"
      BY <1>6 DEF TaskFinishes, TaskInv
    <2>2. Over' = Over \cup {w} /\ w \in Workers \ Over
      BY <2>1 DEF Over, TaskInv
    <2>3. Over \in SUBSET Workers
      BY DEF Over
    <2>4. Cardinality(Over') = Cardinality(Over) + 1
      BY <2>2, <2>3, Counted
    <2>5. finished' = finished + 1 /\ UNCHANGED pc
      BY <1>6 DEF TaskFinishes
    <2> QED
      BY <2>4, <2>5 DEF CountInv
  <1> QED
    BY <1>1, <1>2, <1>3, <1>4, <1>5, <1>6 DEF PoolStep, Constructor, Task

LEMMA KeepsPoolInv ==
  ASSUME TaskInv, ThreadInv, PoolInv, PoolStep
  PROVE  PoolInv'
  <1> USE DEF PoolInv
  <1>1. UNCHANGED busy
    BY DEF PoolStep, loadVars, calls
  <1>2. CASE Configure
    BY <1>1, <1>2, Zenon DEF Configure
  <1>3. ASSUME NEW w \in Workers, Submit(w)
        PROVE  PoolInv'
    <2>1. pc = "submit" /\ pc' \in {"submit", "enter"}
      BY <1>3 DEF Submit
    <2>2. UNCHANGED <<capped, expiring, alive>>
      BY <1>3 DEF Submit, limits, semaphores
    <2> QED
      BY <1>1, <2>1, <2>2, Zenon
  <1>4. CASE AllEntered
    BY <1>1, <1>4, Zenon DEF AllEntered, limits
  <1>5. CASE ReleaseAll
    BY <1>1, <1>5, Zenon DEF ReleaseAll, limits
  <1>6. CASE AllFinished
    BY <1>1, <1>6, Zenon DEF AllFinished, limits, ThreadInv, N
  <1>7. ASSUME NEW w \in Workers, Task(w)
        PROVE  PoolInv'
    <2>1. UNCHANGED <<pc, capped, expiring, alive, threads>>
      BY <1>7 DEF Task, TaskEnters, TaskPasses, TaskFinishes, limits
    <2> QED
      BY <1>1, <2>1, Zenon DEF N
  <1> QED
    BY <1>2, <1>3, <1>4, <1>5, <1>6, <1>7 DEF PoolStep, Constructor

\* What the host's thread does next, and what the module emits, leave the pool
\* alone.
LEMMA PoolUntouched ==
  ASSUME TaskInv, ThreadInv, CountInv, PoolInv, UNCHANGED poolVars, UNCHANGED busy
  PROVE  TaskInv' /\ ThreadInv' /\ CountInv' /\ PoolInv'
  <1> USE DEF poolVars, limits, semaphores
  <1>1. TaskInv'
    BY DEF TaskInv, Active
  <1>2. ThreadInv'
    BY DEF ThreadInv, N
  <1>3. Over' = Over
    BY DEF Over
  <1>4. CountInv'
    BY <1>3 DEF CountInv
  <1>5. PoolInv'
    BY DEF PoolInv, N
  <1> QED
    BY <1>1, <1>2, <1>4, <1>5

\* A call or an answer leaves the tasks alone, and all threads there.
LEMMA CallsUseThePool ==
  ASSUME TaskInv, ThreadInv, CountInv, PoolInv, Call \/ Answer
  PROVE  TaskInv' /\ ThreadInv' /\ CountInv' /\ PoolInv'
  <1>1. pc = "returned"
    BY DEF Call, Answer, HostFree, PoolInv
  <1>2. UNCHANGED <<pc, limits, submitted, queue, task, semaphores>>
    BY DEF Call, Answer
  <1>3. capped = TRUE => threads' = threads
    <2>1. CASE Call
      <3>1. maxThreads = N /\ (capped = TRUE => threads = N)
        BY <1>1 DEF ThreadInv, PoolInv
      <3>2. threads' = IF busy < maxThreads
                       THEN IF busy < threads THEN threads ELSE threads + 1
                       ELSE threads
        BY <2>1 DEF Call
      <3> QED
        BY <3>1, <3>2
    <2>2. CASE Answer
      <3>1. expiring = FALSE
        BY <1>1 DEF PoolInv
      <3> QED
        BY <2>2, <3>1, Zenon DEF Answer
    <2> QED
      BY <2>1, <2>2
  <1>4. TaskInv'
    BY <1>2 DEF TaskInv, Active, semaphores
  <1>5. ThreadInv'
    BY <1>1, <1>2 DEF ThreadInv, N, limits
  <1>6. CountInv'
    BY <1>1, <1>2 DEF CountInv
  <1>7. PoolInv'
    BY <1>1, <1>2, <1>3, Zenon DEF PoolInv, N, limits
  <1> QED
    BY <1>4, <1>5, <1>6, <1>7

\* The order of the host's thread: token, services, context; callback, trampoline.
LEMMA KeepsLoadInv ==
  ASSUME LoadInv, [Next]_vars
  PROVE  LoadInv'
  <1> USE DEF LoadInv
  <1>1. CASE UNCHANGED loadVars
    BY <1>1, Zenon DEF loadVars, image
  <1>2. CASE ProviderInit
    BY <1>2, Zenon DEF ProviderInit, HostFree, image
  <1>3. CASE SeedAnchor
    BY <1>3, Zenon DEF SeedAnchor
  <1>4. CASE GrantServices
    BY <1>4, Zenon DEF GrantServices
  <1>5. CASE ForwardContext
    BY <1>5, Zenon DEF ForwardContext
  <1>6. CASE SetEventListener
    BY <1>6, Zenon DEF SetEventListener, image
  <1>7. CASE SetEmitCallback
    BY <1>7, Zenon DEF SetEmitCallback
  <1>8. CASE Emit
    BY <1>8, Zenon DEF Emit, Ready, image
  <1>9. CASE Call
    BY <1>9, Zenon DEF Call, image
  <1>10. CASE Answer
    BY <1>10, Zenon DEF Answer, image
  <1> QED
    BY <1>1, <1>2, <1>3, <1>4, <1>5, <1>6, <1>7, <1>8, <1>9, <1>10
       DEF Next, Load, vars

LEMMA NextIInv == IInv /\ [Next]_vars => IInv'
  <1> SUFFICES ASSUME IInv, [Next]_vars
               PROVE  IInv'
    OBVIOUS
  <1>1. LoadInv'
    BY KeepsLoadInv DEF IInv
  <1>2. CASE PoolStep
    BY <1>1, <1>2, KeepsTaskInv, KeepsThreadInv, KeepsCountInv, KeepsPoolInv DEF IInv
  <1>3. CASE Call \/ Answer
    BY <1>1, <1>3, CallsUseThePool DEF IInv
  <1>4. CASE UNCHANGED poolVars /\ UNCHANGED busy
    BY <1>1, <1>4, PoolUntouched DEF IInv
  <1>5. CASE Load \/ Emit
    <2>1. UNCHANGED poolVars /\ UNCHANGED busy
      BY <1>5 DEF Load, ProviderInit, SeedAnchor, GrantServices, ForwardContext,
                  SetEventListener, SetEmitCallback, Emit, calls
    <2> QED
      BY <1>4, <2>1
  <1>6. CASE UNCHANGED vars
    BY <1>4, <1>6 DEF vars, loadVars, calls
  <1> QED
    BY <1>2, <1>3, <1>5, <1>6 DEF Next, PoolStep

THEOREM InvariantHolds == Spec => []IInv
  BY InitIInv, NextIInv, PTL DEF Spec

\* However the tasks and the constructor interleave, the semaphores on its stack
\* are there as long as a task may use them.
THEOREM SemaphoresAreThere == Spec => []SemaphoresOutliveTasks
  <1>1. IInv => SemaphoresOutliveTasks
    <2> SUFFICES ASSUME IInv
                 PROVE  SemaphoresOutliveTasks
      OBVIOUS
    <2>1. Active # {} => pc \notin {"configure", "returned"}
      BY DEF IInv, TaskInv, Active
    <2>2. pc \in {"configure", "returned", "submit", "enter", "release", "finish"}
      BY DEF IInv, PoolInv
    <2> QED
      BY <2>1, <2>2 DEF IInv, PoolInv, SemaphoresOutliveTasks
  <1> QED
    BY <1>1, InvariantHolds, PTL

\* Nothing leads back into the constructor, nor changes its cap.
LEMMA ReturnedStays ==
  ASSUME pc = "returned", Next
  PROVE  UNCHANGED <<pc, capped>>
  <1>1. ~Constructor
    BY DEF Constructor, Configure, Submit, AllEntered, ReleaseAll, AllFinished
  <1>2. ASSUME NEW w \in Workers, Task(w)
        PROVE  UNCHANGED <<pc, capped>>
    BY <1>2 DEF Task, TaskEnters, TaskPasses, TaskFinishes, limits
  <1>3. CASE Load \/ Emit
    BY <1>3 DEF Load, ProviderInit, SeedAnchor, GrantServices, ForwardContext,
                SetEventListener, SetEmitCallback, Emit, poolVars, limits
  <1>4. CASE Call \/ Answer
    BY <1>4 DEF Call, Answer, limits
  <1> QED
    BY <1>1, <1>2, <1>3, <1>4 DEF Next

\* The module's own code never runs without the token and the services it was
\* given, nor with nobody to hear it.
THEOREM ReadyMeansEquipped == Spec => []ReadyIsEquipped
  <1>1. IInv => ReadyIsEquipped
    BY Zenon DEF IInv, LoadInv, ReadyIsEquipped, Ready
  <1> QED
    BY <1>1, InvariantHolds, PTL

\* A capped pool of any size is complete once it is constructed.
THEOREM PoolIsComplete == Spec => NoWorkerCreatedLate
  <1>1. IInv /\ [Next]_vars => [pc = "returned" /\ capped => threads' <= threads]_vars
    <2> SUFFICES ASSUME IInv, Next, pc = "returned", capped
                 PROVE  threads' <= threads
      OBVIOUS
    <2>1. capped = TRUE
      BY Zenon DEF IInv, PoolInv
    <2>2. threads = N /\ PoolInv'
      BY <2>1, NextIInv DEF IInv, PoolInv
    <2>3. UNCHANGED <<pc, capped>>
      BY ReturnedStays
    <2> QED
      BY <2>1, <2>2, <2>3, NIsNat DEF PoolInv, N
  <1> QED
    BY <1>1, InvariantHolds, PTL DEF Spec, NoWorkerCreatedLate
-----------------------------------------------------------------------------
(***************************************************************************)
(* The meeting takes place.  ConstructorReturns is a liveness property and *)
(* stays with TLC; proved here, for a pool of any size, is what it rests   *)
(* on: until the constructor has returned it or a task can take a step,    *)
(* and each such step leads on, up to a bound.                             *)
(***************************************************************************)

\* The tasks that have entered, and those that have passed.
Entered == {w \in Workers : task[w] \in {"waiting", "passed", "over"}}
Passed  == {w \in Workers : task[w] \in {"passed", "over"}}

\* The semaphores' counts are those of the tasks: no release is lost, and none is
\* taken twice.
MeetInv ==
  /\ pc \in {"configure", "submit", "enter"} => entered = Cardinality(Entered)
  /\ pc = "finish" => release + Cardinality(Passed) = N /\ release \in Nat
  /\ pc = "submit" => submitted # Workers
  /\ pc \in {"enter", "release", "finish"} => submitted = Workers

LEMMA InitMeetInv == Init => MeetInv
  <1> SUFFICES ASSUME Init
               PROVE  MeetInv
    OBVIOUS
  <1>1. Entered = {} /\ pc = "configure" /\ entered = 0
    BY DEF Init, PoolInit, Entered
  <1> QED
    BY <1>1, FS_EmptySet DEF MeetInv

LEMMA ConstructorMeets ==
  ASSUME IInv, MeetInv, Constructor
  PROVE  MeetInv'
  <1>1. TaskInv /\ ThreadInv
    BY DEF IInv
  <1>2. CASE Configure
    <2>1. submitted' = {} /\ Entered' = Entered /\ UNCHANGED entered
      BY <1>1, <1>2 DEF Configure, TaskInv, Entered
    <2>2. pc = "configure" /\ pc' \in {"submit", "returned"}
      BY <1>2, Zenon DEF Configure
    <2> QED
      BY <2>1, <2>2, WorkersAssumption DEF MeetInv
  <1>3. ASSUME NEW w \in Workers, Submit(w)
        PROVE  MeetInv'
    <2>1. task' = [task EXCEPT ![w] = "started"] /\ task[w] = "none"
      BY <1>1, <1>3, RoomToStart DEF Submit, TaskInv
    <2>2. Entered' = Entered
      BY <1>1, <2>1 DEF Entered, TaskInv
    <2>3. /\ pc = "submit" /\ pc' = IF submitted' = Workers THEN "enter" ELSE pc
          /\ UNCHANGED entered
      BY <1>3 DEF Submit, semaphores
    <2> QED
      BY <2>2, <2>3 DEF MeetInv
  <1>4. CASE AllEntered
    BY <1>4 DEF AllEntered, MeetInv
  <1>5. CASE ReleaseAll
    <2>1. Passed' = {} /\ release' = N /\ UNCHANGED submitted /\ pc = "release" /\ pc' = "finish"
      BY <1>1, <1>5, NIsNat DEF ReleaseAll, TaskInv, Passed
    <2> QED
      BY <2>1, FS_EmptySet, NIsNat DEF MeetInv, N
  <1>6. CASE AllFinished
    BY <1>6 DEF AllFinished, MeetInv
  <1> QED
    BY <1>2, <1>3, <1>4, <1>5, <1>6 DEF Constructor

\* A set of tasks that gains one.
LEMMA OneMore ==
  ASSUME NEW S \in SUBSET Workers, NEW T, NEW w \in Workers \ S, T = S \cup {w}
  PROVE  Cardinality(T) = Cardinality(S) + 1 /\ Cardinality(S) \in Nat
  BY Counted

LEMMA TasksMeet ==
  ASSUME IInv, MeetInv, NEW w \in Workers, Task(w)
  PROVE  MeetInv'
  <1>1. TaskInv
    BY DEF IInv
  <1>2. Entered \in SUBSET Workers /\ Passed \in SUBSET Workers
    BY DEF Entered, Passed
  <1>3. UNCHANGED <<pc, submitted>>
    BY DEF Task, TaskEnters, TaskPasses, TaskFinishes
  <1>4. CASE TaskEnters(w)
    <2>1. w \in Workers \ Entered /\ Entered' = Entered \cup {w} /\ Passed' = Passed
      BY <1>1, <1>4 DEF TaskEnters, TaskInv, Entered, Passed
    <2>2. Cardinality(Entered') = Cardinality(Entered) + 1
      BY <1>2, <2>1, OneMore
    <2>3. entered' = entered + 1 /\ UNCHANGED release
      BY <1>4 DEF TaskEnters
    <2> QED
      BY <1>3, <2>1, <2>2, <2>3 DEF MeetInv, N
  <1>5. CASE TaskPasses(w)
    <2>1. w \in Workers \ Passed /\ Passed' = Passed \cup {w}
      BY <1>1, <1>5 DEF TaskPasses, TaskInv, Passed
    <2>2. Cardinality(Passed') = Cardinality(Passed) + 1 /\ Cardinality(Passed) \in Nat
      BY <1>2, <2>1, OneMore
    <2>3. release' = release - 1 /\ release > 0 /\ pc \notin {"configure", "submit", "enter"}
      BY <1>1, <1>5 DEF TaskPasses, TaskInv
    <2> QED
      BY <1>3, <2>2, <2>3, NIsNat DEF MeetInv, N
  <1>6. CASE TaskFinishes(w)
    <2>1. task' = [task EXCEPT ![w] = "over"] /\ task[w] = "passed"
      BY <1>1, <1>6 DEF TaskFinishes, TaskInv
    <2>2. Entered' = Entered /\ Passed' = Passed
      BY <1>1, <2>1 DEF TaskInv, Entered, Passed
    <2>3. UNCHANGED <<entered, release>>
      BY <1>6 DEF TaskFinishes
    <2> QED
      BY <1>3, <2>2, <2>3 DEF MeetInv, N
  <1> QED
    BY <1>4, <1>5, <1>6 DEF Task

LEMMA NextMeetInv == IInv /\ MeetInv /\ [Next]_vars => MeetInv'
  <1> SUFFICES ASSUME IInv, MeetInv, [Next]_vars
               PROVE  MeetInv'
    OBVIOUS
  <1>1. CASE PoolStep
    BY <1>1, ConstructorMeets, TasksMeet DEF PoolStep
  <1>2. CASE Call \/ Answer
    <2>1. pc' = "returned"
      BY <1>2 DEF Call, Answer, HostFree, IInv, PoolInv
    <2> QED
      BY <2>1 DEF MeetInv
  <1>3. CASE Load \/ Emit \/ UNCHANGED vars
    <2>1. UNCHANGED poolVars
      BY <1>3 DEF Load, ProviderInit, SeedAnchor, GrantServices, ForwardContext,
                  SetEventListener, SetEmitCallback, Emit, vars
    <2>2. UNCHANGED <<pc, submitted, entered, release, Entered, Passed>>
      BY <2>1 DEF poolVars, semaphores, Entered, Passed
    <2> QED
      BY <2>2 DEF MeetInv, N
  <1> QED
    BY <1>1, <1>2, <1>3 DEF Next, PoolStep

\* The counts of the three semaphores, as the tasks stand.
THEOREM MeetingIsCounted == Spec => []MeetInv
  BY InitMeetInv, NextMeetInv, InvariantHolds, PTL DEF Spec

\* By the guards of its actions, the constructor or a task can take a step.
SomeoneCanGoOn ==
  \/ pc \in {"configure", "release"}
  \/ pc = "submit" /\ \E w \in Workers : w \notin submitted
  \/ pc = "enter" /\ entered >= N
  \/ pc = "finish" /\ finished >= N
  \/ \E w \in Workers : \/ task[w] \in {"started", "passed"}
                        \/ task[w] = "waiting" /\ release > 0

NoStandstill == pc # "returned" => SomeoneCanGoOn

\* The constructor and its tasks never wait for each other in a circle, whatever
\* the size of the pool.
THEOREM MeetingNeverStandsStill == Spec => []NoStandstill
  <1>1. ASSUME IInv, MeetInv, pc # "returned"
        PROVE  SomeoneCanGoOn
    <2>1. TaskInv
      BY <1>1 DEF IInv
    <2>2. CASE pc = "submit"
      BY <1>1, <2>1, <2>2 DEF TaskInv, MeetInv, SomeoneCanGoOn
    <2>3. CASE pc = "enter"
      <3>1. CASE Entered = Workers
        BY <1>1, <2>3, <3>1, NIsNat DEF MeetInv, SomeoneCanGoOn, N
      <3>2. CASE Entered # Workers
        <4>1. PICK w \in Workers : w \notin Entered
          BY <3>2 DEF Entered
        <4>2. task[w] = "started"
          BY <1>1, <2>1, <2>3, <4>1 DEF TaskInv, MeetInv, Entered
        <4> QED
          BY <4>2 DEF SomeoneCanGoOn
      <3> QED
        BY <3>1, <3>2
    <2>4. CASE pc = "finish"
      <3>1. CASE Over = Workers
        BY <1>1, <2>4, <3>1, NIsNat DEF IInv, CountInv, SomeoneCanGoOn, N
      <3>2. CASE Over # Workers
        <4>1. PICK w \in Workers : w \notin Over
          BY <3>2 DEF Over
        <4>2. task[w] \in {"started", "waiting", "passed"}
          BY <1>1, <2>1, <2>4, <4>1 DEF TaskInv, MeetInv, Over
        <4>3. CASE task[w] = "waiting"
          <5>1. Passed \in SUBSET Workers /\ w \notin Passed
            BY <4>3 DEF Passed
          <5>2. Cardinality(Passed) \in Nat /\ Cardinality(Passed) < N
            BY <5>1, Counted, NIsNat
          <5>3. release > 0
            BY <1>1, <2>4, <5>2, NIsNat DEF MeetInv
          <5> QED
            BY <4>3, <5>3 DEF SomeoneCanGoOn
        <4> QED
          BY <4>2, <4>3 DEF SomeoneCanGoOn
      <3> QED
        BY <3>1, <3>2
    <2> QED
      BY <1>1, <2>2, <2>3, <2>4 DEF IInv, PoolInv, SomeoneCanGoOn
  <1>2. IInv /\ MeetInv => NoStandstill
    BY <1>1 DEF NoStandstill
  <1> QED
    BY <1>2, InvariantHolds, MeetingIsCounted, PTL

\* How far the meeting has come: the constructor's stage, and the tasks that have
\* been submitted, have entered, have passed and are over.
StageOf == [configure |-> 0, submit |-> 1, enter |-> 2, release |-> 3, finish |-> 4,
            returned |-> 5]
Come == StageOf[pc] + Cardinality(submitted) + Cardinality(Entered)
          + Cardinality(Passed) + Cardinality(Over)

\* Every step of the constructor or of a task brings the meeting on, and it is over
\* after 4 * N + 5 of them at the latest.
MeetingComesOn == [][PoolStep => Come < Come' /\ Come' <= 4 * N + 5]_vars

LEMMA ComeIsBounded ==
  ASSUME IInv
  PROVE  /\ StageOf[pc] \in 0..5
         /\ submitted \in SUBSET Workers /\ Entered \in SUBSET Workers
         /\ Passed \in SUBSET Workers /\ Over \in SUBSET Workers
         /\ Come \in Nat /\ Come <= 4 * N + 5
  <1>1. /\ submitted \in SUBSET Workers /\ Entered \in SUBSET Workers
        /\ Passed \in SUBSET Workers /\ Over \in SUBSET Workers
    BY DEF IInv, TaskInv, Entered, Passed, Over
  <1>2. StageOf[pc] \in 0..5
    BY DEF IInv, PoolInv, StageOf
  <1>3. ASSUME NEW S \in SUBSET Workers
        PROVE  Cardinality(S) \in Nat /\ Cardinality(S) <= N
    BY Counted
  <1>4. /\ Cardinality(submitted) \in Nat /\ Cardinality(submitted) <= N
        /\ Cardinality(Entered) \in Nat /\ Cardinality(Entered) <= N
        /\ Cardinality(Passed) \in Nat /\ Cardinality(Passed) <= N
        /\ Cardinality(Over) \in Nat /\ Cardinality(Over) <= N
    BY <1>1, <1>3
  <1> QED
    BY <1>1, <1>2, <1>4, NIsNat DEF Come

LEMMA ConfigureGoesOn ==
  Configure => pc = "configure" /\ pc' \in {"submit", "returned"}
  BY Zenon DEF Configure

\* The steps of the constructor, but for submissions, change its stage only.
LEMMA ConstructorComesOn ==
  ASSUME IInv, IInv', Constructor
  PROVE  Come < Come'
  <1>1. TaskInv /\ ThreadInv
    BY DEF IInv
  <1>2. /\ StageOf[pc] \in 0..5 /\ StageOf[pc'] \in 0..5
        /\ Cardinality(submitted) \in Nat /\ Cardinality(Entered) \in Nat
        /\ Cardinality(Passed) \in Nat /\ Cardinality(Over) \in Nat
    <2>1. StageOf[pc'] \in 0..5
      BY DEF IInv, PoolInv, StageOf
    <2> QED
      BY <2>1, ComeIsBounded, Counted
  <1>3. CASE Configure \/ AllEntered \/ ReleaseAll \/ AllFinished
    <2>1. StageOf[pc] < StageOf[pc']
      <3>1. \/ pc = "configure" /\ pc' \in {"submit", "returned"}
            \/ pc = "enter" /\ pc' = "release"
            \/ pc = "release" /\ pc' = "finish"
            \/ pc = "finish" /\ pc' = "returned"
        BY <1>3, ConfigureGoesOn DEF AllEntered, ReleaseAll, AllFinished
      <3> QED
        BY <3>1 DEF StageOf
    <2>2. UNCHANGED <<submitted, Entered, Passed, Over>>
      BY <1>3 DEF Configure, AllEntered, ReleaseAll, AllFinished, Entered, Passed, Over
    <2> QED
      BY <1>2, <2>1, <2>2 DEF Come
  <1>4. ASSUME NEW w \in Workers, Submit(w)
        PROVE  Come < Come'
    <2>1. task' = [task EXCEPT ![w] = "started"] /\ task[w] = "none"
      BY <1>1, <1>4, RoomToStart DEF Submit, TaskInv
    <2>2. UNCHANGED <<Entered, Passed, Over>>
      BY <1>1, <2>1 DEF TaskInv, Entered, Passed, Over
    <2>3. w \in Workers \ submitted /\ submitted' = submitted \cup {w}
      BY <1>4 DEF Submit
    <2>4. Cardinality(submitted') = Cardinality(submitted) + 1
      BY <2>3, ComeIsBounded, OneMore
    <2>5. pc = "submit" /\ pc' \in {"submit", "enter"}
      BY <1>4 DEF Submit
    <2>6. StageOf[pc] <= StageOf[pc']
      BY <2>5 DEF StageOf
    <2> QED
      BY <1>2, <2>2, <2>4, <2>6 DEF Come
  <1> QED
    BY <1>3, <1>4 DEF Constructor

\* A step of a task adds it to one of the sets.
LEMMA TaskComesOn ==
  ASSUME IInv, NEW w \in Workers, Task(w)
  PROVE  Come < Come'
  <1>1. TaskInv
    BY DEF IInv
  <1>2. /\ StageOf[pc] \in 0..5
        /\ Cardinality(submitted) \in Nat /\ Cardinality(Entered) \in Nat
        /\ Cardinality(Passed) \in Nat /\ Cardinality(Over) \in Nat
    BY ComeIsBounded, Counted
  <1>3. UNCHANGED <<pc, submitted>>
    BY DEF Task, TaskEnters, TaskPasses, TaskFinishes
  <1>4. CASE TaskEnters(w)
    <2>1. /\ w \in Workers \ Entered /\ Entered' = Entered \cup {w}
          /\ UNCHANGED <<Passed, Over>>
      BY <1>1, <1>4 DEF TaskEnters, TaskInv, Entered, Passed, Over
    <2>2. Cardinality(Entered') = Cardinality(Entered) + 1
      BY <2>1, ComeIsBounded, OneMore
    <2> QED
      BY <1>2, <1>3, <2>1, <2>2 DEF Come
  <1>5. CASE TaskPasses(w)
    <2>1. /\ w \in Workers \ Passed /\ Passed' = Passed \cup {w}
          /\ UNCHANGED <<Entered, Over>>
      BY <1>1, <1>5 DEF TaskPasses, TaskInv, Entered, Passed, Over
    <2>2. Cardinality(Passed') = Cardinality(Passed) + 1
      BY <2>1, ComeIsBounded, OneMore
    <2> QED
      BY <1>2, <1>3, <2>1, <2>2 DEF Come
  <1>6. CASE TaskFinishes(w)
    <2>1. task' = [task EXCEPT ![w] = "over"] /\ task[w] = "passed"
      BY <1>1, <1>6 DEF TaskFinishes, TaskInv
    <2>2. /\ w \in Workers \ Over /\ Over' = Over \cup {w}
          /\ UNCHANGED <<Entered, Passed>>
      BY <1>1, <2>1 DEF TaskInv, Entered, Passed, Over
    <2>3. Cardinality(Over') = Cardinality(Over) + 1
      BY <2>2, ComeIsBounded, OneMore
    <2> QED
      BY <1>2, <1>3, <2>2, <2>3 DEF Come
  <1> QED
    BY <1>4, <1>5, <1>6 DEF Task

\* With MeetingNeverStandsStill: however the threads are scheduled, the meeting is
\* over after a bounded number of their steps.
THEOREM MeetingIsBounded == Spec => MeetingComesOn
  <1>1. IInv /\ [Next]_vars => [PoolStep => Come < Come' /\ Come' <= 4 * N + 5]_vars
    <2> SUFFICES ASSUME IInv, [Next]_vars, PoolStep
                 PROVE  Come < Come' /\ Come' <= 4 * N + 5
      OBVIOUS
    <2>1. IInv'
      BY NextIInv
    <2>2. Come < Come'
      BY <2>1, ConstructorComesOn, TaskComesOn DEF PoolStep
    <2>3. Come' <= 4 * N + 5
      <3>1. \A S \in SUBSET Workers : Cardinality(S) \in Nat /\ Cardinality(S) <= N
        BY Counted
      <3>2. /\ submitted' \in SUBSET Workers /\ Entered' \in SUBSET Workers
            /\ Passed' \in SUBSET Workers /\ Over' \in SUBSET Workers
        BY <2>1 DEF IInv, TaskInv, Entered, Passed, Over
      <3>3. StageOf[pc'] \in 0..5
        BY <2>1 DEF IInv, PoolInv, StageOf
      <3>4. /\ Cardinality(submitted') \in Nat /\ Cardinality(submitted') <= N
            /\ Cardinality(Entered') \in Nat /\ Cardinality(Entered') <= N
            /\ Cardinality(Passed') \in Nat /\ Cardinality(Passed') <= N
            /\ Cardinality(Over') \in Nat /\ Cardinality(Over') <= N
        BY <3>1, <3>2
      <3> QED
        BY <3>3, <3>4, NIsNat DEF Come
    <2> QED
      BY <2>2, <2>3
  <1> QED
    BY <1>1, InvariantHolds, PTL DEF Spec, MeetingComesOn
=============================================================================
