--------------------------- MODULE DispatchProofs ---------------------------
(***************************************************************************)
(* The safety properties of Dispatch, for any number of calls, threads,    *)
(* workers and reloads, and that it implements CallLedger.                 *)
(*                                                                         *)
(* Nothing but its id ties a completion to its call.  It is enough: an id  *)
(* is the provider it was minted by and a number below that provider's     *)
(* counter, so no two calls ever have the same one, and the caller travels *)
(* with the call from the thread's scope to the worker.                    *)
(***************************************************************************)
EXTENDS Dispatch, SequenceTheorems, TLAPS

Unminted == {"new", "delivered"}
States   == Unminted \cup {"queued", "started", "running", "done"}

TypeInv ==
  /\ instance \in Nat /\ counter \in Nat
  /\ delivering \in [Threads -> Calls \cup {NoCall}]
  /\ scope \in [Threads -> Callers \cup {Unknown}]
  /\ state \in [Calls -> States]
  /\ callId \in [Calls -> Nat \X Nat]
  /\ document \in [Calls -> Callers \cup {Unknown}]
  /\ queue \in Seq(Calls)
  /\ running \in [Workers -> Calls \cup {NoCall}]
  /\ told \in [Workers -> Callers \cup {Unknown}]
  /\ seen \in [Calls -> Callers \cup {Nobody}]
  /\ pending \in [Calls -> Nat \X Nat]
  /\ answered \in [Calls -> Calls \cup {NoCall}]

\* A thread in callMethod has the scope of the call it delivers.
DeliveringInv ==
  \A t \in Threads : delivering[t] # NoCall =>
    scope[t] = CallerOf[delivering[t]] /\ state[delivering[t]] # "new"

\* The document that travels with a call is its own caller's.
DocumentInv == \A c \in Calls : state[c] \notin Unminted => document[c] = CallerOf[c]

\* The queue holds the calls that are queued, each once.
QueueInv ==
  /\ \A i \in 1..Len(queue) : state[queue[i]] = "queued"
  /\ \A i, j \in 1..Len(queue) : queue[i] = queue[j] => i = j

\* A worker performs a call of its own, as its caller, or is nobody's.
RunningInv ==
  \A w \in Workers :
    /\ running[w] = NoCall => told[w] = Unknown
    /\ running[w] # NoCall =>
         /\ told[w] = CallerOf[running[w]]
         /\ state[running[w]] \in {"started", "running"}
         /\ \A v \in Workers : running[v] = running[w] => v = w

\* What its handler was told.
SeenInv ==
  \A c \in Calls : seen[c] = IF state[c] \in {"running", "done"} THEN CallerOf[c]
                                                                 ELSE Nobody

\* Ids are below the counter of the provider that minted them, and unique.
IdInv ==
  /\ \A c \in Calls : state[c] \notin Unminted =>
       /\ callId[c][1] <= instance
       /\ callId[c][1] = instance => callId[c][2] < counter
  /\ \A c, d \in Calls :
       state[c] \notin Unminted /\ state[d] \notin Unminted /\ callId[c] = callId[d]
         => c = d

\* What consumers hold are the ids of calls, and completions of calls.
ConsumerInv ==
  /\ \A c \in Calls : pending[c] # NoId =>
       pending[c] = callId[c] /\ state[c] \notin Unminted
  /\ \A m \in completions : m.of \in Calls /\ state[m.of] = "done" /\ m.id = callId[m.of]
  /\ \A c \in Calls : answered[c] # NoCall => answered[c] = c /\ state[c] = "done"

IInv ==
  /\ TypeInv
  /\ DeliveringInv
  /\ DocumentInv
  /\ QueueInv
  /\ RunningInv
  /\ SeenInv
  /\ IdInv
  /\ ConsumerInv
-----------------------------------------------------------------------------
LEMMA CallerIsSomeone ==
  ASSUME NEW c \in Calls
  PROVE  CallerOf[c] \in Callers /\ CallerOf[c] \notin {Unknown, Nobody} /\ c # NoCall
  BY CallsAssumption

LEMMA InitIInv == Init => IInv
  <1> SUFFICES ASSUME Init
               PROVE  IInv
    OBVIOUS
  <1> USE DEF Init, Unminted
  <1>1. Len(queue) = 0 /\ queue \in Seq(Calls)
    BY EmptySeq
  <1>2. TypeInv
    BY <1>1 DEF TypeInv, States, NoId
  <1>3. DeliveringInv /\ RunningInv
    BY DEF DeliveringInv, RunningInv
  <1>6. \A c \in Calls : state[c] = "new" /\ seen[c] = Nobody
    OBVIOUS
  <1>7. DocumentInv /\ SeenInv
    BY <1>6 DEF DocumentInv, SeenInv
  <1>8. IdInv
    BY <1>6 DEF IdInv
  <1>4. QueueInv
    BY <1>1 DEF QueueInv
  <1>5. ConsumerInv
    BY DEF ConsumerInv
  <1> QED
    BY <1>2, <1>3, <1>4, <1>5, <1>7, <1>8 DEF IInv
-----------------------------------------------------------------------------
\* A call arrives.
LEMMA DeliverKeeps ==
  ASSUME IInv, NEW t \in Threads, NEW c \in Calls, Deliver(t, c)
  PROVE  IInv'
  <1>0. /\ TypeInv /\ DeliveringInv /\ DocumentInv /\ QueueInv /\ RunningInv
        /\ SeenInv /\ IdInv /\ ConsumerInv
    BY DEF IInv
  <1>1. /\ state[c] = "new" /\ delivering[t] = NoCall
        /\ state' = [state EXCEPT ![c] = "delivered"]
        /\ delivering' = [delivering EXCEPT ![t] = c]
        /\ scope' = [scope EXCEPT ![t] = CallerOf[c]]
        /\ UNCHANGED <<instance, counter, callId, document, queue, running, told, seen,
                       pending, completions, answered>>
    BY DEF Deliver, provider, captured, pool, consumer
  <1>2. /\ state' \in [Calls -> States] /\ state'[c] = "delivered"
        /\ \A d \in Calls : d # c => state'[d] = state[d]
    BY <1>0, <1>1 DEF TypeInv, States, Unminted
  <1>3. CallerOf[c] \in Callers /\ CallerOf[c] \notin {Unknown, Nobody} /\ c # NoCall
    BY CallerIsSomeone
  <1>4. TypeInv'
    BY <1>0, <1>1, <1>2, <1>3 DEF TypeInv
  <1>5. DeliveringInv'
    BY <1>0, <1>1, <1>2, <1>3 DEF DeliveringInv, TypeInv
  <1>6. DocumentInv' /\ SeenInv'
    BY <1>0, <1>1, <1>2 DEF DocumentInv, SeenInv, Unminted
  <1>7. QueueInv'
    <2>1. \A i \in 1..Len(queue) : queue[i] \in Calls
      BY <1>0 DEF TypeInv
    <2> QED
      BY <1>0, <1>1, <1>2, <2>1 DEF QueueInv
  <1>8. RunningInv'
    BY <1>0, <1>1, <1>2 DEF RunningInv, TypeInv
  <1>9. IdInv'
    BY <1>0, <1>1, <1>2 DEF IdInv, Unminted
  <1>10. ConsumerInv'
    BY <1>0, <1>1, <1>2 DEF ConsumerInv, Unminted
  <1> QED
    BY <1>4, <1>5, <1>6, <1>7, <1>8, <1>9, <1>10 DEF IInv

\* It is given an id and queued.
LEMMA CallMethodKeeps ==
  ASSUME IInv, NEW t \in Threads, CallMethod(t)
  PROVE  IInv'
  <1> DEFINE c == delivering[t]
  <1>0. /\ TypeInv /\ DeliveringInv /\ DocumentInv /\ QueueInv /\ RunningInv
        /\ SeenInv /\ IdInv /\ ConsumerInv
    BY DEF IInv
  <1>1. /\ c # NoCall /\ state[c] = "delivered"
        /\ callId' = [callId EXCEPT ![c] = <<instance, counter>>]
        /\ counter' = counter + 1
        /\ document' = [document EXCEPT ![c] = scope[t]]
        /\ queue' = Append(queue, c)
        /\ state' = [state EXCEPT ![c] = "queued"]
        /\ UNCHANGED <<instance, scope, delivering, running, told, seen, pending,
                       completions, answered>>
    BY DEF CallMethod, MintId, handlers, consumer
  <1>2. c \in Calls /\ scope[t] = CallerOf[c]
    BY <1>0, <1>1 DEF TypeInv, DeliveringInv
  <1> HIDE DEF c
  <1>3. /\ state' \in [Calls -> States] /\ state'[c] = "queued"
        /\ \A d \in Calls : d # c => state'[d] = state[d]
    BY <1>0, <1>1, <1>2 DEF TypeInv, States
  <1>4. /\ callId' \in [Calls -> Nat \X Nat] /\ callId'[c] = <<instance, counter>>
        /\ \A d \in Calls : d # c => callId'[d] = callId[d]
    BY <1>0, <1>1, <1>2 DEF TypeInv
  <1>5. /\ document' \in [Calls -> Callers \cup {Unknown}] /\ document'[c] = CallerOf[c]
        /\ \A d \in Calls : d # c => document'[d] = document[d]
    BY <1>0, <1>1, <1>2, CallerIsSomeone DEF TypeInv
  <1>6. /\ queue' \in Seq(Calls) /\ Len(queue') = Len(queue) + 1 /\ Len(queue) \in Nat
        /\ queue'[Len(queue) + 1] = c
        /\ \A i \in 1..Len(queue) : queue'[i] = queue[i] /\ queue[i] \in Calls
    BY <1>0, <1>1, <1>2 DEF TypeInv
  <1>7. TypeInv'
    BY <1>0, <1>1, <1>3, <1>4, <1>5, <1>6 DEF TypeInv
  <1>8. DeliveringInv'
    BY <1>0, <1>1, <1>3 DEF DeliveringInv, TypeInv
  <1>9. DocumentInv' /\ SeenInv'
    BY <1>0, <1>1, <1>3, <1>5 DEF DocumentInv, SeenInv
  <1>10. QueueInv'
    <2>1. \A i \in 1..Len(queue) : queue'[i] # c /\ state'[queue'[i]] = "queued"
      BY <1>0, <1>1, <1>3, <1>6 DEF QueueInv
    <2>2. \A i \in 1..Len(queue') : i \in 1..Len(queue) \/ (i = Len(queue) + 1 /\ queue'[i] = c)
      BY <1>6
    <2>3. \A i \in 1..Len(queue') : state'[queue'[i]] = "queued"
      BY <1>3, <2>1, <2>2
    <2>4. ASSUME NEW i \in 1..Len(queue'), NEW j \in 1..Len(queue'), queue'[i] = queue'[j]
          PROVE  i = j
      BY <1>0, <1>6, <2>1, <2>2, <2>4 DEF QueueInv
    <2> QED
      BY <2>3, <2>4 DEF QueueInv
  <1>11. RunningInv'
    BY <1>0, <1>1, <1>3 DEF RunningInv, TypeInv
  <1>12. IdInv'
    <2>1. ASSUME NEW d \in Calls, state'[d] \notin Unminted
          PROVE  /\ callId'[d][1] <= instance'
                 /\ callId'[d][1] = instance' => callId'[d][2] < counter'
                 /\ callId'[d] = callId'[c] => d = c
      <3>1. CASE d = c
        BY <1>0, <1>1, <1>4, <3>1 DEF TypeInv
      <3>2. CASE d # c
        <4>1. /\ callId[d][1] <= instance
              /\ callId[d][1] = instance => callId[d][2] < counter
          BY <1>0, <1>3, <2>1, <3>2 DEF IdInv
        <4>2. callId[d][1] \in Nat /\ callId[d][2] \in Nat /\ callId'[d] = callId[d]
          BY <1>0, <1>4, <3>2 DEF TypeInv
        <4>3. callId'[c][1] = instance /\ callId'[c][2] = counter
          BY <1>4
        <4> QED
          BY <1>0, <1>1, <4>1, <4>2, <4>3 DEF TypeInv
      <3> QED
        BY <3>1, <3>2
    <2>2. ASSUME NEW d \in Calls, NEW e \in Calls, state'[d] \notin Unminted,
                 state'[e] \notin Unminted, callId'[d] = callId'[e]
          PROVE  d = e
      <3>1. CASE d = c \/ e = c
        BY <2>1, <2>2, <3>1
      <3>2. CASE d # c /\ e # c
        BY <1>0, <1>3, <1>4, <2>2, <3>2 DEF IdInv
      <3> QED
        BY <3>1, <3>2
    <2>3. \A d \in Calls : state'[d] \notin Unminted =>
            /\ callId'[d][1] <= instance'
            /\ callId'[d][1] = instance' => callId'[d][2] < counter'
      BY <2>1
    <2>4. \A d, e \in Calls :
            state'[d] \notin Unminted /\ state'[e] \notin Unminted
                /\ callId'[d] = callId'[e]
              => d = e
      BY <2>2
    <2> QED
      BY <2>3, <2>4, Zenon DEF IdInv, Unminted
  <1>13. ConsumerInv'
    BY <1>0, <1>1, <1>2, <1>3, <1>4 DEF ConsumerInv, Unminted
  <1> QED
    BY <1>7, <1>8, <1>9, <1>10, <1>11, <1>12, <1>13 DEF IInv

\* The thread is through with it.
LEMMA ReturnPendingKeeps ==
  ASSUME IInv, NEW t \in Threads, ReturnPending(t)
  PROVE  IInv'
  <1> DEFINE c == delivering[t]
  <1>0. /\ TypeInv /\ DeliveringInv /\ DocumentInv /\ QueueInv /\ RunningInv
        /\ SeenInv /\ IdInv /\ ConsumerInv
    BY DEF IInv
  <1>1. /\ c # NoCall /\ state[c] # "delivered"
        /\ pending' = [pending EXCEPT ![c] = callId[c]]
        /\ delivering' = [delivering EXCEPT ![t] = NoCall]
        /\ scope' = [scope EXCEPT ![t] = Unknown]
        /\ UNCHANGED <<instance, counter, state, callId, document, queue, running, told,
                       seen, completions, answered>>
    BY DEF ReturnPending, provider, captured, pool, handlers
  <1>2. c \in Calls /\ state[c] \notin Unminted
    BY <1>0, <1>1 DEF TypeInv, DeliveringInv, Unminted
  <1> HIDE DEF c
  <1>3. TypeInv'
    BY <1>0, <1>1, <1>2 DEF TypeInv
  <1>4. DeliveringInv'
    BY <1>0, <1>1 DEF DeliveringInv, TypeInv
  <1>5. DocumentInv' /\ SeenInv' /\ QueueInv' /\ RunningInv' /\ IdInv'
    BY <1>0, <1>1 DEF DocumentInv, SeenInv, QueueInv, RunningInv, IdInv
  <1>6. ConsumerInv'
    BY <1>0, <1>1, <1>2 DEF ConsumerInv, TypeInv
  <1> QED
    BY <1>3, <1>4, <1>5, <1>6 DEF IInv
-----------------------------------------------------------------------------
\* A worker takes it from the queue, with its caller.
LEMMA StartKeeps ==
  ASSUME IInv, NEW w \in Workers, Start(w)
  PROVE  IInv'
  <1> DEFINE c == Head(queue)
  <1>0. /\ TypeInv /\ DeliveringInv /\ DocumentInv /\ QueueInv /\ RunningInv
        /\ SeenInv /\ IdInv /\ ConsumerInv
    BY DEF IInv
  <1>1. /\ running[w] = NoCall /\ queue # <<>>
        /\ running' = [running EXCEPT ![w] = c]
        /\ queue' = Tail(queue)
        /\ told' = [told EXCEPT ![w] = document[c]]
        /\ state' = [state EXCEPT ![c] = "started"]
        /\ UNCHANGED <<instance, counter, scope, delivering, callId, document, seen,
                       pending, completions, answered>>
    BY DEF Start, provider, captured, handlers, consumer
  <1>2. /\ c \in Calls /\ c = queue[1] /\ Len(queue) \in Nat \ {0}
        /\ queue' \in Seq(Calls) /\ Len(queue') = Len(queue) - 1
        /\ \A i \in 1..(Len(queue) - 1) : queue'[i] = queue[i + 1] /\ queue[i + 1] \in Calls
    BY <1>0, <1>1, HeadTailProperties, EmptySeq DEF TypeInv
  <1> HIDE DEF c
  <1>3. state[c] = "queued" /\ document[c] = CallerOf[c] /\ c # NoCall
    BY <1>0, <1>2, CallerIsSomeone DEF QueueInv, DocumentInv, Unminted
  <1>4. /\ state' \in [Calls -> States] /\ state'[c] = "started"
        /\ \A d \in Calls : d # c => state'[d] = state[d]
    BY <1>0, <1>1, <1>2 DEF TypeInv, States
  <1>5. TypeInv'
    BY <1>0, <1>1, <1>2, <1>4 DEF TypeInv
  <1>6. DeliveringInv'
    BY <1>0, <1>1, <1>4 DEF DeliveringInv, TypeInv
  <1>7. DocumentInv' /\ SeenInv'
    BY <1>0, <1>1, <1>3, <1>4 DEF DocumentInv, SeenInv, Unminted
  <1>8. QueueInv'
    <2>1. ASSUME NEW i \in 1..Len(queue')
          PROVE  /\ i + 1 \in 1..Len(queue)
                 /\ queue'[i] = queue[i + 1] /\ queue[i + 1] \in Calls
      BY <1>2
    <2>2. ASSUME NEW i \in 1..Len(queue')
          PROVE  state'[queue'[i]] = "queued"
      <3>1. queue[i + 1] # c /\ state[queue[i + 1]] = "queued"
        BY <1>0, <1>2, <2>1 DEF QueueInv
      <3> QED
        BY <1>4, <2>1, <3>1
    <2>3. ASSUME NEW i \in 1..Len(queue'), NEW j \in 1..Len(queue'), queue'[i] = queue'[j]
          PROVE  i = j
      <3>1. i + 1 = j + 1
        BY <1>0, <2>1, <2>3 DEF QueueInv
      <3> QED
        BY <1>2, <3>1
    <2> QED
      BY <2>2, <2>3 DEF QueueInv
  <1>9. RunningInv'
    <2> SUFFICES ASSUME NEW v \in Workers
                 PROVE  /\ running'[v] = NoCall => told'[v] = Unknown
                        /\ running'[v] # NoCall =>
                             /\ told'[v] = CallerOf[running'[v]]
                             /\ state'[running'[v]] \in {"started", "running"}
                             /\ \A u \in Workers : running'[u] = running'[v] => u = v
      BY DEF RunningInv
    <2>1. \A u \in Workers : running[u] # c
      BY <1>0, <1>3 DEF RunningInv
    <2>2. /\ running'[w] = c /\ told'[w] = CallerOf[c]
          /\ \A u \in Workers : u # w => running'[u] = running[u] /\ told'[u] = told[u]
      BY <1>0, <1>1, <1>3 DEF TypeInv
    <2>3. CASE v = w
      BY <1>3, <1>4, <2>1, <2>2, <2>3
    <2>4. CASE v # w
      <3>1. running[v] \in Calls \cup {NoCall}
        BY <1>0 DEF TypeInv
      <3>2. running[v] # NoCall => state'[running[v]] = state[running[v]]
        BY <1>4, <2>1, <3>1
      <3> QED
        BY <1>0, <1>1, <2>1, <2>2, <2>4, <3>2 DEF RunningInv
    <2> QED
      BY <2>3, <2>4
  <1>10. IdInv'
    BY <1>0, <1>1, <1>3, <1>4 DEF IdInv, Unminted
  <1>11. ConsumerInv'
    BY <1>0, <1>1, <1>3, <1>4 DEF ConsumerInv, Unminted
  <1> QED
    BY <1>5, <1>6, <1>7, <1>8, <1>9, <1>10, <1>11 DEF IInv

\* The handler asks, and goes on.
LEMMA HandleKeeps ==
  ASSUME IInv, NEW w \in Workers, Handle(w)
  PROVE  IInv'
  <1> DEFINE c == running[w]
  <1>0. /\ TypeInv /\ DeliveringInv /\ DocumentInv /\ QueueInv /\ RunningInv
        /\ SeenInv /\ IdInv /\ ConsumerInv
    BY DEF IInv
  <1>1. /\ c # NoCall /\ state[c] = "started"
        /\ seen' = [seen EXCEPT ![c] = told[w]]
        /\ state' = [state EXCEPT ![c] = "running"]
        /\ UNCHANGED <<instance, counter, scope, delivering, callId, document, queue,
                       running, told, pending, completions, answered>>
    BY DEF Handle, provider, captured, pool, consumer
  <1>2. c \in Calls /\ told[w] = CallerOf[c] /\ CallerOf[c] \in Callers
    BY <1>0, <1>1, CallerIsSomeone DEF TypeInv, RunningInv
  <1> HIDE DEF c
  <1>3. /\ state' \in [Calls -> States] /\ state'[c] = "running"
        /\ \A d \in Calls : d # c => state'[d] = state[d]
    BY <1>0, <1>1, <1>2 DEF TypeInv, States
  <1>4. TypeInv'
    BY <1>0, <1>1, <1>2, <1>3 DEF TypeInv
  <1>5. DeliveringInv'
    BY <1>0, <1>1, <1>3 DEF DeliveringInv, TypeInv
  <1>6. DocumentInv'
    BY <1>0, <1>1, <1>3 DEF DocumentInv, Unminted
  <1>7. SeenInv'
    BY <1>0, <1>1, <1>2, <1>3 DEF SeenInv, TypeInv
  <1>8. QueueInv'
    <2>1. \A i \in 1..Len(queue) : queue[i] \in Calls
      BY <1>0 DEF TypeInv
    <2> QED
      BY <1>0, <1>1, <1>3, <2>1 DEF QueueInv
  <1>9. RunningInv'
    BY <1>0, <1>1, <1>3 DEF RunningInv, TypeInv
  <1>10. IdInv'
    BY <1>0, <1>1, <1>3 DEF IdInv, Unminted
  <1>11. ConsumerInv'
    BY <1>0, <1>1, <1>3 DEF ConsumerInv, Unminted
  <1> QED
    BY <1>4, <1>5, <1>6, <1>7, <1>8, <1>9, <1>10, <1>11 DEF IInv

\* The handler is done; a completion, if there is one, bears the call's id.
LEMMA CompleteKeeps ==
  ASSUME IInv, NEW w \in Workers, Complete(w)
  PROVE  IInv'
  <1> DEFINE c == running[w]
             m == [id |-> callId[c], of |-> c]
  <1>0. /\ TypeInv /\ DeliveringInv /\ DocumentInv /\ QueueInv /\ RunningInv
        /\ SeenInv /\ IdInv /\ ConsumerInv
    BY DEF IInv
  <1>1. /\ c # NoCall /\ state[c] = "running"
        /\ told' = [told EXCEPT ![w] = Unknown]
        /\ running' = [running EXCEPT ![w] = NoCall]
        /\ state' = [state EXCEPT ![c] = "done"]
        /\ UNCHANGED <<instance, counter, scope, delivering, callId, document, queue,
                       seen, pending, answered>>
    BY DEF Complete, provider, captured, handlers
  <1>2. completions' \subseteq completions \cup {m}
    <2>1. completions' = IF heard[c] THEN completions \cup {m} ELSE completions
      BY DEF Complete
    <2>2. completions' = completions \cup {m} \/ completions' = completions
      BY <2>1, Zenon
    <2> QED
      BY <2>2
  <1>3. c \in Calls /\ m.of = c /\ m.id = callId[c]
    BY <1>0, <1>1 DEF TypeInv
  <1>4. \A v \in Workers : running[v] = c => v = w
    BY <1>0, <1>1 DEF RunningInv
  <1> HIDE DEF c, m
  <1>5. /\ state' \in [Calls -> States] /\ state'[c] = "done"
        /\ \A d \in Calls : d # c => state'[d] = state[d]
    BY <1>0, <1>1, <1>3 DEF TypeInv, States
  <1>6. TypeInv'
    BY <1>0, <1>1, <1>5 DEF TypeInv
  <1>7. DeliveringInv'
    BY <1>0, <1>1, <1>5 DEF DeliveringInv, TypeInv
  <1>8. DocumentInv' /\ SeenInv'
    BY <1>0, <1>1, <1>5 DEF DocumentInv, SeenInv, Unminted
  <1>9. QueueInv'
    <2>1. \A i \in 1..Len(queue) : queue[i] \in Calls
      BY <1>0 DEF TypeInv
    <2> QED
      BY <1>0, <1>1, <1>5, <2>1 DEF QueueInv
  <1>10. RunningInv'
    <2> SUFFICES ASSUME NEW v \in Workers
                 PROVE  /\ running'[v] = NoCall => told'[v] = Unknown
                        /\ running'[v] # NoCall =>
                             /\ told'[v] = CallerOf[running'[v]]
                             /\ state'[running'[v]] \in {"started", "running"}
                             /\ \A u \in Workers : running'[u] = running'[v] => u = v
      BY DEF RunningInv
    <2>1. /\ running'[w] = NoCall /\ told'[w] = Unknown
          /\ \A u \in Workers : u # w => running'[u] = running[u] /\ told'[u] = told[u]
      BY <1>0, <1>1 DEF TypeInv
    <2>2. v # w /\ running[v] # NoCall => state'[running[v]] = state[running[v]]
      BY <1>0, <1>4, <1>5 DEF TypeInv
    <2> QED
      BY <1>0, <2>1, <2>2 DEF RunningInv
  <1>11. IdInv'
    BY <1>0, <1>1, <1>5 DEF IdInv, Unminted
  <1>12. ConsumerInv'
    <2>1. \A n \in completions' :
            n.of \in Calls /\ state'[n.of] = "done" /\ n.id = callId[n.of]
      BY <1>0, <1>2, <1>3, <1>5 DEF ConsumerInv
    <2>2. \A d \in Calls : pending'[d] # NoId =>
            pending'[d] = callId[d] /\ state'[d] \notin Unminted
      BY <1>0, <1>1, <1>5 DEF ConsumerInv, Unminted
    <2>3. \A d \in Calls : answered'[d] # NoCall => answered'[d] = d /\ state'[d] = "done"
      BY <1>0, <1>1, <1>5 DEF ConsumerInv
    <2> QED
      BY <1>1, <2>1, <2>2, <2>3 DEF ConsumerInv
  <1> QED
    BY <1>6, <1>7, <1>8, <1>9, <1>10, <1>11, <1>12 DEF IInv

\* The consumer that takes a completion by its id takes its own call's.
LEMMA TakesItsOwn ==
  ASSUME IInv, NEW c \in Calls, Take(c)
  PROVE  /\ state[c] = "done"
         /\ answered[c] = NoCall /\ answered' = [answered EXCEPT ![c] = c]
  <1> PICK m \in completions : /\ m.id = pending[c]
                               /\ answered' = [answered EXCEPT ![c] = m.of]
    BY DEF Take
  <1>1. m.of \in Calls /\ state[m.of] = "done" /\ m.id = callId[m.of]
    BY DEF IInv, ConsumerInv
  <1>2. pending[c] = callId[c] /\ state[c] \notin Unminted /\ answered[c] = NoCall
    BY DEF IInv, ConsumerInv, Take
  <1>3. m.of = c
    BY <1>1, <1>2 DEF IInv, IdInv, Unminted
  <1> QED
    BY <1>1, <1>2, <1>3

LEMMA TakeKeeps ==
  ASSUME IInv, NEW c \in Calls, Take(c)
  PROVE  IInv'
  <1>0. /\ TypeInv /\ DeliveringInv /\ DocumentInv /\ QueueInv /\ RunningInv
        /\ SeenInv /\ IdInv /\ ConsumerInv
    BY DEF IInv
  <1>1. /\ state[c] = "done"
        /\ answered' = [answered EXCEPT ![c] = c]
        /\ UNCHANGED <<instance, counter, scope, delivering, state, callId, document,
                       queue, running, told, seen, pending, completions>>
    BY TakesItsOwn DEF Take, provider, captured, pool, handlers
  <1>2. TypeInv'
    BY <1>0, <1>1 DEF TypeInv
  <1>3. /\ DeliveringInv' /\ DocumentInv' /\ SeenInv' /\ QueueInv' /\ RunningInv'
        /\ IdInv'
    BY <1>0, <1>1 DEF DeliveringInv, DocumentInv, SeenInv, QueueInv, RunningInv, IdInv
  <1>4. ConsumerInv'
    BY <1>0, <1>1 DEF ConsumerInv, TypeInv
  <1> QED
    BY <1>2, <1>3, <1>4 DEF IInv

\* A new provider counts from 0 under a prefix of its own.
LEMMA ReloadKeeps ==
  ASSUME IInv, Reload
  PROVE  IInv'
  <1>0. /\ TypeInv /\ DeliveringInv /\ DocumentInv /\ QueueInv /\ RunningInv
        /\ SeenInv /\ IdInv /\ ConsumerInv
    BY DEF IInv
  <1>1. /\ instance' = instance + 1 /\ counter' = 0
        /\ UNCHANGED <<scope, delivering, state, callId, document, queue, running, told,
                       seen, pending, completions, answered>>
    BY DEF Reload, captured, pool, handlers, consumer
  <1>2. TypeInv'
    BY <1>0, <1>1 DEF TypeInv
  <1>3. DeliveringInv' /\ DocumentInv' /\ SeenInv' /\ QueueInv' /\ RunningInv' /\ ConsumerInv'
    BY <1>0, <1>1 DEF DeliveringInv, DocumentInv, SeenInv, QueueInv, RunningInv, ConsumerInv
  <1>4. ASSUME NEW c \in Calls, state[c] \notin Unminted
        PROVE  callId[c][1] < instance'
    <2>1. callId[c][1] <= instance /\ callId[c][1] \in Nat /\ instance \in Nat
      BY <1>0, <1>4 DEF IdInv, TypeInv
    <2> QED
      BY <1>1, <2>1
  <1>5. IdInv'
    <2>1. \A c \in Calls : state[c] \notin Unminted => callId[c][1] \in Nat /\ instance' \in Nat
      BY <1>0, <1>2 DEF TypeInv
    <2> QED
      BY <1>0, <1>1, <1>4, <2>1 DEF IdInv
  <1> QED
    BY <1>2, <1>3, <1>5 DEF IInv

\* The listener, and what handlers do not wait for any more, are in none of it.
LEMMA OthersKeep ==
  ASSUME IInv, SetEventListener \/ (\E c \in Calls : GiveUp(c)) \/ UNCHANGED vars
  PROVE  IInv' /\ UNCHANGED <<seen, answered>>
  <1>0. /\ TypeInv /\ DeliveringInv /\ DocumentInv /\ QueueInv /\ RunningInv
        /\ SeenInv /\ IdInv /\ ConsumerInv
    BY DEF IInv
  <1>1. UNCHANGED <<instance, counter, scope, delivering, state, callId, document, queue,
                    running, told, seen, pending, completions, answered>>
    BY DEF SetEventListener, GiveUp, vars, provider, captured, pool, handlers, consumer
  <1>2. TypeInv'
    BY <1>0, <1>1 DEF TypeInv
  <1>3. DeliveringInv' /\ DocumentInv' /\ SeenInv' /\ QueueInv'
    BY <1>0, <1>1 DEF DeliveringInv, DocumentInv, SeenInv, QueueInv
  <1>4. RunningInv' /\ IdInv' /\ ConsumerInv'
    BY <1>0, <1>1 DEF RunningInv, IdInv, ConsumerInv
  <1> QED
    BY <1>1, <1>2, <1>3, <1>4 DEF IInv

LEMMA NextIInv == IInv /\ [Next]_vars => IInv'
  BY DeliverKeeps, CallMethodKeeps, ReturnPendingKeeps, StartKeeps, HandleKeeps,
     CompleteKeeps, TakeKeeps, ReloadKeeps, OthersKeep DEF Next, Thread, Worker

THEOREM InvariantHolds == Spec => []IInv
  BY InitIInv, NextIInv, PTL DEF Spec
-----------------------------------------------------------------------------
\* However calls are delivered and workers scheduled, a handler is told the
\* caller of its own call.
THEOREM OwnCallerIsTold == Spec => []CallerIsOwn
  <1>1. IInv => CallerIsOwn
    BY DEF IInv, SeenInv, CallerIsOwn
  <1> QED
    BY <1>1, InvariantHolds, PTL

\* An idle worker is nobody's, whatever it has performed.
THEOREM NobodyIsLeft == Spec => []NoCallerLeftStanding
  <1>1. IInv => NoCallerLeftStanding
    BY DEF IInv, RunningInv, NoCallerLeftStanding
  <1> QED
    BY <1>1, InvariantHolds, PTL

\* Every step is a step of the ledger or none: a handler that asks performs its
\* call, and a consumer that takes a completion answers it.
THEOREM DispatchImplementsLedger == Spec => ImplementsLedger
  <1> DEFINE shown == [c \in Calls |-> IF answered[c] = NoCall THEN "no result"
                                                              ELSE answered[c]]
  <1>1. Init => Ledger!Init
    BY DEF Init, Ledger!Init, Ledger!Nobody, Ledger!NoResult, Nobody
  <1>2. IInv /\ [Next]_vars => [Ledger!Next]_<<seen, shown>>
    <2> SUFFICES ASSUME IInv, [Next]_vars
                 PROVE  Ledger!Next \/ UNCHANGED <<seen, shown>>
      OBVIOUS
    <2>1. ASSUME NEW w \in Workers, Handle(w)
          PROVE  \E c \in Calls : Ledger!Perform(c)
      <3> DEFINE c == running[w]
      <3>1. /\ c # NoCall /\ state[c] = "started"
            /\ seen' = [seen EXCEPT ![c] = told[w]] /\ UNCHANGED answered
        BY <2>1 DEF Handle, consumer
      <3>2. c \in Calls /\ told[w] = CallerOf[c] /\ seen[c] = Nobody
        BY <3>1 DEF IInv, TypeInv, RunningInv, SeenInv
      <3> QED
        BY <3>1, <3>2 DEF Ledger!Perform, Ledger!Nobody, Nobody
    <2>2. ASSUME NEW c \in Calls, Take(c)
          PROVE  Ledger!Answer(c)
      <3>1. /\ state[c] = "done" /\ answered[c] = NoCall
            /\ answered' = [answered EXCEPT ![c] = c]
        BY <2>2, TakesItsOwn
      <3>2. UNCHANGED seen /\ seen[c] = CallerOf[c] /\ CallerOf[c] # Nobody /\ c # NoCall
        BY <2>2, <3>1, CallerIsSomeone DEF Take, handlers, IInv, SeenInv
      <3>3. shown' = [shown EXCEPT ![c] = c] /\ shown[c] = "no result"
        BY <3>1, <3>2 DEF IInv, TypeInv
      <3> QED
        BY <3>2, <3>3 DEF Ledger!Answer, Ledger!Nobody, Ledger!NoResult, Nobody
    <2>3. ASSUME \/ SetEventListener \/ Reload \/ UNCHANGED vars
                 \/ \E t \in Threads : Thread(t) \/ \E c \in Calls : Deliver(t, c)
                 \/ \E w \in Workers : Start(w) \/ Complete(w)
                 \/ \E c \in Calls : GiveUp(c)
          PROVE  UNCHANGED <<seen, answered>>
      BY <2>3 DEF SetEventListener, Reload, vars, Thread, CallMethod, ReturnPending,
                  Deliver, Start, Complete, GiveUp, handlers, consumer
    <2> QED
      BY <2>1, <2>2, <2>3 DEF Next, Worker, Ledger!Next
  <1> QED
    BY <1>1, <1>2, InvariantHolds, PTL DEF Spec, ImplementsLedger, Ledger!Spec
-----------------------------------------------------------------------------
(***************************************************************************)
(* No accepted call is lost.  AcceptedIsAnswered is a liveness property    *)
(* and stays with TLC; what it rests on is not: at every moment somebody   *)
(* has the call, and of those who have one somebody can go on.             *)
(***************************************************************************)

\* Variables the invariant above has nothing to say of.
HandlerTypeInv ==
  /\ listener \in BOOLEAN
  /\ heard \in [Calls -> BOOLEAN]
  /\ nestedIn \in [Calls -> Calls \cup {NoCall}]

\* A call that is queued is in the pool's queue, and one that is performed has a
\* worker.
HeldInv ==
  \A c \in Calls :
    /\ state[c] = "queued" => \E i \in 1..Len(queue) : queue[i] = c
    /\ state[c] \in {"started", "running"} => \E w \in Workers : running[w] = c

\* Its sentinel is with the consumer, unless a thread still has it.
SentinelInv ==
  \A c \in Calls :
    /\ state[c] # "new" => pending[c] = callId[c] \/ \E t \in Threads : delivering[t] = c
    /\ state[c] = "delivered" => \E t \in Threads : delivering[t] = c

\* Its completion is with the consumer once the handler is done, if the listener
\* was there when the call was accepted.
ReportedInv ==
  \A c \in Calls : state[c] = "done" /\ heard[c] =>
                     \E m \in completions : m.id = callId[c]

\* An id in use is not the one that stands for none.
RealIdInv == instance # 0 /\ \A c \in Calls : state[c] \notin Unminted => callId[c][1] # 0

TraceInv ==
  /\ HandlerTypeInv
  /\ HeldInv
  /\ SentinelInv
  /\ ReportedInv
  /\ RealIdInv

LEMMA InitTraceInv == Init => TraceInv
  <1> SUFFICES ASSUME Init
               PROVE  TraceInv
    OBVIOUS
  <1>1. \A c \in Calls : state[c] = "new"
    BY DEF Init
  <1>2. RealIdInv
    BY <1>1 DEF Init, RealIdInv, Unminted
  <1>3. HandlerTypeInv
    BY Zenon DEF Init, HandlerTypeInv
  <1> QED
    BY <1>1, <1>2, <1>3 DEF TraceInv, HeldInv, SentinelInv, ReportedInv

\* A thread has it from its arrival on.
LEMMA DeliverTraces ==
  ASSUME IInv, TraceInv, NEW t \in Threads, NEW c \in Calls, Deliver(t, c)
  PROVE  TraceInv'
  <1>1. /\ state[c] = "new" /\ delivering[t] = NoCall
        /\ nestedIn' \in [Calls -> Calls \cup {NoCall}]
        /\ delivering' = [delivering EXCEPT ![t] = c]
        /\ state' = [state EXCEPT ![c] = "delivered"]
        /\ UNCHANGED <<instance, listener, callId, heard, queue, running, pending,
                       completions>>
    BY DEF Deliver, provider, captured, pool, consumer, TraceInv, HandlerTypeInv
  <1>2. /\ state'[c] = "delivered" /\ delivering'[t] = c
        /\ \A d \in Calls : d # c => state'[d] = state[d]
        /\ \A u \in Threads : delivering[u] # NoCall => delivering'[u] = delivering[u]
    BY <1>1 DEF IInv, TypeInv
  <1>3. \A d \in Calls : d # NoCall
    BY CallsAssumption
  <1>4. HandlerTypeInv' /\ HeldInv' /\ ReportedInv' /\ RealIdInv'
    BY <1>1, <1>2 DEF TraceInv, HandlerTypeInv, HeldInv, ReportedInv, RealIdInv, Unminted
  <1>5. SentinelInv'
    BY <1>1, <1>2, <1>3 DEF TraceInv, SentinelInv
  <1> QED
    BY <1>4, <1>5 DEF TraceInv

\* The queue has it, at its end.
LEMMA CallMethodTraces ==
  ASSUME IInv, TraceInv, NEW t \in Threads, CallMethod(t)
  PROVE  TraceInv'
  <1> DEFINE c == delivering[t]
  <1>1. /\ c # NoCall /\ state[c] = "delivered"
        /\ callId' = [callId EXCEPT ![c] = <<instance, counter>>]
        /\ heard' = [heard EXCEPT ![c] = listener]
        /\ queue' = Append(queue, c)
        /\ state' = [state EXCEPT ![c] = "queued"]
        /\ UNCHANGED <<instance, listener, delivering, nestedIn, running, pending, completions>>
    BY DEF CallMethod, MintId, handlers, consumer
  <1>2. c \in Calls
    BY <1>1 DEF IInv, TypeInv
  <1>3. delivering[t] = c
    OBVIOUS
  <1> HIDE DEF c
  <1>4. /\ state'[c] = "queued" /\ callId'[c][1] = instance
        /\ \A d \in Calls : d # c => /\ state'[d] = state[d] /\ callId'[d] = callId[d]
                                     /\ heard'[d] = heard[d]
    BY <1>1, <1>2 DEF IInv, TypeInv, TraceInv, HandlerTypeInv
  <1>5. /\ Len(queue) \in Nat /\ Len(queue') = Len(queue) + 1 /\ queue'[Len(queue) + 1] = c
        /\ \A i \in 1..Len(queue) : queue'[i] = queue[i]
    BY <1>1, <1>2 DEF IInv, TypeInv
  <1>6. HandlerTypeInv'
    <2>1. listener \in BOOLEAN
      BY DEF TraceInv, HandlerTypeInv
    <2> QED
      BY <1>1, <1>2, <2>1 DEF TraceInv, HandlerTypeInv
  <1>7. HeldInv'
    <2>1. \A i \in 1..Len(queue) : i \in 1..Len(queue')
      BY <1>5
    <2>2. Len(queue) + 1 \in 1..Len(queue')
      BY <1>5
    <2> QED
      BY <1>1, <1>4, <1>5, <2>1, <2>2 DEF TraceInv, HeldInv
  <1>8. SentinelInv' /\ ReportedInv'
    BY <1>1, <1>3, <1>4 DEF TraceInv, SentinelInv, ReportedInv
  <1>9. RealIdInv'
    BY <1>1, <1>4 DEF TraceInv, RealIdInv, Unminted
  <1> QED
    BY <1>6, <1>7, <1>8, <1>9 DEF TraceInv

\* The consumer has the sentinel when the thread lets go of it.
LEMMA ReturnPendingTraces ==
  ASSUME IInv, TraceInv, NEW t \in Threads, ReturnPending(t)
  PROVE  TraceInv'
  <1> DEFINE c == delivering[t]
  <1>1. /\ c # NoCall /\ state[c] # "delivered"
        /\ pending' = [pending EXCEPT ![c] = callId[c]]
        /\ delivering' = [delivering EXCEPT ![t] = NoCall]
        /\ UNCHANGED <<instance, listener, state, callId, heard, nestedIn, queue, running,
                       completions>>
    BY DEF ReturnPending, provider, captured, pool, handlers
  <1>2. c \in Calls
    BY <1>1 DEF IInv, TypeInv
  <1>3. delivering[t] = c
    OBVIOUS
  <1> HIDE DEF c
  <1>4. /\ pending'[c] = callId[c]
        /\ \A d \in Calls : d # c => pending'[d] = pending[d]
        /\ \A u \in Threads : u # t => delivering'[u] = delivering[u]
    BY <1>1, <1>2 DEF IInv, TypeInv
  <1>5. HandlerTypeInv' /\ HeldInv' /\ ReportedInv' /\ RealIdInv'
    BY <1>1 DEF TraceInv, HandlerTypeInv, HeldInv, ReportedInv, RealIdInv
  <1>6. SentinelInv'
    BY <1>1, <1>3, <1>4 DEF TraceInv, SentinelInv
  <1> QED
    BY <1>5, <1>6 DEF TraceInv

\* A worker has it when the queue lets go of it.
LEMMA StartTraces ==
  ASSUME IInv, TraceInv, NEW w \in Workers, Start(w)
  PROVE  TraceInv'
  <1> DEFINE c == Head(queue)
  <1>1. /\ running[w] = NoCall /\ queue # <<>>
        /\ running' = [running EXCEPT ![w] = c]
        /\ queue' = Tail(queue)
        /\ state' = [state EXCEPT ![c] = "started"]
        /\ UNCHANGED <<instance, listener, delivering, callId, heard, nestedIn, pending,
                       completions>>
    BY DEF Start, provider, captured, handlers, consumer
  <1>2. /\ c \in Calls /\ c = queue[1] /\ Len(queue) \in Nat \ {0}
        /\ Len(queue') = Len(queue) - 1
        /\ \A i \in 1..(Len(queue) - 1) : queue'[i] = queue[i + 1]
    BY <1>1, HeadTailProperties, EmptySeq DEF IInv, TypeInv
  <1> HIDE DEF c
  <1>3. state[c] = "queued"
    BY <1>2 DEF IInv, QueueInv
  <1>4. /\ state'[c] = "started" /\ running'[w] = c
        /\ \A d \in Calls : d # c => state'[d] = state[d]
        /\ \A v \in Workers : running[v] # NoCall => running'[v] = running[v]
    BY <1>1, <1>2 DEF IInv, TypeInv
  <1>5. HeldInv'
    <2>1. ASSUME NEW d \in Calls, d # c, state[d] = "queued"
          PROVE  \E i \in 1..Len(queue') : queue'[i] = d
      <3>1. PICK i \in 1..Len(queue) : queue[i] = d
        BY <2>1 DEF TraceInv, HeldInv
      <3>2. i # 1 /\ i - 1 \in 1..(Len(queue) - 1) /\ (i - 1) + 1 = i
        BY <1>2, <2>1, <3>1
      <3>3. queue'[i - 1] = queue[(i - 1) + 1]
        BY <1>2, <3>2
      <3> QED
        BY <1>2, <3>1, <3>2, <3>3
    <2>2. ASSUME NEW d \in Calls, d # c, state[d] \in {"started", "running"}
          PROVE  \E v \in Workers : running'[v] = d
      <3>1. PICK v \in Workers : running[v] = d
        BY <2>2 DEF TraceInv, HeldInv
      <3> QED
        BY <1>4, <3>1, CallsAssumption
    <2> QED
      BY <1>4, <2>1, <2>2 DEF HeldInv
  <1>6. HandlerTypeInv' /\ SentinelInv' /\ ReportedInv' /\ RealIdInv'
    BY <1>1, <1>3, <1>4 DEF TraceInv, HandlerTypeInv, SentinelInv, ReportedInv, RealIdInv,
                            Unminted
  <1> QED
    BY <1>5, <1>6 DEF TraceInv

\* The worker keeps it while the handler runs.
LEMMA HandleTraces ==
  ASSUME IInv, TraceInv, NEW w \in Workers, Handle(w)
  PROVE  TraceInv'
  <1> DEFINE c == running[w]
  <1>1. /\ c # NoCall /\ state[c] = "started"
        /\ state' = [state EXCEPT ![c] = "running"]
        /\ UNCHANGED <<instance, listener, delivering, callId, heard, nestedIn, queue, running,
                       pending, completions>>
    BY DEF Handle, provider, captured, pool, consumer
  <1>2. c \in Calls
    BY <1>1 DEF IInv, TypeInv
  <1> HIDE DEF c
  <1>3. /\ state'[c] = "running"
        /\ \A d \in Calls : d # c => state'[d] = state[d]
    BY <1>1, <1>2 DEF IInv, TypeInv
  <1> QED
    BY <1>1, <1>3 DEF TraceInv, HandlerTypeInv, HeldInv, SentinelInv, ReportedInv,
                      RealIdInv, Unminted

\* The consumer has the completion when the worker lets go of it.
LEMMA CompleteTraces ==
  ASSUME IInv, TraceInv, NEW w \in Workers, Complete(w)
  PROVE  TraceInv'
  <1> DEFINE c == running[w]
             m == [id |-> callId[c], of |-> c]
  <1>1. /\ c # NoCall /\ state[c] = "running"
        /\ running' = [running EXCEPT ![w] = NoCall]
        /\ state' = [state EXCEPT ![c] = "done"]
        /\ completions' = IF heard[c] THEN completions \cup {m} ELSE completions
        /\ UNCHANGED <<instance, listener, delivering, callId, heard, nestedIn, queue,
                       pending>>
    BY DEF Complete, provider, captured, handlers
  <1>2. c \in Calls /\ m.id = callId[c] /\ running[w] = c
    BY <1>1 DEF IInv, TypeInv
  <1>3. completions \subseteq completions' /\ (heard[c] => m \in completions')
    <2>1. CASE heard[c]
      BY <1>1, <2>1
    <2>2. CASE ~heard[c]
      BY <1>1, <2>2
    <2> QED
      BY <2>1, <2>2
  <1> HIDE DEF c, m
  <1>4. /\ state'[c] = "done"
        /\ \A d \in Calls : d # c => state'[d] = state[d]
        /\ \A v \in Workers : v # w => running'[v] = running[v]
    BY <1>1, <1>2 DEF IInv, TypeInv
  <1>5. HeldInv'
    BY <1>1, <1>2, <1>4 DEF TraceInv, HeldInv
  <1>6. ReportedInv'
    <2> SUFFICES ASSUME NEW d \in Calls, state'[d] = "done", heard[d]
                 PROVE  \E n \in completions' : n.id = callId[d]
      BY <1>1 DEF ReportedInv
    <2>1. CASE d = c
      BY <1>2, <1>3, <2>1
    <2>2. CASE d # c
      BY <1>3, <1>4, <2>2 DEF TraceInv, ReportedInv
    <2> QED
      BY <2>1, <2>2
  <1>7. HandlerTypeInv' /\ SentinelInv' /\ RealIdInv'
    BY <1>1, <1>4 DEF TraceInv, HandlerTypeInv, SentinelInv, RealIdInv, Unminted
  <1> QED
    BY <1>5, <1>6, <1>7 DEF TraceInv

LEMMA OthersTrace ==
  ASSUME IInv, TraceInv,
         \/ SetEventListener \/ Reload \/ UNCHANGED vars
         \/ \E c \in Calls : GiveUp(c) \/ Take(c)
  PROVE  TraceInv'
  <1>1. /\ instance' = instance \/ instance' = instance + 1
        /\ listener' \in BOOLEAN
        /\ UNCHANGED <<delivering, state, callId, heard, nestedIn, queue, running,
                       pending, completions>>
    BY DEF SetEventListener, Reload, GiveUp, Take, vars, provider, captured, pool,
           handlers, consumer, TraceInv, HandlerTypeInv
  <1>2. RealIdInv'
    BY <1>1 DEF IInv, TypeInv, TraceInv, RealIdInv
  <1> QED
    BY <1>1, <1>2 DEF TraceInv, HandlerTypeInv, HeldInv, SentinelInv, ReportedInv

LEMMA NextTraceInv == IInv /\ TraceInv /\ [Next]_vars => TraceInv'
  BY DeliverTraces, CallMethodTraces, ReturnPendingTraces, StartTraces, HandleTraces,
     CompleteTraces, OthersTrace DEF Next, Thread, Worker

\* An accepted call is with the queue, a worker or the consumer, and so are its
\* sentinel and its completion, at every moment and across a reload.
THEOREM NoCallIsLost == Spec => []TraceInv
  BY InitTraceInv, NextTraceInv, InvariantHolds, PTL DEF Spec

\* Somebody can go on, by the guards of the actions: a thread with its call, an
\* idle worker with the queue's next, a worker with a handler that waits for
\* nothing, a handler's client that gives up, or a consumer with both halves of
\* an answer.
SomeoneCanGoOn ==
  \/ \E t \in Threads : delivering[t] # NoCall
  \/ queue # <<>> /\ \E w \in Workers : running[w] = NoCall
  \/ \E w \in Workers : running[w] # NoCall /\ \/ state[running[w]] = "started"
                                               \/ WaitsFor(running[w]) = {}
  \/ \E n \in Calls : nestedIn[n] # NoCall /\ n \in WaitsFor(nestedIn[n])
  \/ \E c \in Calls : /\ pending[c] # NoId /\ answered[c] = NoCall
                      /\ \E m \in completions : m.id = pending[c]

\* The pool does not come to a standstill over a call it has accepted, not even
\* with a waiting handler on every worker.
NoStandstill ==
  \A c \in Calls :
    state[c] \notin Unminted /\ heard[c] /\ answered[c] = NoCall => SomeoneCanGoOn

\* No matter how many handlers wait for how many others, a pool of any size goes
\* on until what it has accepted is answered.
THEOREM PoolNeverStandsStill == Spec => []NoStandstill
  <1>1. ASSUME IInv, TraceInv
        PROVE  NoStandstill
    <2> SUFFICES ASSUME NEW c \in Calls, state[c] \notin Unminted, heard[c],
                        answered[c] = NoCall
                 PROVE  SomeoneCanGoOn
      BY DEF NoStandstill
    <2>1. ASSUME NEW w \in Workers, running[w] # NoCall
          PROVE  SomeoneCanGoOn
      <3>1. CASE WaitsFor(running[w]) = {}
        BY <2>1, <3>1 DEF SomeoneCanGoOn
      <3>2. CASE WaitsFor(running[w]) # {}
        <4>1. PICK n \in WaitsFor(running[w]) : TRUE
          BY <3>2
        <4>2. n \in Calls /\ nestedIn[n] = running[w]
          BY DEF WaitsFor
        <4> QED
          BY <2>1, <4>2 DEF SomeoneCanGoOn
      <3> QED
        BY <3>1, <3>2
    <2>2. CASE state[c] = "queued"
      <3>1. queue # <<>>
        BY <1>1, <2>2, EmptySeq DEF TraceInv, HeldInv
      <3> QED
        BY <2>1, <3>1, WorkersAssumption DEF SomeoneCanGoOn
    <2>3. CASE state[c] \in {"started", "running"}
      BY <1>1, <2>1, <2>3, CallsAssumption DEF TraceInv, HeldInv
    <2>4. CASE state[c] = "done"
      <3>1. (\E t \in Threads : delivering[t] = c) \/ pending[c] = callId[c]
        BY <1>1, <2>4 DEF TraceInv, SentinelInv
      <3>2. CASE \E t \in Threads : delivering[t] = c
        BY <3>2, CallsAssumption DEF SomeoneCanGoOn
      <3>3. CASE pending[c] = callId[c]
        <4>1. callId[c][1] # 0
          BY <1>1, <2>4 DEF TraceInv, RealIdInv, Unminted
        <4>2. callId[c] # NoId
          BY <4>1 DEF NoId
        <4> QED
          BY <1>1, <2>4, <3>3, <4>2 DEF TraceInv, ReportedInv, SomeoneCanGoOn
      <3> QED
        BY <3>1, <3>2, <3>3
    <2> QED
      BY <1>1, <2>2, <2>3, <2>4 DEF IInv, TypeInv, States, Unminted
  <1> QED
    BY <1>1, InvariantHolds, NoCallIsLost, PTL
=============================================================================
