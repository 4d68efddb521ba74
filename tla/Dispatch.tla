------------------------------ MODULE Dispatch ------------------------------
(***************************************************************************)
(* concurrency:"multi": the generated provider's callMethod                *)
(* (qt-host-generator/lidl_gen_cdylib_glue.cpp).                           *)
(*                                                                         *)
(* callMethod does not run the handler (the built-in "lidl" query, which   *)
(* it answers at once and without state, is left out).  On the thread the  *)
(* call was delivered on it takes a fresh call id, copies the event        *)
(* listener, pulls the caller's document out of that thread's CallerScope, *)
(* queues the work on a bounded pool and returns a pending sentinel        *)
(* carrying the id.  A worker pushes the caller into the module, runs the  *)
(* handler, pops the caller and emits a completion event with the id.  The *)
(* sentinel and the event reach the consumer independently, in either      *)
(* order.                                                                  *)
(*                                                                         *)
(* A handler may call this same module again, directly or through another  *)
(* one, and wait; the client it waits with gives up at a deadline.  A      *)
(* reload drains the pool and starts a new provider, while a consumer may  *)
(* still hold completions of the old one.                                  *)
(***************************************************************************)
EXTENDS Naturals, Sequences

CONSTANTS
  Calls,         \* the calls consumers make
  Callers,       \* the modules that make them
  CallerOf,      \* CallerOf[c]: who makes call c
  Nestable,      \* the calls that a handler may cause
  Threads,       \* the threads calls are delivered on
  Workers,       \* the pool's workers
  MaxInstances   \* bound on the providers created, one after the other

NoCall  == "no call"
Nobody  == "nobody"
Unknown == "unknown"
NoId    == <<0, 0>>

ASSUME CallsAssumption ==
  /\ NoCall \notin Calls
  /\ Callers \cap {Unknown, Nobody} = {}
  /\ CallerOf \in [Calls -> Callers]
  /\ Nestable \subseteq Calls
  /\ MaxInstances \in Nat \ {0}

\* qMax(1, QThread::idealThreadCount()), or a configured number above 0.
ASSUME WorkersAssumption == Workers # {}

VARIABLES
  instance,   \* which provider is loaded; its UUID is the prefix of its ids
  counter,    \* m_callCounter
  listener,   \* the provider has an event listener
  scope,      \* scope[t]: the caller in thread t's CallerScope
  delivering, \* delivering[t]: the call thread t is in callMethod with
  nestedIn,   \* nestedIn[c]: the call whose handler makes c, or NoCall
  state,      \* how far a call has come
  callId,     \* its id
  document,   \* the caller's document captured for it
  heard,      \* an event listener was captured for it
  queue,      \* the pool's queue
  running,    \* running[w]: the call worker w performs
  told,       \* told[w]: the module's caller store on w's thread
  seen,       \* seen[c]: the caller the handler of c was told
  gaveUp,     \* nested calls their handler no longer waits for
  pending,    \* pending[c]: the id in the sentinel the consumer received
  completions,\* completion events received by consumers
  answered    \* answered[c]: the call whose result c was answered with

provider  == <<instance, counter, listener>>
captured  == <<callId, document, heard>>
handlers  == <<nestedIn, seen, gaveUp>>
pool      == <<queue, running, told>>
consumer  == <<pending, completions, answered>>
vars == <<provider, scope, delivering, state, captured, pool, handlers, consumer>>

Ids == (0..MaxInstances) \X Nat

Init ==
  /\ instance = 1
  /\ counter = 0
  /\ listener = FALSE
  /\ scope = [t \in Threads |-> Unknown]
  /\ delivering = [t \in Threads |-> NoCall]
  /\ nestedIn = [c \in Calls |-> NoCall]
  /\ state = [c \in Calls |-> "new"]
  /\ callId = [c \in Calls |-> NoId]
  /\ document = [c \in Calls |-> Unknown]
  /\ heard = [c \in Calls |-> FALSE]
  /\ queue = <<>>
  /\ running = [w \in Workers |-> NoCall]
  /\ told = [w \in Workers |-> Unknown]
  /\ seen = [c \in Calls |-> Nobody]
  /\ gaveUp = {}
  /\ pending = [c \in Calls |-> NoId]
  /\ completions = {}
  /\ answered = [c \in Calls |-> NoCall]
-----------------------------------------------------------------------------
\* setEventListener.
SetEventListener ==
  /\ ~listener
  /\ listener' = TRUE
  /\ UNCHANGED <<instance, counter, scope, delivering, state, captured, pool,
                 handlers, consumer>>

\* A call arrives, from a consumer or from a handler that is running: on one of
\* the threads ModuleProxy opens a CallerScope and enters callMethod.
Deliver(t, c) ==
  /\ delivering[t] = NoCall
  /\ state[c] = "new"
  /\ \E maker \in {n \in Calls : state[n] = "running"} \cup {NoCall} :
       /\ maker # NoCall => c \in Nestable
       /\ nestedIn' = [nestedIn EXCEPT ![c] = maker]
  /\ delivering' = [delivering EXCEPT ![t] = c]
  /\ scope' = [scope EXCEPT ![t] = CallerOf[c]]
  /\ state' = [state EXCEPT ![c] = "delivered"]
  /\ UNCHANGED <<provider, captured, pool, seen, gaveUp, consumer>>

\* Slip: the prefix is the same for every provider of the module.
MintIdPlain(c) ==
  /\ callId' = [callId EXCEPT ![c] = <<1, counter>>]
  /\ counter' = counter + 1

\* The id: a counter, behind a prefix that is unique to the provider.
MintId(c) ==
  /\ callId' = [callId EXCEPT ![c] = <<instance, counter>>]
  /\ counter' = counter + 1

\* callMethod up to the point where the work is in the pool.
CallMethod(t) ==
  LET c == delivering[t] IN
  /\ c # NoCall
  /\ state[c] = "delivered"
  /\ MintId(c)
  /\ heard' = [heard EXCEPT ![c] = listener]
  /\ document' = [document EXCEPT ![c] = scope[t]]
  /\ queue' = Append(queue, c)
  /\ state' = [state EXCEPT ![c] = "queued"]
  /\ UNCHANGED <<instance, listener, scope, delivering, running, told, handlers,
                 consumer>>

\* callMethod returns the sentinel; ModuleProxy closes the scope.
ReturnPending(t) ==
  LET c == delivering[t] IN
  /\ c # NoCall
  /\ state[c] # "delivered"
  /\ pending' = [pending EXCEPT ![c] = callId[c]]
  /\ delivering' = [delivering EXCEPT ![t] = NoCall]
  /\ scope' = [scope EXCEPT ![t] = Unknown]
  /\ UNCHANGED <<provider, state, captured, pool, handlers, completions,
                 answered>>

\* Slip: the caller is pulled by the worker, whose thread has no CallerScope.
StartPullsCaller(w) ==
  /\ running[w] = NoCall
  /\ queue # <<>>
  /\ running' = [running EXCEPT ![w] = Head(queue)]
  /\ queue' = Tail(queue)
  /\ told' = [told EXCEPT ![w] = Unknown]
  /\ state' = [state EXCEPT ![Head(queue)] = "started"]
  /\ UNCHANGED <<provider, scope, delivering, captured, handlers, consumer>>

\* A worker takes the oldest call and pushes its caller into the module.
Start(w) ==
  /\ running[w] = NoCall
  /\ queue # <<>>
  /\ running' = [running EXCEPT ![w] = Head(queue)]
  /\ queue' = Tail(queue)
  /\ told' = [told EXCEPT ![w] = document[Head(queue)]]
  /\ state' = [state EXCEPT ![Head(queue)] = "started"]
  /\ UNCHANGED <<provider, scope, delivering, captured, handlers, consumer>>

\* The handler runs and asks who is calling.
Handle(w) ==
  LET c == running[w] IN
  /\ c # NoCall
  /\ state[c] = "started"
  /\ seen' = [seen EXCEPT ![c] = told[w]]
  /\ state' = [state EXCEPT ![c] = "running"]
  /\ UNCHANGED <<provider, scope, delivering, nestedIn, captured, pool, gaveUp,
                 consumer>>

\* The handler of c waits for the nested calls it has made.
WaitsFor(c) ==
  {n \in Calls \ gaveUp : /\ nestedIn[n] = c
                          /\ state[n] # "new"
                          /\ answered[n] = NoCall}

\* Slip: the caller is not popped.
CompleteUnpopped(w) ==
  LET c == running[w] IN
  /\ c # NoCall
  /\ state[c] = "running"
  /\ WaitsFor(c) = {}
  /\ UNCHANGED told
  /\ running' = [running EXCEPT ![w] = NoCall]
  /\ state' = [state EXCEPT ![c] = "done"]
  /\ completions' = IF heard[c] THEN completions \cup {[id |-> callId[c], of |-> c]}
                                ELSE completions
  /\ UNCHANGED <<provider, scope, delivering, captured, queue, handlers,
                 pending, answered>>

\* Slip: a worker returns early, before it emits the completion.
CompleteSilently(w) ==
  LET c == running[w] IN
  /\ c # NoCall
  /\ state[c] = "running"
  /\ WaitsFor(c) = {}
  /\ told' = [told EXCEPT ![w] = Unknown]
  /\ running' = [running EXCEPT ![w] = NoCall]
  /\ state' = [state EXCEPT ![c] = "done"]
  /\ UNCHANGED <<provider, scope, delivering, captured, queue, handlers,
                 pending, completions, answered>>

\* The handler is done: the caller is popped and the completion emitted to the
\* listener that was captured.
Complete(w) ==
  LET c == running[w] IN
  /\ c # NoCall
  /\ state[c] = "running"
  /\ WaitsFor(c) = {}
  /\ told' = [told EXCEPT ![w] = Unknown]
  /\ running' = [running EXCEPT ![w] = NoCall]
  /\ state' = [state EXCEPT ![c] = "done"]
  /\ completions' = IF heard[c] THEN completions \cup {[id |-> callId[c], of |-> c]}
                                ELSE completions
  /\ UNCHANGED <<provider, scope, delivering, captured, queue, handlers,
                 pending, answered>>

\* The client of a handler stops waiting for a nested call.
GiveUp(n) ==
  /\ nestedIn[n] # NoCall
  /\ n \in WaitsFor(nestedIn[n])
  /\ gaveUp' = gaveUp \cup {n}
  /\ UNCHANGED <<provider, scope, delivering, state, captured, pool, nestedIn,
                 seen, consumer>>

\* The consumer has the sentinel and a completion with its id.
Take(c) ==
  /\ pending[c] # NoId
  /\ answered[c] = NoCall
  /\ \E m \in completions :
       /\ m.id = pending[c]
       /\ answered' = [answered EXCEPT ![c] = m.of]
  /\ UNCHANGED <<provider, scope, delivering, state, captured, pool, handlers,
                 pending, completions>>

\* A reload: the pool is drained, a new provider counts from 0 again and has no
\* listener yet.
Reload ==
  /\ instance < MaxInstances
  /\ queue = <<>>
  /\ \A w \in Workers : running[w] = NoCall
  /\ \A t \in Threads : delivering[t] = NoCall
  /\ instance' = instance + 1
  /\ counter' = 0
  /\ listener' = FALSE
  /\ UNCHANGED <<scope, delivering, state, captured, pool, handlers,
                 consumer>>
-----------------------------------------------------------------------------
Thread(t) == CallMethod(t) \/ ReturnPending(t)
Worker(w) == Start(w) \/ Handle(w) \/ Complete(w)

Next ==
  \/ SetEventListener
  \/ \E t \in Threads : Thread(t) \/ \E c \in Calls : Deliver(t, c)
  \/ \E w \in Workers : Worker(w)
  \/ \E c \in Calls : GiveUp(c) \/ Take(c)
  \/ Reload

Spec == Init /\ [][Next]_vars

\* Threads and workers run, a consumer processes what it has received, and a
\* handler's client has a deadline.  Nothing is assumed of the order in which
\* the pool's workers are scheduled.
FairSpec ==
  /\ Spec
  /\ \A t \in Threads : WF_vars(Thread(t))
  /\ \A w \in Workers : WF_vars(Worker(w))
  /\ \A c \in Calls : WF_vars(Take(c)) /\ WF_vars(GiveUp(c))
-----------------------------------------------------------------------------
\* A handler is told who made its call, whatever other calls of other callers
\* are delivered and performed meanwhile: the document is pulled on the thread
\* of the call and travels with it.
CallerIsOwn == \A c \in Calls : seen[c] \in {Nobody, CallerOf[c]}

\* The caller is popped with the dispatch: a worker between two calls leaves
\* nobody's identity standing on its thread.
NoCallerLeftStanding ==
  \A w \in Workers : running[w] = NoCall => told[w] = Unknown

\* What Dispatch implements.
Ledger == INSTANCE CallLedger WITH
            performed <- seen,
            answered <- [c \in Calls |-> IF answered[c] = NoCall THEN "no result"
                                                                 ELSE answered[c]]

\* Each call is performed at most once and as its caller, and answered after
\* that, at most once and with its own result.
ImplementsLedger == Ledger!Spec

\* A call that was accepted while the provider had a listener is answered, even
\* if handlers waiting for nested calls occupy every worker for a while.
AcceptedIsAnswered ==
  \A c \in Calls : (state[c] = "queued" /\ heard[c]) ~> (answered[c] = c)
=============================================================================
