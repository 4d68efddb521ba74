----------------------------- MODULE ModuleLoad -----------------------------
(***************************************************************************)
(* Loading a module generated with concurrency:"multi", from the           *)
(* constructor of its provider to its own code                             *)
(* (qt-host-generator/lidl_gen_cdylib_glue.cpp).                           *)
(*                                                                         *)
(* The constructor warms the pool up (PoolWarmup).  After that the host's  *)
(* thread initializes the provider, LogosProviderBase::init and onInit,    *)
(* and hands it the event listener, in either order.  The module's own     *)
(* code starts at its context-ready hook, which its image runs once it has *)
(* both the context and the emit callback; from then on it calls out,      *)
(* emits events, from any thread, and is called, on the pool's workers.    *)
(***************************************************************************)
EXTENDS PoolWarmup

VARIABLES
  stamped,   \* what the host stamped on the LogosAPI
  onInit,    \* how far init has come
  anchor,    \* the module image holds its own host-issued token
  services,  \* the image's gates of the host services are open
  context,   \* the image was given its context
  callback,  \* m_eventCallback is set
  emitter,   \* the image was given the emit trampoline
  events,    \* what became of the events the module emitted
  busy,      \* workers that perform a call
  waiting    \* calls in the pool's queue

image    == <<anchor, services, context, emitter>>
calls    == <<busy, waiting>>
loadVars == <<stamped, onInit, image, callback, events, calls>>
vars     == <<poolVars, loadVars>>

\* A host that stamps no token is an old one; the services a privileged module
\* is granted may be refused by its image as malformed, and an image of a
\* protocol below 0.3 has no gates at all.
Stamps == [authToken : BOOLEAN, services : {"none", "granted", "malformed"},
           gates : BOOLEAN]

Init ==
  /\ PoolInit
  /\ stamped \in Stamps
  /\ onInit = "new"
  /\ anchor = FALSE
  /\ services = FALSE
  /\ context = FALSE
  /\ callback = FALSE
  /\ emitter = FALSE
  /\ events = "none"
  /\ busy = 0
  /\ waiting = 0

\* The context-ready hook has run.
Ready == context /\ emitter

\* The host's thread is in none of the functions below.
HostFree == pc = "returned" /\ onInit \in {"new", "done"} /\ callback = emitter
-----------------------------------------------------------------------------
\* LogosProviderBase::init keeps the LogosAPI and enters onInit.
ProviderInit ==
  /\ HostFree
  /\ onInit = "new"
  /\ onInit' = "token"
  /\ UNCHANGED <<poolVars, stamped, image, callback, events, calls>>

\* Token first: under the bootstrap keys, through the outbound door.
SeedAnchor ==
  /\ onInit = "token"
  /\ anchor' = stamped.authToken
  /\ onInit' = "services"
  /\ UNCHANGED <<poolVars, stamped, services, context, emitter, callback, events,
                 calls>>

\* Host services next; a malformed grant is refused wholesale.
GrantServices ==
  /\ onInit = "services"
  /\ services' = (stamped.gates /\ stamped.services = "granted")
  /\ onInit' = "context"
  /\ UNCHANGED <<poolVars, stamped, anchor, context, emitter, callback, events,
                 calls>>

\* Context last.
ForwardContext ==
  /\ onInit = "context"
  /\ context' = TRUE
  /\ onInit' = "done"
  /\ UNCHANGED <<poolVars, stamped, anchor, services, emitter, callback, events,
                 calls>>

\* Slip: the trampoline is installed before there is a callback.
InstallFirst ==
  /\ HostFree
  /\ ~emitter
  /\ emitter' = TRUE
  /\ UNCHANGED <<poolVars, stamped, onInit, anchor, services, context, callback,
                 events, calls>>

\* setEventListener keeps the callback ...
SetEventListener ==
  /\ HostFree
  /\ ~emitter
  /\ callback' = TRUE
  /\ UNCHANGED <<poolVars, stamped, onInit, image, events, calls>>

\* ... and then gives the image the trampoline.
SetEmitCallback ==
  /\ callback # emitter
  /\ callback' = TRUE
  /\ emitter' = TRUE
  /\ UNCHANGED <<poolVars, stamped, onInit, anchor, services, context, events,
                 calls>>
-----------------------------------------------------------------------------
\* The module emits an event: emitTrampoline forwards it to the callback.
Emit ==
  /\ Ready
  /\ events' = IF callback /\ events # "dropped" THEN "heard" ELSE "dropped"
  /\ UNCHANGED <<poolVars, stamped, onInit, image, callback, calls>>

\* A call reaches the pool.  More wait at most than there are workers.
Call ==
  /\ Ready /\ HostFree
  /\ waiting < N
  /\ IF busy < maxThreads
     THEN /\ busy' = busy + 1
          /\ threads' = IF busy < threads THEN threads ELSE threads + 1
          /\ UNCHANGED waiting
     ELSE waiting' = waiting + 1 /\ UNCHANGED <<busy, threads>>
  /\ UNCHANGED <<pc, limits, submitted, queue, task, semaphores, stamped, onInit,
                 image, callback, events>>

\* A worker is done with a call and takes the next one, or idles: if the pool
\* has an expiry timeout the thread may be gone when it is needed again.
Answer ==
  /\ busy > 0
  /\ IF waiting > 0
     THEN /\ waiting' = waiting - 1
          /\ UNCHANGED <<busy, threads>>
     ELSE /\ busy' = busy - 1
          /\ threads' \in {threads} \cup {n \in {threads - 1} : expiring}
          /\ UNCHANGED waiting
  /\ UNCHANGED <<pc, limits, submitted, queue, task, semaphores, stamped, onInit,
                 image, callback, events>>
-----------------------------------------------------------------------------
Load ==
  \/ ProviderInit
  \/ SeedAnchor
  \/ GrantServices
  \/ ForwardContext
  \/ SetEventListener
  \/ SetEmitCallback

Next ==
  \/ Constructor /\ UNCHANGED loadVars
  \/ \E w \in Workers : Task(w) /\ UNCHANGED loadVars
  \/ Load
  \/ Emit
  \/ Call
  \/ Answer

Spec == Init /\ [][Next]_vars

FairSpec == Spec /\ PoolFairness
-----------------------------------------------------------------------------
\* "Materialize explicitly capped workers before module code can open sockets"
\* and "a pool that expires idle workers would return to creating OS threads
\* under later load": once a capped pool is constructed no thread is created,
\* whatever load its module has and however long its workers are idle between.
NoWorkerCreatedLate ==
  [][pc = "returned" /\ capped => threads' <= threads]_vars

\* When the module's own code starts, in whichever order the context and the
\* emit callback have come, it can make authenticated calls, use the services
\* it was granted, and what it emits is heard.
ReadyIsEquipped ==
  Ready => /\ stamped.authToken => anchor
           /\ stamped.services = "granted" /\ stamped.gates => services
           /\ events # "dropped"
=============================================================================
