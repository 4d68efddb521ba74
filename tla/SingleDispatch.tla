--------------------------- MODULE SingleDispatch ---------------------------
(***************************************************************************)
(* concurrency:"single": the generated provider's callMethod               *)
(* (qt-host-generator/lidl_gen_cdylib_glue.cpp).                           *)
(*                                                                         *)
(* Handlers run on the one thread calls are delivered on.  A handler that  *)
(* calls out waits in a nested event loop, and that loop delivers further  *)
(* calls: dispatches nest, and a call goes on only when every dispatch     *)
(* above it has returned.  Around each dispatch the caller's document is   *)
(* pulled from the host's CallerScope and pushed into the module image,    *)
(* whose handler may ask who is calling at any time.  The built-in "lidl"  *)
(* query, answered without a dispatch, is left out.                        *)
(***************************************************************************)
EXTENDS Naturals, Sequences, Replies

CONSTANTS
  Calls,     \* the calls consumers make
  Callers,   \* the modules that make them
  CallerOf,  \* CallerOf[c]: who makes call c
  CausedBy,  \* CausedBy[c]: the call whose outbound call makes the peer call
             \* back with c, or NoCall
  KindOf     \* KindOf[c]: the kind of method c calls

NoCall  == "no call"
Nobody  == "nobody"
Unknown == "unknown"

ASSUME CallsAssumption ==
  /\ NoCall \notin Calls
  /\ Callers \cap {Unknown, Nobody} = {}
  /\ CallerOf \in [Calls -> Callers]
  /\ CausedBy \in [Calls -> Calls \cup {NoCall}]
  /\ KindOf \in [Calls -> Kinds]

VARIABLES
  stack,    \* the dispatches in progress on the thread, the newest first
  pc,       \* where callMethod is for a call
  scopes,   \* the host's CallerScopes open on the thread, the newest first
  told,     \* the module's caller store for the thread, the newest first
  result,   \* what logos_module_dispatch returned for a call
  seen,     \* seen[c]: everything the handler of c was told when it asked
  answered  \* answered[c]: what the caller of c received

vars == <<stack, pc, scopes, told, result, seen, answered>>

Init ==
  /\ stack = <<>>
  /\ pc = [c \in Calls |-> "new"]
  /\ scopes = <<>>
  /\ told = <<>>
  /\ result = [c \in Calls |-> "none"]
  /\ seen = [c \in Calls |-> {}]
  /\ answered = [c \in Calls |-> "no result"]

Newest(s)  == IF s = <<>> THEN Unknown ELSE Head(s)
Current(c) == stack # <<>> /\ Head(stack) = c
-----------------------------------------------------------------------------
\* The event loop, the outer one or that of a waiting handler, delivers a call:
\* ModuleProxy opens a CallerScope and enters callMethod.
Deliver(c) ==
  /\ pc[c] = "new"
  /\ stack # <<>> => pc[Head(stack)] = "waiting"
  /\ CausedBy[c] # NoCall => pc[CausedBy[c]] = "waiting"
  /\ stack' = <<c>> \o stack
  /\ scopes' = <<CallerOf[c]>> \o scopes
  /\ pc' = [pc EXCEPT ![c] = "entered"]
  /\ UNCHANGED <<told, result, seen, answered>>

\* currentCallerJson, logos_module_set_call_caller and the call of the handler.
PushCaller(c) ==
  /\ pc[c] = "entered"
  /\ Current(c)
  /\ told' = <<Newest(scopes)>> \o told
  /\ pc' = [pc EXCEPT ![c] = "running"]
  /\ UNCHANGED <<stack, scopes, result, seen, answered>>

\* The handler asks who is calling, before or after it has called out.
Ask(c) ==
  /\ pc[c] = "running"
  /\ Current(c)
  /\ seen' = [seen EXCEPT ![c] = @ \cup {Newest(told)}]
  /\ UNCHANGED <<stack, pc, scopes, told, result, answered>>

\* The handler calls out and waits; the reply, or the client's deadline, ends
\* the wait of the newest one.
CallOut(c) ==
  /\ pc[c] = "running"
  /\ Current(c)
  /\ pc' = [pc EXCEPT ![c] = "waiting"]
  /\ UNCHANGED <<stack, scopes, told, result, seen, answered>>

Resume(c) ==
  /\ pc[c] = "waiting"
  /\ Current(c)
  /\ pc' = [pc EXCEPT ![c] = "running"]
  /\ UNCHANGED <<stack, scopes, told, result, seen, answered>>

\* The handler returns.
HandlerReturns(c) ==
  /\ pc[c] = "running"
  /\ Current(c)
  /\ \E r \in Results : result' = [result EXCEPT ![c] = r]
  /\ pc' = [pc EXCEPT ![c] = "dispatched"]
  /\ UNCHANGED <<stack, scopes, told, seen, answered>>

\* The early returns, each with its reply: no result, an unreadable one, a void
\* method's, a LogosResult.
ReplyTo(c) ==
  {Reply(KindOf[c], result[c], l, b) : l \in Listings, b \in BOOLEAN}

\* Slip: the caller is popped after the early returns.
ReturnUnpopped(c) ==
  /\ pc[c] = "dispatched"
  /\ Current(c)
  /\ told' = IF result[c] \in {"null", "garbage"} THEN told ELSE Tail(told)
  /\ scopes' = Tail(scopes)
  /\ stack' = Tail(stack)
  /\ \E r \in ReplyTo(c) : answered' = [answered EXCEPT ![c] = r]
  /\ pc' = [pc EXCEPT ![c] = "done"]
  /\ UNCHANGED <<result, seen>>

\* Slip: the scope is left without a reply to an unreadable result.
ReturnNothing(c) ==
  /\ pc[c] = "dispatched"
  /\ Current(c)
  /\ told' = Tail(told)
  /\ scopes' = Tail(scopes)
  /\ stack' = Tail(stack)
  /\ \E r \in ReplyTo(c) :
       answered' = [answered EXCEPT ![c] = IF result[c] = "garbage" THEN @ ELSE r]
  /\ pc' = [pc EXCEPT ![c] = "done"]
  /\ UNCHANGED <<result, seen>>

\* Slip: a void method answers true for whatever the dispatch returned.
ReturnTrue(c) ==
  /\ pc[c] = "dispatched"
  /\ Current(c)
  /\ told' = Tail(told)
  /\ scopes' = Tail(scopes)
  /\ stack' = Tail(stack)
  /\ \E r \in ReplyTo(c) :
       answered' = [answered EXCEPT ![c] = IF KindOf[c] = "void" THEN "true" ELSE r]
  /\ pc' = [pc EXCEPT ![c] = "done"]
  /\ UNCHANGED <<result, seen>>

\* The caller is popped before anything else, and callMethod returns to
\* ModuleProxy, which closes the scope.
ReturnResult(c) ==
  /\ pc[c] = "dispatched"
  /\ Current(c)
  /\ told' = Tail(told)
  /\ scopes' = Tail(scopes)
  /\ stack' = Tail(stack)
  /\ \E r \in ReplyTo(c) : answered' = [answered EXCEPT ![c] = r]
  /\ pc' = [pc EXCEPT ![c] = "done"]
  /\ UNCHANGED <<result, seen>>
-----------------------------------------------------------------------------
Step(c) ==
  \/ PushCaller(c)
  \/ HandlerReturns(c)
  \/ ReturnResult(c)

Next ==
  \E c \in Calls :
    Deliver(c) \/ Ask(c) \/ CallOut(c) \/ Resume(c) \/ Step(c)

Spec == Init /\ [][Next]_vars

\* The thread runs, a handler does not call out forever, and the call out of a
\* handler ends (its client has a deadline) once the thread is back in its loop.
FairSpec ==
  /\ Spec
  /\ \A c \in Calls : WF_vars(PushCaller(c)) /\ SF_vars(HandlerReturns(c))
                      /\ WF_vars(ReturnResult(c)) /\ WF_vars(Resume(c))
-----------------------------------------------------------------------------
\* Whenever a handler asks, it is told who made its own call: also after it has
\* waited, and other callers' dispatches have come and gone above it, by
\* whichever path they left ("no path out of this function leaves the caller
\* standing").
CallerIsOwn == \A c \in Calls : seen[c] \subseteq {CallerOf[c]}

\* A call that was refused is never reported to its caller as one that ran.
RefusalIsNoSuccess ==
  \A c \in Calls : result[c] = "refusal" => answered[c] \notin Successes

\* logos_qt_arg_decode.h: "a rejected call reads identically whichever provider
\* produced it", as the {code, message, origin} object.
RefusalReadsAlike ==
  \A c \in Calls :
    result[c] = "refusal" /\ pc[c] = "done" => answered[c] = "refusal"

\* Dispatches nest and unwind: what is delivered is answered, however handlers
\* and the calls back that their own calls cause are stacked.
DeliveredIsAnswered ==
  \A c \in Calls : (pc[c] = "entered") ~> (answered[c] # "no result")
=============================================================================
