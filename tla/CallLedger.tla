----------------------------- MODULE CallLedger -----------------------------
(***************************************************************************)
(* What a module that serves calls promises its consumers, whatever its    *)
(* concurrency: a call is performed at most once, on behalf of the one who *)
(* made it, and answered, after that, with its own result.                 *)
(***************************************************************************)
CONSTANTS
  Calls,    \* the calls consumers make
  CallerOf  \* CallerOf[c]: who makes call c

VARIABLES
  performed, \* performed[c]: on whose behalf call c was performed
  answered   \* answered[c]: the call whose result c was answered with

Nobody   == "nobody"
NoResult == "no result"

Init ==
  /\ performed = [c \in Calls |-> Nobody]
  /\ answered = [c \in Calls |-> NoResult]

Perform(c) ==
  /\ performed[c] = Nobody
  /\ performed' = [performed EXCEPT ![c] = CallerOf[c]]
  /\ UNCHANGED answered

Answer(c) ==
  /\ performed[c] # Nobody
  /\ answered[c] = NoResult
  /\ answered' = [answered EXCEPT ![c] = c]
  /\ UNCHANGED performed

Next == \E c \in Calls : Perform(c) \/ Answer(c)

Spec == Init /\ [][Next]_<<performed, answered>>
=============================================================================
