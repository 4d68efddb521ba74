------------------------------- MODULE Unload -------------------------------
(***************************************************************************)
(* The teardown hook: runPluginAboutToUnload (cpp/logos_plugin_unload.cpp) *)
(* on the host's side, aboutToUnload and its completion trampoline in the  *)
(* generated plugin (qt-host-generator/lidl_gen_cdylib_glue.cpp).          *)
(*                                                                         *)
(* The host asks the plugin to finish.  A plugin that answers Asynchronous *)
(* is waited for in a nested event loop until it emits unloadFinished or   *)
(* the grace period is over.  The module may finish at any time: while it  *)
(* is being asked, before the host has connected, as the deadline expires. *)
(*                                                                         *)
(* Time is counted in ticks of the grace period.  It does not pass while   *)
(* the loop has something to process (no handler of the module takes the   *)
(* loop's time), nor before the deadline is started.                       *)
(***************************************************************************)
EXTENDS Naturals

CONSTANT GraceMs  \* the grace period, in ticks

ASSUME GraceMsAssumption == GraceMs \in Nat \ {0}

VARIABLES
  plugin,    \* what kind of plugin was handed over
  pc,        \* where runPluginAboutToUnload is
  callback,  \* the glue's completion callback is installed in the module
  work,      \* the module's last work
  finishedAt,\* when it finished
  posted,    \* events queued for the host's thread
  connected, \* unloadFinished is connected to the loop
  deadline,  \* the single-shot timer is active
  quit,      \* QEventLoop::quit was called
  clock,     \* ticks since the timer was started
  report     \* which of the two the helper logged

vars == <<plugin, pc, callback, work, finishedAt, posted, connected, deadline,
          quit, clock, report>>

\* A plugin that has the hook: the generated one, whose completion is queued to
\* the plugin's thread, or one written by hand, which emits the signal itself
\* and may not have declared it.
Emitters  == {"glue", "handwritten", "no signal"}
Plugins   == [hook : {"none", "sync", "async"}, emits : Emitters]
Never     == GraceMs + 1

Init ==
  /\ plugin \in Plugins
  /\ pc = "call"
  /\ callback = FALSE
  /\ work = "idle"
  /\ finishedAt = Never
  /\ posted = {}
  /\ connected = FALSE
  /\ deadline = FALSE
  /\ quit = FALSE
  /\ clock = 0
  /\ report = "none"
-----------------------------------------------------------------------------
\* A null plugin, or one without the meta-method: nothing to do.
NoHook ==
  /\ pc = "call"
  /\ plugin.hook = "none"
  /\ pc' = "returned"
  /\ UNCHANGED <<plugin, callback, work, finishedAt, posted, connected,
                 deadline, quit, clock, report>>

\* The generated aboutToUnload installs its callback and only then asks the
\* module to finish.
AboutToUnload ==
  /\ pc = "call"
  /\ plugin.hook # "none"
  /\ callback' = (plugin.emits = "glue")
  /\ work' = IF plugin.hook = "async" THEN "busy" ELSE "done"
  /\ pc' = "asked"
  /\ UNCHANGED <<plugin, finishedAt, posted, connected, deadline, quit, clock,
                 report>>

\* The flag comes back Synchronous: the module is quiescent.
Synchronous ==
  /\ pc = "asked"
  /\ plugin.hook = "sync"
  /\ pc' = "returned"
  /\ UNCHANGED <<plugin, callback, work, finishedAt, posted, connected,
                 deadline, quit, clock, report>>

\* Asynchronous, but there is no signal to wait for.
NotConnected ==
  /\ pc = "asked"
  /\ plugin.hook = "async"
  /\ plugin.emits = "no signal"
  /\ pc' = "returned"
  /\ UNCHANGED <<plugin, callback, work, finishedAt, posted, connected,
                 deadline, quit, clock, report>>

\* Asynchronous: connect, start the deadline, enter the loop.
Connect ==
  /\ pc = "asked"
  /\ plugin.hook = "async"
  /\ plugin.emits # "no signal"
  /\ connected' = TRUE
  /\ deadline' = TRUE
  /\ pc' = "exec"
  /\ UNCHANGED <<plugin, callback, work, finishedAt, posted, quit, clock,
                 report>>

\* Slip: the trampoline emits on the module's thread instead of queueing.
EmitDirectly ==
  posted' = IF connected THEN posted \cup {"quit"} ELSE posted

\* What the end of the module's work sends the host's thread: the trampoline
\* queues an emission; a handwritten plugin emits, and who is not connected yet
\* misses it.
Complete ==
  posted' = CASE plugin.emits = "glue" /\ callback -> posted \cup {"emit"}
              [] plugin.emits = "handwritten" /\ connected -> posted \cup {"quit"}
              [] OTHER -> posted

FinishWork ==
  /\ work = "busy"
  /\ work' = "done"
  /\ finishedAt' = clock
  /\ Complete
  /\ UNCHANGED <<plugin, pc, callback, connected, deadline, quit, clock, report>>

\* The loop delivers an event: the queued emission reaches the slot if it is
\* connected by now.
Deliver ==
  /\ pc = "exec"
  /\ \E e \in posted :
       /\ posted' = posted \ {e}
       /\ quit' = (quit \/ e = "quit" \/ connected)
  /\ UNCHANGED <<plugin, pc, callback, work, finishedAt, connected, deadline,
                 clock, report>>

\* Slip: the timer is not connected to the loop.
DeadlineIgnored ==
  /\ pc = "exec"
  /\ deadline
  /\ clock = GraceMs
  /\ deadline' = FALSE
  /\ UNCHANGED <<plugin, pc, callback, work, finishedAt, posted, connected,
                 quit, clock, report>>

\* The deadline expires, possibly in the same pass of the loop in which the
\* signal was delivered.
DeadlineExpires ==
  /\ pc = "exec"
  /\ deadline
  /\ clock = GraceMs
  /\ deadline' = FALSE
  /\ quit' = TRUE
  /\ UNCHANGED <<plugin, pc, callback, work, finishedAt, posted, connected,
                 clock, report>>

\* Slip: the report asks whether the loop was left in time.
ReportByClock ==
  /\ pc = "exec"
  /\ quit
  /\ report' = IF clock <= GraceMs THEN "finished" ELSE "gave up"
  /\ deadline' = FALSE
  /\ pc' = "returned"
  /\ UNCHANGED <<plugin, callback, work, finishedAt, posted, connected, quit,
                 clock>>

\* exec returns; a timer that is still active means the signal came first.
Return ==
  /\ pc = "exec"
  /\ quit
  /\ report' = IF deadline THEN "finished" ELSE "gave up"
  /\ deadline' = FALSE
  /\ pc' = "returned"
  /\ UNCHANGED <<plugin, callback, work, finishedAt, posted, connected, quit,
                 clock>>

\* Time up to the end of the grace period.
Tick ==
  /\ pc = "exec"
  /\ ~quit
  /\ posted = {}
  /\ clock < GraceMs
  /\ clock' = clock + 1
  /\ UNCHANGED <<plugin, pc, callback, work, finishedAt, posted, connected,
                 deadline, quit, report>>
-----------------------------------------------------------------------------
Host ==
  \/ NoHook
  \/ AboutToUnload
  \/ Synchronous
  \/ NotConnected
  \/ Connect
  \/ Deliver
  \/ DeadlineExpires
  \/ Return

Next == Host \/ FinishWork \/ Tick

Spec == Init /\ [][Next]_vars

\* The host's thread runs and time passes; the module need never finish.
FairSpec == Spec /\ WF_vars(Host) /\ WF_vars(Tick)
-----------------------------------------------------------------------------
\* The one bit that separates "finished" from "gave up" is never wrong about a
\* module that had not finished.
FinishedIsTrue == report = "finished" => work = "done"

\* A generated plugin that finishes before the deadline, however early (while it
\* is being asked, before the host has connected), is not waited out: the host
\* gives up only on a module that had not finished when the deadline was due.
FinishNotMissed ==
  report = "gave up" /\ plugin.emits = "glue" => finishedAt >= GraceMs

\* A grace period, not a veto: the helper returns whatever the module does.
AlwaysReturns == <>(pc = "returned")
=============================================================================
