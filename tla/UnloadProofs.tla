---------------------------- MODULE UnloadProofs ----------------------------
(***************************************************************************)
(* The two safety properties of Unload, for a grace period of any length.  *)
(*                                                                         *)
(* That the single bit, is the timer still active, tells "finished" from   *)
(* "gave up" rests on an argument about time: from the moment a generated  *)
(* plugin finishes the host has an event to deliver, and as long as it has *)
(* one the clock stands still; so the deadline cannot become due before    *)
(* the loop has been left.                                                 *)
(***************************************************************************)
EXTENDS Unload, TLAPS

\* The module finished before the deadline was due.
Early == finishedAt < GraceMs

TimeInv == clock \in 0..GraceMs /\ finishedAt \in Nat

\* What has not happened yet at a stage.
StageInv ==
  /\ deadline = TRUE \/ deadline = FALSE
  /\ deadline = TRUE => pc = "exec"
  /\ pc \in {"call", "asked"} => quit = FALSE
  /\ pc = "call" => work = "idle" /\ finishedAt = Never
  /\ report # "none" => pc = "returned"

\* What is posted, and the end of the loop, come from the module's end or from
\* the deadline.
CauseInv ==
  /\ posted # {} => work = "done"
  /\ quit = TRUE /\ deadline = TRUE => work = "done"
  /\ pc = "exec" => connected = TRUE
  /\ pc = "exec" /\ deadline = FALSE => clock = GraceMs
  /\ report = "gave up" => clock = GraceMs

\* A generated plugin that has finished early: the clock stands still.
EarlyInv ==
  /\ plugin.emits = "glue" /\ pc \in {"asked", "exec"} => callback = TRUE
  /\ plugin.emits = "glue" /\ pc \in {"asked", "exec"} /\ Early
       => clock = finishedAt /\ ("emit" \in posted \/ quit = TRUE)

IInv == /\ TimeInv /\ StageInv /\ CauseInv /\ EarlyInv
        /\ FinishedIsTrue /\ FinishNotMissed
-----------------------------------------------------------------------------
LEMMA NeverIsLate == ~(Never < GraceMs) /\ Never \in Nat
  BY GraceMsAssumption DEF Never

LEMMA NotDueAtTick ==
  ASSUME TimeInv, Tick
  PROVE  clock # GraceMs
  BY GraceMsAssumption DEF TimeInv, Tick

LEMMA DueIsLate == GraceMs >= GraceMs
  BY GraceMsAssumption

LEMMA EarlyIsNotDue ==
  ASSUME TimeInv, Early
  PROVE  clock # GraceMs \/ clock # finishedAt
  BY GraceMsAssumption DEF TimeInv, Early

LEMMA InitIInv == Init => IInv
  <1> SUFFICES ASSUME Init
               PROVE  IInv
    OBVIOUS
  <1>1. TimeInv
    BY GraceMsAssumption, NeverIsLate DEF Init, TimeInv
  <1>2. StageInv /\ CauseInv /\ EarlyInv
    BY DEF Init, StageInv, CauseInv, EarlyInv
  <1>3. FinishedIsTrue /\ FinishNotMissed
    BY DEF Init, FinishedIsTrue, FinishNotMissed
  <1> QED
    BY <1>1, <1>2, <1>3 DEF IInv

\* The clock stops at the end of the grace period.
LEMMA KeepsTimeInv ==
  ASSUME TimeInv, [Next]_vars
  PROVE  TimeInv'
  <1> USE GraceMsAssumption DEF TimeInv
  <1>1. CASE NoHook
    BY <1>1 DEF NoHook
  <1>2. CASE AboutToUnload
    BY <1>2 DEF AboutToUnload
  <1>3. CASE Synchronous
    BY <1>3 DEF Synchronous
  <1>4. CASE NotConnected
    BY <1>4 DEF NotConnected
  <1>5. CASE Connect
    BY <1>5 DEF Connect
  <1>6. CASE Deliver
    BY <1>6 DEF Deliver
  <1>7. CASE DeadlineExpires
    BY <1>7 DEF DeadlineExpires
  <1>8. CASE Return
    BY <1>8 DEF Return
  <1>9. CASE FinishWork
    BY <1>9 DEF FinishWork, Complete
  <1>10. CASE Tick
    BY <1>10 DEF Tick
  <1>11. CASE UNCHANGED vars
    BY <1>11 DEF vars
  <1> QED
    BY <1>1, <1>2, <1>3, <1>4, <1>5, <1>6,
       <1>7, <1>8, <1>9, <1>10, <1>11 DEF Next, Host

\* Nothing happens before its stage.
LEMMA KeepsStageInv ==
  ASSUME StageInv, [Next]_vars
  PROVE  StageInv'
  <1> USE DEF StageInv, Never
  <1>1. CASE NoHook
    BY <1>1 DEF NoHook
  <1>2. CASE AboutToUnload
    BY <1>2 DEF AboutToUnload
  <1>3. CASE Synchronous
    BY <1>3 DEF Synchronous
  <1>4. CASE NotConnected
    BY <1>4 DEF NotConnected
  <1>5. CASE Connect
    BY <1>5 DEF Connect
  <1>6. CASE Deliver
    BY <1>6 DEF Deliver
  <1>7. CASE DeadlineExpires
    BY <1>7 DEF DeadlineExpires
  <1>8. CASE Return
    BY <1>8 DEF Return
  <1>9. CASE FinishWork
    BY <1>9 DEF FinishWork, Complete
  <1>10. CASE Tick
    BY <1>10 DEF Tick
  <1>11. CASE UNCHANGED vars
    BY <1>11 DEF vars
  <1> QED
    BY <1>1, <1>2, <1>3, <1>4, <1>5, <1>6,
       <1>7, <1>8, <1>9, <1>10, <1>11 DEF Next, Host

\* Only the end of the work, or the deadline, moves the host on.
LEMMA KeepsCauseInv ==
  ASSUME TimeInv, StageInv, CauseInv, [Next]_vars
  PROVE  CauseInv'
  <1> USE DEF StageInv, CauseInv
  <1>1. CASE NoHook
    BY <1>1 DEF NoHook
  <1>2. CASE AboutToUnload
    BY <1>2 DEF AboutToUnload
  <1>3. CASE Synchronous
    BY <1>3 DEF Synchronous
  <1>4. CASE NotConnected
    BY <1>4 DEF NotConnected
  <1>5. CASE Connect
    BY <1>5 DEF Connect
  <1>6. CASE Deliver
    BY <1>6 DEF Deliver
  <1>7. CASE DeadlineExpires
    BY <1>7 DEF DeadlineExpires
  <1>8. CASE Return
    BY <1>8 DEF Return
  <1>9. CASE FinishWork
    BY <1>9 DEF FinishWork, Complete
  <1>10. CASE Tick
    <2>1. clock # GraceMs
      BY <1>10, NotDueAtTick
    <2> QED
      BY <1>10, <2>1 DEF Tick
  <1>11. CASE UNCHANGED vars
    BY <1>11 DEF vars
  <1> QED
    BY <1>1, <1>2, <1>3, <1>4, <1>5, <1>6,
       <1>7, <1>8, <1>9, <1>10, <1>11 DEF Next, Host

\* After an early end no tick is possible before the loop is left.
LEMMA KeepsEarlyInv ==
  ASSUME StageInv, CauseInv, EarlyInv, [Next]_vars
  PROVE  EarlyInv'
  <1> USE DEF StageInv, EarlyInv, Early
  <1>1. CASE NoHook
    BY <1>1 DEF NoHook
  <1>2. CASE AboutToUnload
    <2>1. plugin'.emits = "glue" => callback' = TRUE
      BY <1>2, Zenon DEF AboutToUnload
    <2>2. finishedAt' = Never
      BY <1>2 DEF AboutToUnload
    <2>3. ~Early'
      BY <2>2, NeverIsLate DEF Early
    <2> QED
      BY <2>1, <2>3
  <1>3. CASE Synchronous
    BY <1>3 DEF Synchronous
  <1>4. CASE NotConnected
    BY <1>4 DEF NotConnected
  <1>5. CASE Connect
    BY <1>5 DEF Connect
  <1>6. CASE Deliver
    <2>1. quit' = TRUE
      BY <1>6, Zenon DEF Deliver, CauseInv
    <2> QED
      BY <1>6, <2>1 DEF Deliver
  <1>7. CASE DeadlineExpires
    BY <1>7 DEF DeadlineExpires
  <1>8. CASE Return
    BY <1>8 DEF Return
  <1>9. CASE FinishWork
    <2>1. clock' = finishedAt'
      BY <1>9 DEF FinishWork
    <2>2. plugin.emits = "glue" /\ callback = TRUE => "emit" \in posted'
      BY <1>9 DEF FinishWork, Complete
    <2>3. UNCHANGED <<plugin, pc, callback>>
      BY <1>9 DEF FinishWork
    <2> QED
      BY <2>1, <2>2, <2>3
  <1>10. CASE Tick
    <2>1. plugin.emits = "glue" => ~Early
      BY <1>10 DEF Tick
    <2>2. UNCHANGED <<plugin, pc, callback, finishedAt>>
      BY <1>10 DEF Tick
    <2> QED
      BY <2>1, <2>2 DEF Early
  <1>11. CASE UNCHANGED vars
    BY <1>11 DEF vars
  <1> QED
    BY <1>1, <1>2, <1>3, <1>4, <1>5, <1>6,
       <1>7, <1>8, <1>9, <1>10, <1>11 DEF Next, Host

\* What is logged is true when it is logged, and the work stays done.
LEMMA KeepsFinishedIsTrue ==
  ASSUME StageInv, CauseInv, FinishedIsTrue, [Next]_vars
  PROVE  FinishedIsTrue'
  <1> USE DEF StageInv, CauseInv, FinishedIsTrue
  <1>1. CASE NoHook
    BY <1>1 DEF NoHook
  <1>2. CASE AboutToUnload
    BY <1>2 DEF AboutToUnload
  <1>3. CASE Synchronous
    BY <1>3 DEF Synchronous
  <1>4. CASE NotConnected
    BY <1>4 DEF NotConnected
  <1>5. CASE Connect
    BY <1>5 DEF Connect
  <1>6. CASE Deliver
    BY <1>6 DEF Deliver
  <1>7. CASE DeadlineExpires
    BY <1>7 DEF DeadlineExpires
  <1>8. CASE Return
    BY <1>8 DEF Return
  <1>9. CASE FinishWork
    BY <1>9 DEF FinishWork, Complete
  <1>10. CASE Tick
    BY <1>10 DEF Tick
  <1>11. CASE UNCHANGED vars
    BY <1>11 DEF vars
  <1> QED
    BY <1>1, <1>2, <1>3, <1>4, <1>5, <1>6,
       <1>7, <1>8, <1>9, <1>10, <1>11 DEF Next, Host

LEMMA LateIsNotEarly ==
  ASSUME TimeInv
  PROVE  ~Early => finishedAt >= GraceMs
  BY GraceMsAssumption DEF TimeInv, Early

\* The host gives up at the deadline only.
LEMMA KeepsFinishNotMissed ==
  ASSUME TimeInv, StageInv, CauseInv, EarlyInv, FinishNotMissed, [Next]_vars
  PROVE  FinishNotMissed'
  <1> USE DEF FinishNotMissed
  <1>1. CASE NoHook
    BY <1>1 DEF NoHook
  <1>2. CASE AboutToUnload
    BY <1>2 DEF AboutToUnload, StageInv
  <1>3. CASE Synchronous
    BY <1>3 DEF Synchronous
  <1>4. CASE NotConnected
    BY <1>4 DEF NotConnected
  <1>5. CASE Connect
    BY <1>5 DEF Connect
  <1>6. CASE Deliver
    BY <1>6 DEF Deliver
  <1>7. CASE DeadlineExpires
    BY <1>7 DEF DeadlineExpires
  <1>8. CASE Return
    <2>1. report' = "gave up" => clock = GraceMs
      BY <1>8 DEF Return, StageInv, CauseInv
    <2>2. Early => clock # GraceMs \/ clock # finishedAt
      BY EarlyIsNotDue
    <2>3. report' = "gave up" /\ plugin.emits = "glue" => ~Early
      BY <1>8, <2>1, <2>2 DEF Return, EarlyInv
    <2>4. UNCHANGED <<plugin, finishedAt>>
      BY <1>8 DEF Return
    <2> QED
      BY <2>3, <2>4, LateIsNotEarly DEF FinishNotMissed
  <1>9. CASE FinishWork
    <2>1. report' = "gave up" => clock = GraceMs
      BY <1>9 DEF FinishWork, CauseInv
    <2>2. finishedAt' = clock
      BY <1>9 DEF FinishWork
    <2> QED
      BY <2>1, <2>2, DueIsLate
  <1>10. CASE Tick
    BY <1>10 DEF Tick
  <1>11. CASE UNCHANGED vars
    BY <1>11 DEF vars
  <1> QED
    BY <1>1, <1>2, <1>3, <1>4, <1>5, <1>6,
       <1>7, <1>8, <1>9, <1>10, <1>11 DEF Next, Host

LEMMA NextIInv == IInv /\ [Next]_vars => IInv'
  BY KeepsTimeInv, KeepsStageInv, KeepsCauseInv,
     KeepsEarlyInv, KeepsFinishedIsTrue, KeepsFinishNotMissed DEF IInv

THEOREM InvariantHolds == Spec => []IInv
  BY InitIInv, NextIInv, PTL DEF Spec

\* The helper never logs that a module finished which had not: the timer is
\* active at the end of the loop only if the signal ended it.
THEOREM ReportIsTrue == Spec => []FinishedIsTrue
  BY InvariantHolds, PTL DEF IInv

\* A generated plugin that finishes before the deadline is due is never waited
\* out, whether or not the host had connected by then.
THEOREM NoFinishIsMissed == Spec => []FinishNotMissed
  BY InvariantHolds, PTL DEF IInv
-----------------------------------------------------------------------------
(***************************************************************************)
(* The helper always has a way on.  AlwaysReturns is a liveness property   *)
(* and stays with TLC; what it rests on is that the nested loop is never   *)
(* left with nothing that could end it, whatever the module does.          *)
(***************************************************************************)

\* As long as the loop runs, the timer does or the loop is about to be left.
EscapeInv ==
  /\ pc \in {"call", "asked", "exec", "returned"}
  /\ plugin \in Plugins
  /\ pc = "exec" => deadline = TRUE \/ quit = TRUE

LEMMA NextEscapeInv == StageInv /\ CauseInv /\ EscapeInv /\ [Next]_vars => EscapeInv'
  <1> SUFFICES ASSUME StageInv, CauseInv, EscapeInv, [Next]_vars
               PROVE  EscapeInv'
    OBVIOUS
  <1> USE DEF EscapeInv
  <1>1. CASE NoHook \/ AboutToUnload \/ Synchronous \/ NotConnected
    BY <1>1, Zenon DEF NoHook, AboutToUnload, Synchronous, NotConnected
  <1>2. CASE Connect
    BY <1>2 DEF Connect
  <1>3. CASE Deliver
    <2>1. quit' = TRUE
      BY <1>3, Zenon DEF Deliver, CauseInv
    <2> QED
      BY <1>3, <2>1 DEF Deliver
  <1>4. CASE DeadlineExpires
    BY <1>4 DEF DeadlineExpires
  <1>5. CASE Return
    BY <1>5 DEF Return
  <1>6. CASE FinishWork \/ Tick \/ UNCHANGED vars
    <2>1. UNCHANGED <<plugin, pc, deadline, quit>>
      BY <1>6, Zenon DEF FinishWork, Tick, vars
    <2> QED
      BY <2>1, Zenon
  <1> QED
    BY <1>1, <1>2, <1>3, <1>4, <1>5, <1>6 DEF Next, Host

\* By the guards of its actions, the host can go on, or time passes towards the
\* deadline.
HostCanGoOn ==
  \/ pc = "call"
  \/ pc = "asked" /\ (plugin.hook = "async" \/ plugin.hook = "sync")
  \/ pc = "exec" /\ (quit = TRUE \/ posted # {} \/ clock < GraceMs)
  \/ pc = "exec" /\ deadline = TRUE /\ clock = GraceMs

NoStandstill == pc # "returned" => HostCanGoOn

\* Only a plugin with the hook is asked.
AskedInv == pc = "asked" => plugin.hook # "none"

\* A grace period of any length ends: the helper never waits for a module with
\* neither the signal nor the timer to wake it.
THEOREM WaitingEnds == Spec => []NoStandstill
  <1>1. Init => EscapeInv /\ AskedInv
    BY Zenon DEF Init, EscapeInv, AskedInv
  <1>2. AskedInv /\ [Next]_vars => AskedInv'
    BY Zenon DEF AskedInv, Next, Host, NoHook, AboutToUnload, Synchronous, NotConnected,
                 Connect, Deliver, DeadlineExpires, Return, FinishWork, Tick, vars
  <1>3. IInv => StageInv /\ CauseInv
    BY DEF IInv
  <1>4. IInv /\ EscapeInv /\ AskedInv => NoStandstill
    <2> SUFFICES ASSUME TimeInv, EscapeInv, AskedInv, pc # "returned"
                 PROVE  HostCanGoOn
      BY DEF IInv, NoStandstill
    <2>1. pc = "asked" => plugin.hook \in {"sync", "async"}
      BY DEF EscapeInv, AskedInv, Plugins
    <2>2. clock < GraceMs \/ clock = GraceMs
      BY GraceMsAssumption DEF TimeInv
    <2> QED
      BY <2>1, <2>2, Zenon DEF EscapeInv, HostCanGoOn
  <1> QED
    BY <1>1, <1>2, <1>3, <1>4, NextEscapeInv, InvariantHolds, PTL DEF Spec
=============================================================================
