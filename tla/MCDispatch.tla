----------------------------- MODULE MCDispatch -----------------------------
(***************************************************************************)
(* Model of Dispatch for TLC: three calls of two callers, delivered on two *)
(* threads to two workers, across one reload, so that a call can find      *)
(* every other call at any stage, and so that two handlers that wait for   *)
(* the calls they have made occupy both workers while a third is queued.   *)
(***************************************************************************)
EXTENDS Dispatch, TLC

CONSTANTS c1, c2, c3, chat, wallet, t1, t2, w1, w2

ThreeCalls == {c1, c2, c3}
TwoCallers == {chat, wallet}
TwoThreads == {t1, t2}
TwoWorkers == {w1, w2}
LastTwo    == {c2, c3}
CallsOfBoth == c1 :> chat @@ c2 :> wallet @@ c3 :> wallet
=============================================================================
