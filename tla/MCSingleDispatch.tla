-------------------------- MODULE MCSingleDispatch --------------------------
(***************************************************************************)
(* Model of SingleDispatch for TLC: three calls of three callers, one      *)
(* caused by the call out of another and one unrelated, so that dispatches *)
(* nest three deep in either order; one method of each kind.               *)
(***************************************************************************)
EXTENDS SingleDispatch, TLC

CONSTANTS c1, c2, c3, chat, wallet, view

ThreeCalls     == {c1, c2, c3}
ThreeCallers   == {chat, wallet, view}
ThreeCallerOf  == c1 :> chat @@ c2 :> wallet @@ c3 :> view
CallBack       == c1 :> NoCall @@ c2 :> c1 @@ c3 :> NoCall
OneOfEachKind  == c1 :> "ordinary" @@ c2 :> "void" @@ c3 :> "LogosResult"
=============================================================================
