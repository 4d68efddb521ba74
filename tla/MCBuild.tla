------------------------------ MODULE MCBuild ------------------------------
(***************************************************************************)
(* Model of Build for TLC: a module with two dependencies, so that the     *)
(* wrapper of one can be missing, and a second invocation of the host      *)
(* generator over what the first has left.                                 *)
(***************************************************************************)
EXTENDS Build

CONSTANTS wallet, storage

TwoDeps == {wallet, storage}
=============================================================================
