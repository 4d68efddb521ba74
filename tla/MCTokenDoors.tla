---------------------------- MODULE MCTokenDoors ----------------------------
(***************************************************************************)
(* Model of TokenDoors for TLC: two modules that grant to and call each    *)
(* other, three tokens, so that one direction can be granted again while   *)
(* the other is in use.                                                    *)
(***************************************************************************)
EXTENDS TokenDoors, TLC

CONSTANTS chat, wallet

TwoModules == {chat, wallet}
ModuleSymmetry == Permutations(TwoModules)
=============================================================================
