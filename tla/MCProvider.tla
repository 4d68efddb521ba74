----------------------------- MODULE MCProvider -----------------------------
(***************************************************************************)
(* Model of Provider for TLC: two transports, so that one can accept what  *)
(* the other declines; a second name, for a registration made from inside  *)
(* the initializer; two validators, so that one can replace the other.     *)
(***************************************************************************)
EXTENDS Provider

CONSTANTS local, tcp, moduleName, otherName, peer, storeLookup, denyAll

TwoTransports == {local, tcp}
TwoNames      == {moduleName, otherName}
OneCaller     == {peer}
TwoValidators == {storeLookup, denyAll}
=============================================================================
