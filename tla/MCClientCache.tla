---------------------------- MODULE MCClientCache ----------------------------
(***************************************************************************)
(* Model of ClientCache for TLC: two threads, one target, two transports,  *)
(* the mode switched between all three.  No two targets share a key.       *)
(***************************************************************************)
EXTENDS ClientCache, TLC

CONSTANTS main, http, wallet, tcp, tcpSsl

TwoThreads    == {main, http}
OneCallee     == {wallet}
TwoTransports == {tcp, tcpSsl}
Interchange   == Permutations(TwoTransports)
=============================================================================
