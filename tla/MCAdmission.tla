---------------------------- MODULE MCAdmission ----------------------------
(***************************************************************************)
(* Model of Admission for TLC: two identities, so that one consumer's      *)
(* credential could reach the other; three credentials, so that one of     *)
(* them can fail, be retried and rotated with its first push under way,    *)
(* or be admitted and rotated while the other is admitted.                 *)
(***************************************************************************)
EXTENDS Admission

CONSTANTS viewA, viewB, wallet

TwoIdentities == {viewA, viewB}
OneTarget     == {wallet}
GivenRing     == {<<viewA, Ambient>>}
=============================================================================
