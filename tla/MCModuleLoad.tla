---------------------------- MODULE MCModuleLoad ----------------------------
(***************************************************************************)
(* A pool of three workers: a task can be running, waiting for the others  *)
(* and over while another is still queued, if the pool were too small.     *)
(***************************************************************************)
EXTENDS ModuleLoad

CONSTANTS w1, w2, w3

MCWorkers == {w1, w2, w3}
=============================================================================
