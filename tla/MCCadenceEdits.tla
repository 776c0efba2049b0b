---------------------------- MODULE MCCadenceEdits ----------------------------
(* Values of CadenceEdits' constants for TLC. *)
EXTENDS CadenceEdits

CONSTANTS j1, j2, e1, e2, t1, t2
=============================================================================
