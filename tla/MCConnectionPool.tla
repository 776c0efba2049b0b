--------------------------- MODULE MCConnectionPool ---------------------------
(* Values of ConnectionPool's constants for TLC. *)
EXTENDS ConnectionPool

CONSTANTS t1, t2, w1, q1, j1, j2
=============================================================================
