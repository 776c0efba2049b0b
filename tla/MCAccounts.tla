------------------------------- MODULE MCAccounts -------------------------------
(* Values of Accounts' constants for TLC. *)
EXTENDS Accounts, TLC

CONSTANTS r1, r2, r3, p1, p2, v1, i1

\* Requests are interchangeable.
RequestSymmetry == Permutations(Requests)

=============================================================================
