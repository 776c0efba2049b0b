----------------------------- MODULE MCIngestion -----------------------------
(***************************************************************************)
(* Instances of Ingestion for model checking: who shares an email with     *)
(* whom.                                                                   *)
(***************************************************************************)
EXTENDS Ingestion, TLC

CONSTANTS o1, o2, m1, m2

\* Each CRM user has the email of one member.
EachHisOwn == [o \in Owners |-> IF o = o1 THEN m1 ELSE m2]

\* Both CRM users have the email of one member.
BothTheSame == [o \in Owners |-> m1]

\* Admins are interchangeable.
AdminSymmetry == Permutations(Admins)

=============================================================================
