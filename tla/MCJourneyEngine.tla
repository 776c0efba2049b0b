---------------------------- MODULE MCJourneyEngine ----------------------------
(* Values of JourneyEngine's constants for TLC. *)
EXTENDS JourneyEngine

CONSTANTS j1, j2, l1, l2, u1, u2, t1, t2, r1, r2, c1, c2, b1, b2

\* One journey per lead.
MCLeadOf == [j \in Journeys |-> IF j = j1 THEN l1 ELSE l2]
\* Two journeys of the same lead.
MCSameLead == [j \in Journeys |-> l1]

MCDelay == [s \in Steps |-> IF s = 0 THEN 0 ELSE 1]
MCNoDelay == [s \in Steps |-> 0]
=============================================================================
