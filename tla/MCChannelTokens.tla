---------------------------- MODULE MCChannelTokens ----------------------------
(* Values of ChannelTokens' constants for TLC. *)
EXTENDS ChannelTokens, TLC

CONSTANTS a1, a2, t1, t2, l1, l2

\* Ticks, and directory requests, are interchangeable.
WorkerSymmetry == Permutations(Ticks) \cup Permutations(Loads)

=============================================================================
