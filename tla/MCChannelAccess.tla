---------------------------- MODULE MCChannelAccess ----------------------------
(* Values of ChannelAccess's constants for TLC. *)
EXTENDS ChannelAccess, TLC

CONSTANTS a1, a2, c1, c2

\* Accounts, and requests, are interchangeable.
AccessSymmetry == Permutations(ChannelAccounts) \cup Permutations(Choices)

=============================================================================
