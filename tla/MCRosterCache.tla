---------------------------- MODULE MCRosterCache ----------------------------
(* The symmetry of RosterCache's threads and writers for TLC. *)
EXTENDS RosterCache, TLC

Perms == Permutations(Threads) \cup Permutations(Writers)
=============================================================================
