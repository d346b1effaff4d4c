--------------------------- MODULE MCUserAccounts ---------------------------
(***************************************************************************)
(* UserAccounts for TLC: addresses and requests are interchangeable.       *)
(***************************************************************************)
EXTENDS UserAccounts, TLC

Symmetry == Permutations(Email \ Foreign) \cup Permutations(Requests)
=============================================================================
