---------------------------- MODULE MCBookFiles ----------------------------
(* BookFiles for TLC: clients are interchangeable.                         *)
EXTENDS BookFiles, TLC

Symmetry == Permutations(Clients)
=============================================================================
