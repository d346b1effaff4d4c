-------------------------- MODULE MCGenresAndSeries --------------------------
(* GenresAndSeries for TLC: requests and names are interchangeable.         *)
EXTENDS GenresAndSeries, TLC

Symmetry == Permutations(Requests) \cup Permutations(Name)
=============================================================================
