------------------------------ MODULE MCViewer ------------------------------
(* An EPUB of four pages, of which the second and the third start in one   *)
(* location.                                                               *)
EXTENDS Viewer, TLC

MCLocationOf == (0 :> 0) @@ (1 :> 1) @@ (2 :> 1) @@ (3 :> 2)
=============================================================================
