------------------------------ MODULE MCPages ------------------------------
(* Books of which two have one title.  A value of which the catalog keeps  *)
(* nothing.                                                                *)
EXTENDS Pages, TLC

MCTitle == (1 :> 1) @@ (2 :> 1) @@ (3 :> 2) @@ (4 :> 3)

MCKept == (0 :> 0) @@ (1 :> 1) @@ (2 :> 0)
=============================================================================
