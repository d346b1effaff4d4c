--------------------------- MODULE SessionClaims ---------------------------
(* What a comment says of the end of a support session, and the code does  *)
(* not keep.                                                               *)
EXTENDS Session

\* "swap back to original superadmin token" (app.component.ts:126): ending a
\* support session stores a token of the SuperAdmin who started it.
SwapsBackToSuperAdmin ==
  [][EndSupportSession => issued[token'].who \in SuperAdmins]_vars
=============================================================================
