------------------------- MODULE UserAccountsClaims -------------------------
(***************************************************************************)
(* What the source says of the users of a tenant and the program does not  *)
(* do.                                                                     *)
(***************************************************************************)
EXTENDS UserAccounts

\* UsersController.cs:241 answers "User deactivated successfully"; the only ways
\* back are the two reactivations.  A request that saves every column of a copy
\* it loaded before undoes the deactivation.
OnlyReactivationActivates ==
  [][\A u \in DOMAIN users : ~users[u].active /\ users'[u].active =>
       \E r \in Requests : /\ req[r].step = "save" /\ req'[r].step # "save"
                           /\ req[r].op \in {"reactivate", "supportReactivate"}]_vars
=============================================================================
