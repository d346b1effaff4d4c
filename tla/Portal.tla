------------------------------- MODULE Portal -------------------------------
(***************************************************************************)
(* What signing up promises for an e-mail address: it is free, then        *)
(* reserved by an account that belongs to no tenant, then open, and it     *)
(* never goes back.  Success is told only of an open one.                  *)
(***************************************************************************)
CONSTANT Email

VARIABLES
  portal,    \* state of each address
  confirmed  \* addresses whose signup was answered with success

vars == <<portal, confirmed>>

Init ==
  /\ portal = [e \in Email |-> "free"]
  /\ confirmed = {}

Reserve(e) ==
  /\ portal[e] = "free"
  /\ portal' = [portal EXCEPT ![e] = "reserved"]
  /\ UNCHANGED confirmed

\* The answer may be lost.
Open(e) ==
  /\ portal[e] = "reserved"
  /\ portal' = [portal EXCEPT ![e] = "open"]
  /\ confirmed' \in {confirmed, confirmed \cup {e}}

Next == \E e \in Email : Reserve(e) \/ Open(e)

Spec == Init /\ [][Next]_vars
=============================================================================
