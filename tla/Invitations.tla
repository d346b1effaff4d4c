----------------------------- MODULE Invitations -----------------------------
(***************************************************************************)
(* The invitations of one user (AuthService): the three senders of         *)
(* InvitationService, which differ in the mail only, and the two handlers  *)
(* of InvitationController that take a token.                              *)
(*                                                                         *)
(* A request loads rows and later saves them whole, so what it loaded may  *)
(* be old.  Sending first replaces the invitations it has loaded, and asks *)
(* EmailService for the mail after that is saved.                          *)
(*                                                                         *)
(* The user is active and visible throughout; the password a token sets is *)
(* not modelled.                                                           *)
(***************************************************************************)
EXTENDS Naturals, Sequences, FiniteSets

CONSTANTS
  Requests,    \* requests in flight at a time
  MaxInvites   \* bound on the rows of Invitations

ASSUME RequestsAssumption == IsFiniteSet(Requests) /\ Requests # {}
ASSUME MaxInvitesAssumption == MaxInvites \in Nat

VARIABLES
  invites,  \* the rows, the Id being the index
  req,      \* the requests
  mailed,   \* invitations whose mail has been delivered
  old,      \* invitations past their ExpirationDate
  uses      \* history: how often each has set a password

vars == <<invites, req, mailed, old, uses>>

Reason == {"None", "Used", "Expired", "Replaced", "EmailFailed"}

Invite == [active : BOOLEAN, reason : Reason]

NewInvite == [active |-> TRUE, reason |-> "None"]

Off(why) == [active |-> FALSE, reason |-> why]

Step == {"idle", "replace", "mail", "use", "expire"}

\* "seen" are the invitations loaded, "invite" the one sent or taken.
Request == [step : Step, seen : SUBSET Nat, invite : Nat]

Idle == [step |-> "idle", seen |-> {}, invite |-> 0]

TypeOK ==
  /\ invites \in Seq(Invite)
  /\ req \in [Requests -> Request]
  /\ mailed \subseteq DOMAIN invites
  /\ old \subseteq DOMAIN invites
  /\ uses \in Seq(Nat) /\ Len(uses) = Len(invites)

Active == {i \in DOMAIN invites : invites[i].active}

----------------------------------------------------------------------------

Init ==
  /\ invites = <<>>
  /\ req = [r \in Requests |-> Idle]
  /\ mailed = {}
  /\ old = {}
  /\ uses = <<>>

Now(r, q) == req' = [req EXCEPT ![r] = q]

At(r, s) == req[r].step = s

\* A sender loads the active invitations of the user.
LoadOld(r) ==
  /\ At(r, "idle")
  /\ Now(r, [step |-> "replace", seen |-> Active, invite |-> 0])
  /\ UNCHANGED <<invites, mailed, old, uses>>

\* Variant: the old invitations are looked for after the new one is added.
SaveNewFirst(r) ==
  /\ At(r, "replace")
  /\ Len(invites) < MaxInvites
  /\ invites' = [i \in 1..(Len(invites) + 1) |->
                   IF i \in Active \cup {Len(invites) + 1} THEN Off("Replaced") ELSE invites[i]]
  /\ uses' = Append(uses, 0)
  /\ Now(r, [step |-> "mail", seen |-> {}, invite |-> Len(invites) + 1])
  /\ UNCHANGED <<mailed, old>>

\* Variant: only the latest of the old invitations is replaced.
SaveNewReplacingLatest(r) ==
  /\ At(r, "replace")
  /\ Len(invites) < MaxInvites
  /\ LET n == Len(invites) + 1 IN
     /\ invites' = [i \in 1..n |-> IF i = n THEN NewInvite
                                   ELSE IF i \in req[r].seen /\ i = n - 1 THEN Off("Replaced")
                                   ELSE invites[i]]
     /\ Now(r, [step |-> "mail", seen |-> {}, invite |-> n])
  /\ uses' = Append(uses, 0)
  /\ UNCHANGED <<mailed, old>>

\* One save replaces them and adds the new one.
SaveNew(r) ==
  /\ At(r, "replace")
  /\ Len(invites) < MaxInvites
  /\ LET n == Len(invites) + 1 IN
     /\ invites' = [i \in 1..n |-> IF i = n THEN NewInvite
                                   ELSE IF i \in req[r].seen THEN Off("Replaced")
                                   ELSE invites[i]]
     /\ Now(r, [step |-> "mail", seen |-> {}, invite |-> n])
  /\ uses' = Append(uses, 0)
  /\ UNCHANGED <<mailed, old>>

\* The mail is delivered; the answer may be lost, which changes nothing here.
Mail(r) ==
  /\ At(r, "mail")
  /\ mailed' = mailed \cup {req[r].invite}
  /\ Now(r, Idle)
  /\ UNCHANGED <<invites, old, uses>>

\* EmailService answers that it failed, perhaps after the server took the mail.
MailFails(r) ==
  /\ At(r, "mail")
  /\ mailed' \in {mailed, mailed \cup {req[r].invite}}
  /\ invites' = [invites EXCEPT ![req[r].invite] = Off("EmailFailed")]
  /\ Now(r, Idle)
  /\ UNCHANGED <<old, uses>>

\* Fourteen days have passed.
GrowOld(i) ==
  /\ i \notin old
  /\ old' = old \cup {i}
  /\ UNCHANGED <<invites, req, mailed, uses>>

\* Complete, or Validate for an old one, loads the invitation of a token.
Take(r, i) ==
  /\ At(r, "idle")
  /\ i \in mailed /\ invites[i].active
  /\ Now(r, [step |-> IF i \in old THEN "expire" ELSE "use", seen |-> {}, invite |-> i])
  /\ UNCHANGED <<invites, mailed, old, uses>>

\* Variant: the invitation is not marked.
UseUnmarked(r) ==
  /\ At(r, "use")
  /\ uses' = [uses EXCEPT ![req[r].invite] = @ + 1]
  /\ Now(r, Idle)
  /\ UNCHANGED <<invites, mailed, old>>

Use(r) ==
  /\ At(r, "use")
  /\ invites' = [invites EXCEPT ![req[r].invite] = Off("Used")]
  /\ uses' = [uses EXCEPT ![req[r].invite] = @ + 1]
  /\ Now(r, Idle)
  /\ UNCHANGED <<mailed, old>>

\* Variant: the row is saved as it was loaded, with the reason alone changed.
ExpireReasonOnly(r) ==
  /\ At(r, "expire")
  /\ invites' = [invites EXCEPT ![req[r].invite] = [active |-> TRUE, reason |-> "Expired"]]
  /\ Now(r, Idle)
  /\ UNCHANGED <<mailed, old, uses>>

Expire(r) ==
  /\ At(r, "expire")
  /\ invites' = [invites EXCEPT ![req[r].invite] = Off("Expired")]
  /\ Now(r, Idle)
  /\ UNCHANGED <<mailed, old, uses>>

\* A save fails, no token is to be had, or EmailService does not answer.
Fails(r) ==
  /\ ~At(r, "idle")
  /\ Now(r, Idle)
  /\ UNCHANGED <<invites, mailed, old, uses>>

Send(r) == LoadOld(r) \/ SaveNew(r) \/ Mail(r) \/ MailFails(r)

Next ==
  \/ \E r \in Requests : Send(r) \/ Use(r) \/ Expire(r) \/ Fails(r)
  \/ \E r \in Requests, i \in DOMAIN invites : Take(r, i)
  \/ \E i \in DOMAIN invites : GrowOld(i)

Spec == Init /\ [][Next]_vars

----------------------------------------------------------------------------
(* Properties                                                              *)

\* Senders that overlap do not see each other's invitations, so a user may have
\* several that work, but never more than there are requests in flight: each
\* sender replaces what it has sent before.
ActiveIsBounded == Cardinality(Active) <= Cardinality(Requests)

\* The invitation sent last works until it is used, is old, or its mail was
\* reported as failed: no sender replaces an invitation newer than its load.
LatestWorks ==
  LET n == Len(invites) IN
  n > 0 => invites[n].active \/ uses[n] > 0 \/ n \in old \/ invites[n].reason = "EmailFailed"

\* A token sets a password once, except by requests that were under way together.
UsesAreBounded ==
  \A i \in DOMAIN invites :
    uses[i] + Cardinality({r \in Requests : At(r, "use") /\ req[r].invite = i})
      <= Cardinality(Requests)

\* An invitation that was switched off stays off, although every save writes whole
\* rows from copies that were loaded while it was on.
NoneRevives ==
  [][\A i \in DOMAIN invites : ~invites[i].active => ~invites'[i].active]_vars
=============================================================================
