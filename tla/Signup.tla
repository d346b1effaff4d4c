------------------------------- MODULE Signup -------------------------------
(***************************************************************************)
(* Signing up (TenantService), the two AuthService endpoints it calls, and *)
(* signing in.  A signup is a sequence of remote calls and one local save, *)
(* without compensation: the owner's account, the tenant, a support user   *)
(* and default genres (both only attempted), and last the tenant of the    *)
(* owner, without which nobody can sign in.                                *)
(*                                                                         *)
(* Not here: the invitation that creating an account sends (only that it   *)
(* can fail after the save), the genres (only the attempt to seed them),   *)
(* billing plans, and passwords.                                           *)
(***************************************************************************)
EXTENDS Integers, Sequences, FiniteSets

CONSTANTS
  Email,     \* addresses of owners
  Requests,  \* signup requests, a retry being a request of its own
  MaxSignIns, \* bound on the sign-ins that read a user
  Faults     \* what may go wrong in this instance, see FaultKinds

FaultKinds ==
  { "owner",     \* the call that creates the owner fails, or its reply is lost
    "database",  \* saving the tenant fails
    "helper",    \* a call for the support user fails, or its reply is lost
    "assign" }   \* the call that gives the owner the tenant fails, or its reply is lost

ASSUME MaxSignInsAssumption == MaxSignIns \in Nat
ASSUME FaultsAssumption == Faults \subseteq FaultKinds

VARIABLES
  users,     \* AuthService: the rows of Users, the Id being the index
  tenants,   \* TenantService: the rows of Tenants, the Id being the index
  req,       \* the signup requests
  logins,    \* sign-ins between reading the user and looking up the tenant
  sessions   \* tokens issued

vars == <<users, tenants, req, logins, sessions>>

Null == -1         \* TenantId of a user that has none
CallerTenant == 0  \* GetCurrentTenantId for a system token, which names no tenant
NoId == 0          \* Id of nothing, also what an empty reply reads as

\* An address is a name and a tag: the support user of tenant t is support+t.
OwnerEmail == Email \X {0}
SupportEmail(t) == <<"support", t>>

User == [email : OwnerEmail \cup ({"support"} \X Nat),
         role : {"Owner", "Support"}, tenant : Nat \cup {Null}]

Tenant == [owner : Nat, active : BOOLEAN]

Step == {"new", "insert", "tenant", "helper",
         "helperAssign", "seed", "assign", "ok", "error"}

Request == [step : Step, email : OwnerEmail, user : Nat, tenant : Nat, helper : Nat]

Session == [user : Nat, tenant : Nat]

TypeOK ==
  /\ users \in Seq(User)
  /\ tenants \in Seq(Tenant)
  /\ req \in [Requests -> Request]
  /\ logins \subseteq Session
  /\ sessions \subseteq Session

----------------------------------------------------------------------------
(* SystemUsersController                                                   *)

\* The query filter of Users compares the row's tenant with the caller's.
EmailIsSeen(e) ==
  \E u \in DOMAIN users : users[u].email = e /\ users[u].tenant = CallerTenant

\* The unique index.
EmailIsTaken(e) == \E u \in DOMAIN users : users[u].email = e

NewUser(e, r) == [email |-> e, role |-> r, tenant |-> Null]

\* AssignTenant finds the user, and it has no tenant yet.
MayAssign(u) == u \in DOMAIN users /\ users[u].tenant = Null

\* Variant: the tenant is taken to be the latest one.
GivenLatestTenant(u, t) == [users EXCEPT ![u] = [@ EXCEPT !.tenant = Len(tenants)]]

GivenTenant(u, t) == [users EXCEPT ![u] = [@ EXCEPT !.tenant = t]]

Goes(r, s) == req' = [req EXCEPT ![r] = [@ EXCEPT !.step = s]]

----------------------------------------------------------------------------
(* Signup: the owner                                                       *)

Init ==
  /\ users = <<>>
  /\ tenants = <<>>
  /\ req \in [Requests -> {[step |-> "new", email |-> e, user |-> NoId,
                            tenant |-> NoId, helper |-> NoId] : e \in OwnerEmail}]
  /\ logins = {}
  /\ sessions = {}

\* A signup begins.  CreateUser looks for the address before it inserts.
CheckOwner(r) ==
  /\ req[r].step = "new"
  /\ Goes(r, IF EmailIsSeen(req[r].email) THEN "error" ELSE "insert")
  /\ UNCHANGED <<users, tenants, logins, sessions>>

InsertOwner(r) ==
  /\ req[r].step = "insert"
  /\ ~EmailIsTaken(req[r].email)
  /\ users' = Append(users, NewUser(req[r].email, "Owner"))
  /\ req' = [req EXCEPT ![r] = [@ EXCEPT !.step = "tenant", !.user = Len(users) + 1]]
  /\ UNCHANGED <<tenants, logins, sessions>>

\* The index refuses the address.
InsertOwnerTaken(r) ==
  /\ req[r].step = "insert"
  /\ EmailIsTaken(req[r].email)
  /\ Goes(r, "error")
  /\ UNCHANGED <<users, tenants, logins, sessions>>

\* No token, no connection, or an error before the save.
OwnerFails(r) ==
  /\ "owner" \in Faults
  /\ req[r].step = "insert"
  /\ Goes(r, "error")
  /\ UNCHANGED <<users, tenants, logins, sessions>>

\* The account is saved, then its invitation throws or the reply is lost.
InsertOwnerUnanswered(r) ==
  /\ "owner" \in Faults
  /\ req[r].step = "insert"
  /\ ~EmailIsTaken(req[r].email)
  /\ users' = Append(users, NewUser(req[r].email, "Owner"))
  /\ Goes(r, "error")
  /\ UNCHANGED <<tenants, logins, sessions>>

\* The account is saved and the reply has no body: data?.UserId ?? 0.
InsertOwnerEmptyReply(r) ==
  /\ "owner" \in Faults
  /\ req[r].step = "insert"
  /\ ~EmailIsTaken(req[r].email)
  /\ users' = Append(users, NewUser(req[r].email, "Owner"))
  /\ Goes(r, "tenant")
  /\ UNCHANGED <<tenants, logins, sessions>>

\* Variant: the owner gets the tenant at once.
SaveTenantAndAssign(r) ==
  /\ req[r].step = "tenant"
  /\ tenants' = Append(tenants, [owner |-> req[r].user, active |-> TRUE])
  /\ users' = IF MayAssign(req[r].user) THEN GivenTenant(req[r].user, Len(tenants) + 1) ELSE users
  /\ req' = [req EXCEPT ![r] = [@ EXCEPT !.step = "helper", !.tenant = Len(tenants) + 1]]
  /\ UNCHANGED <<logins, sessions>>

SaveTenant(r) ==
  /\ req[r].step = "tenant"
  /\ tenants' = Append(tenants, [owner |-> req[r].user, active |-> TRUE])
  /\ req' = [req EXCEPT ![r] = [@ EXCEPT !.step = "helper", !.tenant = Len(tenants) + 1]]
  /\ UNCHANGED <<users, logins, sessions>>

SaveTenantFails(r) ==
  /\ "database" \in Faults
  /\ req[r].step = "tenant"
  /\ Goes(r, "error")
  /\ UNCHANGED <<users, tenants, logins, sessions>>

----------------------------------------------------------------------------
(* Signup: the support user and the genres, each in a try of its own       *)

\* The look-up of this address finds nothing: its tenant is new.
InsertHelper(r) ==
  /\ req[r].step = "helper"
  /\ ~EmailIsTaken(SupportEmail(req[r].tenant))
  /\ users' = Append(users, NewUser(SupportEmail(req[r].tenant), "Support"))
  /\ req' = [req EXCEPT ![r] = [@ EXCEPT !.step = "helperAssign", !.helper = Len(users) + 1]]
  /\ UNCHANGED <<tenants, logins, sessions>>

InsertHelperUnanswered(r) ==
  /\ "helper" \in Faults
  /\ req[r].step = "helper"
  /\ ~EmailIsTaken(SupportEmail(req[r].tenant))
  /\ users' = Append(users, NewUser(SupportEmail(req[r].tenant), "Support"))
  /\ Goes(r, "seed")
  /\ UNCHANGED <<tenants, logins, sessions>>

AssignHelper(r) ==
  /\ req[r].step = "helperAssign"
  /\ MayAssign(req[r].helper)
  /\ users' = GivenTenant(req[r].helper, req[r].tenant)
  /\ Goes(r, "seed")
  /\ UNCHANGED <<tenants, logins, sessions>>

\* Variant: what is thrown ends the signup.
HelperFailsSignup(r) ==
  /\ "helper" \in Faults
  /\ req[r].step \in {"helper", "helperAssign"}
  /\ Goes(r, "error")
  /\ UNCHANGED <<users, tenants, logins, sessions>>

\* Whatever is thrown is caught and logged.
HelperFails(r) ==
  /\ "helper" \in Faults
  /\ req[r].step \in {"helper", "helperAssign"}
  /\ Goes(r, "seed")
  /\ UNCHANGED <<users, tenants, logins, sessions>>

\* The default genres are seeded, or that fails and is logged.
Seed(r) ==
  /\ req[r].step = "seed"
  /\ Goes(r, "assign")
  /\ UNCHANGED <<users, tenants, logins, sessions>>

----------------------------------------------------------------------------
(* Signup: the tenant of the owner                                         *)

AssignOwner(r) ==
  /\ req[r].step = "assign"
  /\ MayAssign(req[r].user)
  /\ users' = GivenTenant(req[r].user, req[r].tenant)
  /\ Goes(r, "ok")
  /\ UNCHANGED <<tenants, logins, sessions>>

\* Variant: the status of the answer is not looked at.
AssignOwnerUnheeded(r) ==
  /\ req[r].step = "assign"
  /\ ~MayAssign(req[r].user)
  /\ Goes(r, "ok")
  /\ UNCHANGED <<users, tenants, logins, sessions>>

\* Not found, or it has a tenant: AssignTenantAsync throws.
AssignOwnerRefused(r) ==
  /\ req[r].step = "assign"
  /\ ~MayAssign(req[r].user)
  /\ Goes(r, "error")
  /\ UNCHANGED <<users, tenants, logins, sessions>>

\* Variant: an answer that does not come is not waited for.
AssignOwnerForgotten(r) ==
  /\ "assign" \in Faults
  /\ req[r].step = "assign"
  /\ Goes(r, "ok")
  /\ UNCHANGED <<users, tenants, logins, sessions>>

AssignOwnerFails(r) ==
  /\ "assign" \in Faults
  /\ req[r].step = "assign"
  /\ Goes(r, "error")
  /\ UNCHANGED <<users, tenants, logins, sessions>>

AssignOwnerUnanswered(r) ==
  /\ "assign" \in Faults
  /\ req[r].step = "assign"
  /\ MayAssign(req[r].user)
  /\ users' = GivenTenant(req[r].user, req[r].tenant)
  /\ Goes(r, "error")
  /\ UNCHANGED <<tenants, logins, sessions>>

----------------------------------------------------------------------------
(* Tenants and sign-ins                                                    *)

\* TenantController and SupportTenantController
SetTenantActive(t, active) ==
  /\ tenants[t].active # active
  /\ tenants' = [tenants EXCEPT ![t] = [@ EXCEPT !.active = active]]
  /\ UNCHANGED <<users, req, logins, sessions>>

\* Login reads the user; without a tenant it ends here.
ReadUser(u) ==
  /\ Cardinality(logins \cup sessions) < MaxSignIns
  /\ users[u].tenant \notin {Null, CallerTenant}
  /\ logins' = logins \cup {[user |-> u, tenant |-> users[u].tenant]}
  /\ UNCHANGED <<users, tenants, req, sessions>>

\* The lookup finds active tenants only.
IssueToken(l) ==
  /\ tenants[l.tenant].active
  /\ logins' = logins \ {l}
  /\ sessions' = sessions \cup {l}
  /\ UNCHANGED <<users, tenants, req>>

LoginRefused(l) ==
  /\ ~tenants[l.tenant].active
  /\ logins' = logins \ {l}
  /\ UNCHANGED <<users, tenants, req, sessions>>

----------------------------------------------------------------------------

CreateOwner(r) ==
  \/ InsertOwner(r) \/ InsertOwnerTaken(r) \/ OwnerFails(r)
  \/ InsertOwnerUnanswered(r) \/ InsertOwnerEmptyReply(r)

CreateHelper(r) ==
  \/ InsertHelper(r) \/ InsertHelperUnanswered(r)
  \/ AssignHelper(r) \/ HelperFails(r)

Progress(r) ==
  \/ CreateOwner(r) \/ SaveTenant(r) \/ SaveTenantFails(r) \/ CreateHelper(r)
  \/ Seed(r)
  \/ AssignOwner(r) \/ AssignOwnerRefused(r) \/ AssignOwnerFails(r) \/ AssignOwnerUnanswered(r)

Login ==
  \/ \E u \in DOMAIN users : ReadUser(u)
  \/ \E l \in logins : IssueToken(l) \/ LoginRefused(l)

Next ==
  \/ \E r \in Requests : CheckOwner(r) \/ Progress(r)
  \/ \E t \in DOMAIN tenants, active \in BOOLEAN : SetTenantActive(t, active)
  \/ Login

Spec == Init /\ [][Next]_vars

\* A request that has begun runs on a thread of the server, and each of its calls
\* is answered or times out.
FairSpec == Spec /\ \A r \in Requests : WF_vars(Progress(r))

----------------------------------------------------------------------------
(* Properties                                                              *)

Owned(u) == users[u].role = "Owner" /\ users[u].tenant # Null

\* An owner with a tenant owns that tenant, and a user of the support role with
\* a tenant is the one whose address names it: two signups never exchange them.
UsersServeTheirTenant ==
  \A u \in DOMAIN users : users[u].tenant # Null =>
    /\ users[u].tenant \in DOMAIN tenants
    /\ IF users[u].role = "Owner"
       THEN tenants[users[u].tenant].owner = u
       ELSE users[u].email = SupportEmail(users[u].tenant)

\* A signup that answered success left an owner that signs in to the tenant made
\* for it, even when the support user and the genres failed.
AnsweredOwnerHasPortal ==
  \A r \in Requests : req[r].step = "ok" =>
    /\ users[req[r].user].tenant = req[r].tenant
    /\ tenants[req[r].tenant].owner = req[r].user

\* Nobody signs in as the owner of a tenant while its support user or its
\* genres are still being made: the assignment comes last.
NoOwnerInHalfMadeTenant ==
  \A s \in sessions : users[s.user].role = "Owner" =>
    \A r \in Requests : req[r].tenant = s.tenant => req[r].step \in {"ok", "error"}

\* An address goes from free to reserved to open and never back, and success is
\* told only of an open one.
Standing(e) ==
  IF \E u \in DOMAIN users : users[u].email = e /\ users[u].tenant # Null THEN "open"
  ELSE IF EmailIsTaken(e) THEN "reserved" ELSE "free"

Promise == INSTANCE Portal WITH
  Email <- OwnerEmail,
  portal <- [e \in OwnerEmail |-> Standing(e)],
  confirmed <- {req[r].email : r \in {q \in Requests : req[q].step = "ok"}}

ImplementsPortal == Promise!Spec

\* The support user and the genres are only attempted: whatever becomes of them,
\* a signup that has saved its tenant comes to assign it to the owner.
AttemptsEndInAssignment ==
  \A r \in Requests : (req[r].step = "helper") ~> (req[r].step = "assign")
=============================================================================
