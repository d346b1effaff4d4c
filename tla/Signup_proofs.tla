--------------------------- MODULE Signup_proofs ---------------------------
(***************************************************************************)
(* Theorems about Signup, for every set of addresses and of requests and   *)
(* every fault: who serves which tenant, and that it implements Portal.    *)
(***************************************************************************)
EXTENDS Signup, SequenceTheorems, TLAPS

----------------------------------------------------------------------------
(* The parts of the inductive invariant.                                   *)

\* The steps of a signup that has saved its tenant.
After == {"helper", "helperAssign", "seed", "assign", "ok"}

\* What a request holds is a row of its own making, or nothing; us and ts are the
\* rows of users and of tenants.
RequestOK(q, us, ts) ==
  /\ q.tenant \in 0..Len(ts)
  /\ q.user # NoId => /\ q.user \in DOMAIN us
                      /\ us[q.user].role = "Owner" /\ us[q.user].email = q.email
  /\ q.step \in After => q.tenant \in DOMAIN ts /\ ts[q.tenant].owner = q.user
  /\ q.step = "helperAssign" =>
       /\ q.helper \in DOMAIN us
       /\ us[q.helper].role = "Support" /\ us[q.helper].email = SupportEmail(q.tenant)
  /\ q.step = "ok" => q.user \in DOMAIN us /\ us[q.user].tenant = q.tenant

RequestsOK == \A r \in Requests : RequestOK(req[r], users, tenants)

\* No two requests have saved the same tenant.
TenantsApart ==
  \A x, y \in Requests : x # y /\ req[x].tenant # NoId => req[x].tenant # req[y].tenant

\* The signup of a tenant whose owner has it is over.
OwnerIsLast ==
  \A u \in DOMAIN users : users[u].role = "Owner" /\ users[u].tenant # Null =>
    \A r \in Requests : req[r].tenant = users[u].tenant => req[r].step \in {"ok", "error"}

\* Sign-ins carry the tenant of their user.
SignInsOK ==
  \A s \in logins \cup sessions :
    s.user \in DOMAIN users /\ users[s.user].tenant = s.tenant /\ s.tenant # Null

SignupInv ==
  /\ TypeOK /\ RequestsOK /\ TenantsApart
  /\ UsersServeTheirTenant /\ OwnerIsLast /\ SignInsOK

\* The unique index: no two users have an address.
AddressesApart == \A u, v \in DOMAIN users : users[u].email = users[v].email => u = v

\* Rows are added and users without a tenant are given one; nothing else of a row
\* that is looked at changes.
UsersExtend(us, us2) ==
  \A u \in DOMAIN us :
    /\ u \in DOMAIN us2 /\ us2[u].role = us[u].role /\ us2[u].email = us[u].email
    /\ us[u].tenant # Null => us2[u].tenant = us[u].tenant

TenantsExtend(ts, ts2) ==
  /\ Len(ts) <= Len(ts2)
  /\ \A t \in DOMAIN ts : t \in DOMAIN ts2 /\ ts2[t].owner = ts[t].owner

----------------------------------------------------------------------------
(* Rows and requests.                                                      *)

LEMMA Rows ==
  ASSUME TypeOK
  PROVE  /\ Len(users) \in Nat /\ DOMAIN users = 1..Len(users)
         /\ Len(tenants) \in Nat /\ DOMAIN tenants = 1..Len(tenants)
         /\ \A u \in DOMAIN users : users[u] \in User
         /\ \A t \in DOMAIN tenants : tenants[t] \in Tenant
         /\ \A r \in Requests : req[r] \in Request
  <1>1. users \in Seq(User) /\ tenants \in Seq(Tenant)
    BY DEF TypeOK
  <1>2. /\ Len(users) \in Nat /\ DOMAIN users = 1..Len(users)
        /\ Len(tenants) \in Nat /\ DOMAIN tenants = 1..Len(tenants)
    BY <1>1
  <1>3. \A u \in DOMAIN users : users[u] \in User
    BY <1>1, <1>2, ElementOfSeq
  <1>4. \A t \in DOMAIN tenants : tenants[t] \in Tenant
    BY <1>1, <1>2, ElementOfSeq
  <1> QED BY <1>2, <1>3, <1>4 DEF TypeOK

\* A user that is added.
LEMMA UserAdded ==
  ASSUME TypeOK, NEW e \in OwnerEmail \cup ({"support"} \X Nat), NEW role \in {"Owner", "Support"},
         users' = Append(users, NewUser(e, role))
  PROVE  /\ users' \in Seq(User) /\ Len(users') = Len(users) + 1
         /\ DOMAIN users' = 1..(Len(users) + 1)
         /\ \A u \in DOMAIN users : users'[u] = users[u]
         /\ users'[Len(users) + 1] = [email |-> e, role |-> role, tenant |-> Null]
         /\ UsersExtend(users, users')
  <1> DEFINE n == Len(users)
             new == NewUser(e, role)
  <1>1. new \in User /\ new = [email |-> e, role |-> role, tenant |-> Null]
    BY DEF NewUser, User
  <1>2. n \in Nat /\ DOMAIN users = 1..n /\ users \in Seq(User)
    BY Rows DEF TypeOK
  <1> HIDE DEF new
  <1>3. /\ users' \in Seq(User) /\ Len(users') = n + 1
        /\ \A u \in 1..n : users'[u] = users[u]
        /\ users'[n + 1] = new
    BY <1>1, <1>2, AppendProperties DEF new
  <1>4. DOMAIN users' = 1..(n + 1)
    BY <1>3
  <1>5. \A u \in 1..n : u \in 1..(n + 1)
    BY <1>2
  <1>6. UsersExtend(users, users')
    BY <1>2, <1>3, <1>4, <1>5 DEF UsersExtend
  <1> QED BY <1>1, <1>2, <1>3, <1>4, <1>6

\* A user that is given a tenant.
LEMMA UserGiven ==
  ASSUME TypeOK, NEW u \in Nat, MayAssign(u), NEW t \in Nat, users' = GivenTenant(u, t)
  PROVE  /\ users' \in Seq(User) /\ DOMAIN users' = DOMAIN users /\ u \in DOMAIN users
         /\ users[u].tenant = Null
         /\ \A v \in DOMAIN users \ {u} : users'[v] = users[v]
         /\ users'[u].role = users[u].role /\ users'[u].email = users[u].email
         /\ users'[u].tenant = t
         /\ UsersExtend(users, users')
  <1> DEFINE row == [users[u] EXCEPT !.tenant = t]
  <1>1. u \in DOMAIN users /\ users[u].tenant = Null /\ users[u] \in User
    BY Rows DEF MayAssign
  <1>2. /\ row \in User /\ row.role = users[u].role /\ row.email = users[u].email
        /\ row.tenant = t
    BY <1>1 DEF User
  <1>3. users' = [users EXCEPT ![u] = row]
    BY DEF GivenTenant
  <1> HIDE DEF row
  <1>4. users \in Seq(User) /\ u \in 1..Len(users)
    BY <1>1, Rows DEF TypeOK
  <1>5. users' \in Seq(User)
    BY <1>2, <1>3, <1>4, ExceptSeq
  <1>6. DOMAIN users' = DOMAIN users /\ \A v \in DOMAIN users : users'[v] = IF v = u THEN row ELSE users[v]
    BY <1>1, <1>3
  <1>7. UsersExtend(users, users')
    BY <1>1, <1>2, <1>6 DEF UsersExtend
  <1> QED BY <1>1, <1>2, <1>5, <1>6, <1>7

\* A request as it begins, and as it moves to a step and learns of a row.
LEMMA NewRequest ==
  ASSUME NEW e \in OwnerEmail
  PROVE  [step |-> "new", email |-> e, user |-> NoId, tenant |-> NoId, helper |-> NoId] \in Request
  BY DEF Request, Step, NoId

LEMMA Moved ==
  ASSUME NEW q0 \in Request, NEW s \in Step, NEW q, q = [q0 EXCEPT !.step = s]
  PROVE  /\ q \in Request /\ q.step = s /\ q.email = q0.email
         /\ q.user = q0.user /\ q.tenant = q0.tenant /\ q.helper = q0.helper
  BY DEF Request

WithUser(q, s, n) == [q EXCEPT !.step = s, !.user = n]

LEMMA MovedWithUser ==
  ASSUME NEW q0 \in Request, NEW s \in Step, NEW n \in Nat, NEW q, q = WithUser(q0, s, n)
  PROVE  /\ q \in Request /\ q.step = s /\ q.email = q0.email
         /\ q.user = n /\ q.tenant = q0.tenant
  BY DEF Request, WithUser

WithHelper(q, s, n) == [q EXCEPT !.step = s, !.helper = n]

LEMMA MovedWithHelper ==
  ASSUME NEW q0 \in Request, NEW s \in Step, NEW n \in Nat, NEW q, q = WithHelper(q0, s, n)
  PROVE  /\ q \in Request /\ q.step = s /\ q.email = q0.email
         /\ q.user = q0.user /\ q.tenant = q0.tenant /\ q.helper = n
  BY DEF Request, WithHelper

WithTenant(q, s, n) == [q EXCEPT !.step = s, !.tenant = n]

LEMMA MovedWithTenant ==
  ASSUME NEW q0 \in Request, NEW s \in Step, NEW n \in Nat, NEW q, q = WithTenant(q0, s, n)
  PROVE  /\ q \in Request /\ q.step = s /\ q.email = q0.email
         /\ q.user = q0.user /\ q.tenant = n
  BY DEF Request, WithTenant

LEMMA Steps ==
  /\ {"tenant", "helper", "helperAssign", "seed", "error", "ok"} \subseteq Step
  /\ \A n \in Nat : n + 1 \in Nat
  BY DEF Step

LEMMA ExtendRefl == UsersExtend(users, users) /\ (TypeOK => TenantsExtend(tenants, tenants))
  BY Rows DEF UsersExtend, TenantsExtend

\* What was right of a request stays right when rows are added.
LEMMA RequestKept ==
  ASSUME NEW q, NEW us, NEW us2, NEW ts, NEW ts2,
         Len(ts) \in Nat, Len(ts2) \in Nat, DOMAIN us \subseteq Nat, q.tenant # Null,
         UsersExtend(us, us2), TenantsExtend(ts, ts2), RequestOK(q, us, ts)
  PROVE  RequestOK(q, us2, ts2)
  BY DEF RequestOK, UsersExtend, TenantsExtend, After

\* A step of one request that adds rows preserves the invariant if that request
\* and the owners are right after it.
LEMMA Keeps ==
  ASSUME SignupInv, NEW r \in Requests, NEW q \in Request, req' = [req EXCEPT ![r] = q],
         users' \in Seq(User), tenants' \in Seq(Tenant),
         UsersExtend(users, users'), TenantsExtend(tenants, tenants'),
         UNCHANGED <<logins, sessions>>,
         RequestOK(q, users', tenants'),
         q.tenant \in {req[r].tenant, Len(tenants) + 1},
         UsersServeTheirTenant', OwnerIsLast'
  PROVE  SignupInv'
  <1>1. \A x \in Requests : req'[x] = IF x = r THEN q ELSE req[x]
    BY DEF SignupInv, TypeOK
  <1>2. TypeOK'
    BY DEF SignupInv, TypeOK
  <1>3. RequestsOK'
    <2>1. ASSUME NEW x \in Requests, x # r PROVE RequestOK(req[x], users', tenants')
      <3>1. RequestOK(req[x], users, tenants)
        BY DEF SignupInv, RequestsOK
      <3>2. /\ Len(tenants) \in Nat /\ DOMAIN users \subseteq Nat /\ Len(tenants') \in Nat
            /\ req[x].tenant # Null
        BY Rows DEF SignupInv, Request, Null
      <3> QED BY <3>1, <3>2, RequestKept
    <2> QED BY <1>1, <2>1 DEF RequestsOK
  <1>4. TenantsApart'
    <2>1. \A x \in Requests : req[x].tenant \in 0..Len(tenants)
      BY DEF SignupInv, RequestsOK, RequestOK
    <2>2. Len(tenants) \in Nat
      BY Rows DEF SignupInv
    <2>3. \A x \in Requests : req[x].tenant # Len(tenants) + 1
      BY <2>1, <2>2
    <2> QED BY <1>1, <2>3 DEF SignupInv, TenantsApart
  <1>5. SignInsOK'
    BY DEF SignupInv, SignInsOK, UsersExtend
  <1> QED BY <1>2, <1>3, <1>4, <1>5 DEF SignupInv

\* No owner has the tenant of a signup that is not over.
LEMMA Unfinished ==
  ASSUME SignupInv, NEW r \in Requests, req[r].step \notin {"ok", "error"},
         NEW u \in DOMAIN users, users[u].role = "Owner", users[u].tenant # Null
  PROVE  req[r].tenant # users[u].tenant
  BY DEF SignupInv, OwnerIsLast

----------------------------------------------------------------------------
(* Steps.                                                                  *)

LEMMA SignupInit == Init => SignupInv
  <1> SUFFICES ASSUME Init PROVE SignupInv
    OBVIOUS
  <1>1. /\ users = <<>> /\ tenants = <<>> /\ logins = {} /\ sessions = {}
        /\ users \in Seq(User) /\ tenants \in Seq(Tenant)
        /\ DOMAIN users = {} /\ DOMAIN tenants = {} /\ Len(tenants) = 0
    BY EmptySeq DEF Init
  <1>2. \A r \in Requests : \E e \in OwnerEmail :
          req[r] = [step |-> "new", email |-> e, user |-> NoId, tenant |-> NoId, helper |-> NoId]
    BY DEF Init
  <1>3. TypeOK
    <2>1. \A r \in Requests : req[r] \in Request
      BY <1>2, NewRequest
    <2>2. req \in [Requests -> Request]
      BY <2>1 DEF Init
    <2> QED BY <1>1, <2>2 DEF TypeOK
  <1>4. \A r \in Requests : req[r].step = "new" /\ req[r].user = NoId /\ req[r].tenant = NoId
    <2>1. ASSUME NEW r \in Requests
          PROVE  req[r].step = "new" /\ req[r].user = NoId /\ req[r].tenant = NoId
      <3>1. PICK e \in OwnerEmail :
              req[r] = [step |-> "new", email |-> e, user |-> NoId, tenant |-> NoId, helper |-> NoId]
        BY <1>2
      <3> QED BY <3>1
    <2> QED BY <2>1
  <1>5. RequestsOK
    BY <1>1, <1>4 DEF RequestsOK, RequestOK, After, NoId
  <1>6. TenantsApart /\ UsersServeTheirTenant /\ OwnerIsLast /\ SignInsOK
    BY <1>1, <1>4 DEF TenantsApart, UsersServeTheirTenant, OwnerIsLast, SignInsOK
  <1> QED BY <1>3, <1>5, <1>6 DEF SignupInv

\* A request that only moves on, or gives up.
LEMMA MoveStep ==
  ASSUME SignupInv, NEW r \in Requests, NEW s \in Step \ {"ok", "helperAssign"}, Goes(r, s),
         UNCHANGED <<users, tenants, logins, sessions>>,
         req[r].step \notin {"ok", "error"},
         s \in After => req[r].step \in After
  PROVE  SignupInv'
  <1> DEFINE q == [req[r] EXCEPT !.step = s]
  <1>1. /\ q \in Request /\ q.step = s /\ q.email = req[r].email
        /\ q.user = req[r].user /\ q.tenant = req[r].tenant /\ q.helper = req[r].helper
    BY Rows, Moved DEF SignupInv
  <1>2. req' = [req EXCEPT ![r] = q]
    BY DEF Goes
  <1> HIDE DEF q
  <1>3. RequestOK(q, users, tenants)
    BY <1>1 DEF SignupInv, RequestsOK, RequestOK
  <1>4. /\ UsersExtend(users, users') /\ TenantsExtend(tenants, tenants')
        /\ users' \in Seq(User) /\ tenants' \in Seq(Tenant)
    BY ExtendRefl DEF SignupInv, TypeOK
  <1>5. UsersServeTheirTenant'
    BY DEF SignupInv, UsersServeTheirTenant
  <1>6. \A x \in Requests : req'[x] = IF x = r THEN q ELSE req[x]
    BY <1>2 DEF SignupInv, TypeOK
  <1>7. OwnerIsLast'
    BY <1>1, <1>6, Unfinished DEF SignupInv, OwnerIsLast
  <1>8. q.tenant \in {req[r].tenant, Len(tenants) + 1}
    BY <1>1
  <1> QED BY <1>1, <1>2, <1>3, <1>4, <1>5, <1>7, <1>8, Keeps

\* A request that adds a user and moves on.
LEMMA InsertStep ==
  ASSUME SignupInv, NEW r \in Requests, NEW q \in Request, req' = [req EXCEPT ![r] = q],
         NEW e \in OwnerEmail \cup ({"support"} \X Nat), NEW role \in {"Owner", "Support"},
         users' = Append(users, NewUser(e, role)),
         UNCHANGED <<tenants, logins, sessions>>,
         req[r].step \notin {"ok", "error"}, q.tenant = req[r].tenant,
         RequestOK(q, users', tenants)
  PROVE  SignupInv'
  <1> DEFINE n == Len(users)
  <1>1. /\ users' \in Seq(User) /\ DOMAIN users' = 1..(n + 1)
        /\ \A u \in DOMAIN users : users'[u] = users[u]
        /\ users'[n + 1] = [email |-> e, role |-> role, tenant |-> Null]
        /\ UsersExtend(users, users')
    BY UserAdded DEF SignupInv
  <1>2. TenantsExtend(tenants, tenants') /\ tenants' \in Seq(Tenant)
    BY ExtendRefl DEF SignupInv, TypeOK
  <1>3. \A u \in DOMAIN users' : u \in DOMAIN users \/ u = n + 1
    BY <1>1, Rows DEF SignupInv
  <1> HIDE DEF n
  <1>4. \A u \in DOMAIN users' : users'[u].tenant # Null => u \in DOMAIN users /\ users'[u] = users[u]
    BY <1>1, <1>3
  <1>5. UsersServeTheirTenant'
    BY <1>4 DEF SignupInv, UsersServeTheirTenant
  <1>6. \A x \in Requests : req'[x] = IF x = r THEN q ELSE req[x]
    BY DEF SignupInv, TypeOK
  <1>7. OwnerIsLast'
    BY <1>4, <1>6, Unfinished DEF SignupInv, OwnerIsLast
  <1> QED BY <1>1, <1>2, <1>5, <1>7, Keeps

\* The owner's account, and what the request keeps of it.
LEMMA OwnerStep ==
  ASSUME SignupInv, NEW r \in Requests, req[r].step = "insert",
         users' = Append(users, NewUser(req[r].email, "Owner")),
         UNCHANGED <<tenants, logins, sessions>>,
         \/ req' = [req EXCEPT ![r] = [@ EXCEPT !.step = "tenant", !.user = Len(users) + 1]]
         \/ Goes(r, "error")
         \/ Goes(r, "tenant")
  PROVE  SignupInv'
  <1>1. /\ req[r] \in Request /\ req[r].email \in OwnerEmail /\ Len(users) \in Nat
        /\ RequestOK(req[r], users, tenants)
    BY Rows DEF SignupInv, Request, RequestsOK
  <1>2. /\ DOMAIN users' = 1..(Len(users) + 1)
        /\ \A u \in DOMAIN users : u \in DOMAIN users' /\ users'[u] = users[u]
        /\ users'[Len(users) + 1] = [email |-> req[r].email, role |-> "Owner", tenant |-> Null]
    BY <1>1, UserAdded DEF SignupInv, UsersExtend
  <1>3. ASSUME req' = [req EXCEPT ![r] = [@ EXCEPT !.step = "tenant", !.user = Len(users) + 1]]
        PROVE  SignupInv'
    <2>a. PICK k \in Nat : k = Len(users) + 1
      BY <1>1
    <2>b. PICK q : q = WithUser(req[r], "tenant", k)
      OBVIOUS
    <2>1. /\ q \in Request /\ q.step = "tenant" /\ q.user = k
          /\ q.email = req[r].email /\ q.tenant = req[r].tenant
      <3>1. req[r] \in Request /\ "tenant" \in Step
        BY <1>1, Steps
      <3> QED BY <2>b, <3>1, MovedWithUser
    <2>2. req' = [req EXCEPT ![r] = q]
      BY <1>3, <2>a, <2>b DEF WithUser
    <2>3. k = Len(users) + 1 /\ k \in DOMAIN users'
      BY <1>1, <1>2, <2>a
    <2>4. RequestOK(q, users', tenants)
      BY <1>1, <1>2, <2>1, <2>3 DEF RequestOK, After
    <2> QED BY <1>1, <2>1, <2>2, <2>4, InsertStep
  <1>4. ASSUME NEW s \in {"error", "tenant"}, Goes(r, s)
        PROVE  SignupInv'
    <2> DEFINE q == [req[r] EXCEPT !.step = s]
    <2>1. /\ q \in Request /\ q.step = s /\ q.email = req[r].email
          /\ q.user = req[r].user /\ q.tenant = req[r].tenant
      BY <1>1, <1>4, Steps, Moved
    <2>2. req' = [req EXCEPT ![r] = q]
      BY <1>4 DEF Goes
    <2> HIDE DEF q
    <2>3. RequestOK(q, users', tenants)
      BY <1>1, <1>2, <1>4, <2>1 DEF RequestOK, After
    <2> QED BY <1>1, <2>1, <2>2, <2>3, InsertStep
  <1> QED BY <1>3, <1>4

\* The support user's account.
LEMMA HelperStep ==
  ASSUME SignupInv, NEW r \in Requests, req[r].step = "helper",
         users' = Append(users, NewUser(SupportEmail(req[r].tenant), "Support")),
         UNCHANGED <<tenants, logins, sessions>>,
         \/ req' = [req EXCEPT ![r] = [@ EXCEPT !.step = "helperAssign", !.helper = Len(users) + 1]]
         \/ Goes(r, "seed")
  PROVE  SignupInv'
  <1> DEFINE e == SupportEmail(req[r].tenant)
  <1>1. /\ req[r] \in Request /\ e \in {"support"} \X Nat /\ Len(users) \in Nat
        /\ RequestOK(req[r], users, tenants)
    BY Rows DEF SignupInv, Request, RequestsOK, SupportEmail
  <1>2. /\ DOMAIN users' = 1..(Len(users) + 1)
        /\ \A u \in DOMAIN users : u \in DOMAIN users' /\ users'[u] = users[u]
        /\ users'[Len(users) + 1] = [email |-> e, role |-> "Support", tenant |-> Null]
    BY <1>1, UserAdded DEF SignupInv, UsersExtend
  <1>3. ASSUME req' = [req EXCEPT ![r] = [@ EXCEPT !.step = "helperAssign", !.helper = Len(users) + 1]]
        PROVE  SignupInv'
    <2>a. PICK k \in Nat : k = Len(users) + 1
      BY <1>1
    <2>b. PICK q : q = WithHelper(req[r], "helperAssign", k)
      OBVIOUS
    <2>1. /\ q \in Request /\ q.step = "helperAssign" /\ q.helper = k
          /\ q.email = req[r].email /\ q.tenant = req[r].tenant /\ q.user = req[r].user
      <3>1. req[r] \in Request /\ "helperAssign" \in Step
        BY <1>1, Steps
      <3> QED BY <2>b, <3>1, MovedWithHelper
    <2>2. req' = [req EXCEPT ![r] = q]
      BY <1>3, <2>a, <2>b DEF WithHelper
    <2>3. k = Len(users) + 1 /\ k \in DOMAIN users'
      BY <1>1, <1>2, <2>a
    <2>4. RequestOK(q, users', tenants)
      BY <1>1, <1>2, <2>1, <2>3 DEF RequestOK, After
    <2> HIDE DEF e
    <2> QED BY <1>1, <2>1, <2>2, <2>4, InsertStep DEF e
  <1>4. ASSUME Goes(r, "seed")
        PROVE  SignupInv'
    <2> DEFINE q == [req[r] EXCEPT !.step = "seed"]
    <2>1. /\ q \in Request /\ q.step = "seed" /\ q.email = req[r].email
          /\ q.user = req[r].user /\ q.tenant = req[r].tenant
      BY Rows, Steps, Moved DEF SignupInv
    <2>2. req' = [req EXCEPT ![r] = q]
      BY <1>4 DEF Goes
    <2> HIDE DEF q
    <2>3. RequestOK(q, users', tenants)
      BY <1>1, <1>2, <2>1 DEF RequestOK, After
    <2> QED BY <1>1, <2>1, <2>2, <2>3, InsertStep
  <1> QED BY <1>3, <1>4

LEMMA TenantStep ==
  ASSUME SignupInv, NEW r \in Requests, SaveTenant(r)
  PROVE  SignupInv'
  <1> DEFINE n == Len(tenants)
             new == [owner |-> req[r].user, active |-> TRUE]
  <1>a. PICK k \in Nat : k = n + 1
    BY Rows DEF SignupInv
  <1>b. PICK q : q = WithTenant(req[r], "helper", k)
    OBVIOUS
  <1>1. /\ req[r] \in Request /\ n \in Nat /\ DOMAIN tenants = 1..n
        /\ RequestOK(req[r], users, tenants) /\ tenants \in Seq(Tenant) /\ users \in Seq(User)
    BY Rows DEF SignupInv, RequestsOK, TypeOK
  <1>2. new \in Tenant /\ new.owner = req[r].user
    BY <1>1 DEF Request, Tenant
  <1>3. /\ q \in Request /\ q.step = "helper" /\ q.tenant = k
        /\ q.email = req[r].email /\ q.user = req[r].user
    <2>1. req[r] \in Request /\ "helper" \in Step
      BY <1>1, Steps
    <2> QED BY <1>b, <2>1, MovedWithTenant
  <1>4. /\ tenants' = Append(tenants, new) /\ req' = [req EXCEPT ![r] = q]
        /\ UNCHANGED <<users, logins, sessions>>
    BY <1>a, <1>b DEF SaveTenant, WithTenant
  <1> HIDE DEF new
  <1>5. /\ tenants' \in Seq(Tenant) /\ Len(tenants') = n + 1
        /\ \A t \in 1..n : tenants'[t] = tenants[t]
        /\ tenants'[n + 1] = new
    BY <1>1, <1>2, <1>4, AppendProperties
  <1>6. /\ DOMAIN tenants' = 1..(n + 1) /\ n + 1 \in 1..(n + 1) /\ n <= n + 1
        /\ n + 1 \in 0..(n + 1)
        /\ \A t \in 1..n : t \in 1..(n + 1) /\ t # n + 1
    BY <1>1, <1>5
  <1>7. TenantsExtend(tenants, tenants') /\ UsersExtend(users, users')
    BY <1>1, <1>4, <1>5, <1>6, ExtendRefl DEF TenantsExtend
  <1>8. RequestOK(q, users, tenants')
    BY <1>a, <1>1, <1>2, <1>3, <1>5, <1>6 DEF RequestOK, After
  <1>9. UsersServeTheirTenant'
    BY <1>4, <1>7 DEF SignupInv, UsersServeTheirTenant, TenantsExtend
  <1>10. \A x \in Requests : req'[x] = IF x = r THEN q ELSE req[x]
    BY <1>4 DEF SignupInv, TypeOK
  <1>11. \A u \in DOMAIN users : users[u].tenant # Null => users[u].tenant # n + 1
    BY <1>1, <1>6 DEF SignupInv, UsersServeTheirTenant
  <1>12. OwnerIsLast'
    BY <1>a, <1>3, <1>4, <1>10, <1>11 DEF SignupInv, OwnerIsLast
  <1> HIDE DEF n
  <1> QED BY <1>a, <1>1, <1>3, <1>4, <1>5, <1>7, <1>8, <1>9, <1>12, Keeps DEF n

\* The tenant of the support user.
LEMMA AssignHelperStep ==
  ASSUME SignupInv, NEW r \in Requests, AssignHelper(r)
  PROVE  SignupInv'
  <1> DEFINE h == req[r].helper
             t == req[r].tenant
             q == [req[r] EXCEPT !.step = "seed"]
  <1>1. /\ h \in Nat /\ t \in Nat /\ MayAssign(h) /\ users' = GivenTenant(h, t)
        /\ UNCHANGED <<tenants, logins, sessions>> /\ req[r].step = "helperAssign"
        /\ RequestOK(req[r], users, tenants)
    BY Rows DEF SignupInv, Request, AssignHelper, RequestsOK
  <1>2. /\ users[h].role = "Support" /\ users[h].email = SupportEmail(t)
        /\ t \in DOMAIN tenants
    BY <1>1 DEF RequestOK, After
  <1> HIDE DEF h, t
  <1>3. /\ users' \in Seq(User) /\ DOMAIN users' = DOMAIN users /\ h \in DOMAIN users
        /\ \A v \in DOMAIN users \ {h} : users'[v] = users[v]
        /\ users'[h].role = users[h].role /\ users'[h].email = users[h].email
        /\ users'[h].tenant = t
        /\ UsersExtend(users, users')
    BY <1>1, UserGiven DEF SignupInv
  <1>4. UsersServeTheirTenant'
    BY <1>1, <1>2, <1>3 DEF SignupInv, UsersServeTheirTenant
  <1>5. /\ q \in Request /\ q.step = "seed" /\ q.email = req[r].email
        /\ q.user = req[r].user /\ q.tenant = req[r].tenant
    BY Rows, Steps, Moved DEF SignupInv
  <1>6. req' = [req EXCEPT ![r] = q]
    BY DEF AssignHelper, Goes
  <1> HIDE DEF q
  <1>7. RequestOK(q, users', tenants)
    BY <1>1, <1>3, <1>5 DEF RequestOK, After, UsersExtend
  <1>8. \A x \in Requests : req'[x] = IF x = r THEN q ELSE req[x]
    BY <1>6 DEF SignupInv, TypeOK
  <1>9. OwnerIsLast'
    <2>1. \A u \in DOMAIN users' : users'[u].role = "Owner" => u \in DOMAIN users /\ users'[u] = users[u]
      BY <1>2, <1>3
    <2> QED BY <1>1, <1>5, <1>8, <2>1, Unfinished DEF SignupInv, OwnerIsLast
  <1>10. TenantsExtend(tenants, tenants') /\ tenants' \in Seq(Tenant)
    BY <1>1, ExtendRefl DEF SignupInv, TypeOK
  <1> QED BY <1>1, <1>3, <1>4, <1>5, <1>6, <1>7, <1>9, <1>10, Keeps

\* The tenant of the owner, whether or not the answer arrives.
LEMMA AssignOwnerStep ==
  ASSUME SignupInv, NEW r \in Requests, AssignOwner(r) \/ AssignOwnerUnanswered(r)
  PROVE  SignupInv'
  <1> DEFINE w == req[r].user
             t == req[r].tenant
  <1>1. /\ w \in Nat /\ t \in Nat /\ MayAssign(w) /\ users' = GivenTenant(w, t)
        /\ UNCHANGED <<tenants, logins, sessions>> /\ req[r].step = "assign"
        /\ RequestOK(req[r], users, tenants)
    BY Rows DEF SignupInv, Request, AssignOwner, AssignOwnerUnanswered, RequestsOK
  <1>2. PICK s \in {"ok", "error"} : Goes(r, s)
    BY DEF AssignOwner, AssignOwnerUnanswered
  <1> DEFINE q == [req[r] EXCEPT !.step = s]
  <1>3. /\ q \in Request /\ q.step = s /\ q.email = req[r].email
        /\ q.user = req[r].user /\ q.tenant = req[r].tenant
    BY Rows, Steps, Moved DEF SignupInv
  <1>4. req' = [req EXCEPT ![r] = q]
    BY <1>2 DEF Goes
  <1> HIDE DEF q
  <1>5. w \in DOMAIN users /\ w # NoId
    BY <1>1, Rows DEF SignupInv, MayAssign, NoId
  <1>6. /\ users[w].role = "Owner" /\ users[w].email = req[r].email
        /\ t \in DOMAIN tenants /\ tenants[t].owner = w
    BY <1>1, <1>5 DEF RequestOK, After
  <1>7. /\ users' \in Seq(User) /\ DOMAIN users' = DOMAIN users
        /\ \A v \in DOMAIN users \ {w} : users'[v] = users[v]
        /\ users'[w].role = users[w].role /\ users'[w].email = users[w].email
        /\ users'[w].tenant = t
        /\ UsersExtend(users, users')
    <2> HIDE DEF w, t
    <2> QED BY <1>1, UserGiven DEF SignupInv
  <1>8. RequestOK(q, users', tenants)
    BY <1>1, <1>3, <1>5, <1>7 DEF RequestOK, After, UsersExtend
  <1> HIDE DEF w, t
  <1>9. UsersServeTheirTenant'
    BY <1>1, <1>6, <1>7 DEF SignupInv, UsersServeTheirTenant
  <1>10. \A x \in Requests : req'[x] = IF x = r THEN q ELSE req[x]
    BY <1>4 DEF SignupInv, TypeOK
  <1>11. OwnerIsLast'
    <2>1. t # NoId
      BY <1>6, Rows DEF SignupInv, NoId
    <2>2. \A x \in Requests : req'[x].tenant = t => x = r
      BY <1>3, <1>10, <2>1 DEF SignupInv, TenantsApart, t
    <2>3. ASSUME NEW u \in DOMAIN users, u # w, users[u].role = "Owner", users[u].tenant # Null,
                 NEW x \in Requests, req'[x].tenant = users[u].tenant
          PROVE  req'[x].step \in {"ok", "error"}
      <3>1. x # r
        BY <1>1, <1>3, <1>10, <2>3, Unfinished
      <3> QED BY <1>10, <2>3, <3>1 DEF SignupInv, OwnerIsLast
    <2> QED BY <1>2, <1>3, <1>7, <1>10, <2>2, <2>3 DEF OwnerIsLast
  <1>12. TenantsExtend(tenants, tenants') /\ tenants' \in Seq(Tenant)
    BY <1>1, ExtendRefl DEF SignupInv, TypeOK
  <1> QED BY <1>1, <1>3, <1>4, <1>7, <1>8, <1>9, <1>11, <1>12, Keeps

LEMMA ActiveStep ==
  ASSUME SignupInv, NEW t \in DOMAIN tenants, NEW active \in BOOLEAN, SetTenantActive(t, active)
  PROVE  SignupInv'
  <1> DEFINE row == [tenants[t] EXCEPT !.active = active]
  <1>1. tenants[t] \in Tenant /\ tenants \in Seq(Tenant) /\ t \in 1..Len(tenants)
    BY Rows DEF SignupInv, TypeOK
  <1>2. row \in Tenant /\ row.owner = tenants[t].owner
    BY <1>1 DEF Tenant
  <1>3. tenants' = [tenants EXCEPT ![t] = row] /\ UNCHANGED <<users, req, logins, sessions>>
    BY DEF SetTenantActive
  <1> HIDE DEF row
  <1>4. tenants' \in Seq(Tenant) /\ Len(tenants') = Len(tenants)
    BY <1>1, <1>2, <1>3, ExceptSeq
  <1>5. /\ DOMAIN tenants' = DOMAIN tenants
        /\ \A x \in DOMAIN tenants : tenants'[x].owner = tenants[x].owner
    BY <1>1, <1>2, <1>3
  <1>6. TypeOK'
    BY <1>3, <1>4 DEF SignupInv, TypeOK
  <1>7. RequestsOK'
    BY <1>3, <1>4, <1>5 DEF SignupInv, RequestsOK, RequestOK
  <1>8. UsersServeTheirTenant'
    BY <1>3, <1>5 DEF SignupInv, UsersServeTheirTenant
  <1>9. TenantsApart' /\ OwnerIsLast' /\ SignInsOK'
    BY <1>3 DEF SignupInv, TenantsApart, OwnerIsLast, SignInsOK
  <1> QED BY <1>6, <1>7, <1>8, <1>9 DEF SignupInv

LEMMA LoginStep ==
  ASSUME SignupInv, Login
  PROVE  SignupInv'
  <1>1. UNCHANGED <<users, tenants, req>>
    BY DEF Login, ReadUser, IssueToken, LoginRefused
  <1>2. /\ logins' \subseteq Session /\ sessions' \subseteq Session
        /\ SignInsOK'
    <2>1. ASSUME NEW u \in DOMAIN users, ReadUser(u)
          PROVE  /\ logins' \subseteq Session /\ sessions' \subseteq Session
                 /\ SignInsOK'
      <3> DEFINE l == [user |-> u, tenant |-> users[u].tenant]
      <3>1. u \in Nat /\ users[u] \in User /\ users[u].tenant # Null
        BY <2>1, Rows DEF SignupInv, ReadUser
      <3>2. l \in Session
        BY <3>1 DEF Session, User
      <3>3. logins' = logins \cup {l} /\ sessions' = sessions
        BY <2>1 DEF ReadUser
      <3>4. l.user = u /\ l.tenant = users[u].tenant
        OBVIOUS
      <3> HIDE DEF l
      <3>5. SignInsOK'
        BY <1>1, <3>1, <3>3, <3>4 DEF SignupInv, SignInsOK
      <3> QED BY <3>2, <3>3, <3>5 DEF SignupInv, TypeOK
    <2>2. ASSUME NEW l \in logins, IssueToken(l) \/ LoginRefused(l)
          PROVE  /\ logins' \subseteq Session /\ sessions' \subseteq Session
                 /\ SignInsOK'
      <3>1. logins' \subseteq logins /\ sessions' \subseteq sessions \cup logins
        BY <2>2 DEF IssueToken, LoginRefused
      <3> QED BY <1>1, <3>1 DEF SignupInv, SignInsOK, TypeOK
    <2> QED BY <2>1, <2>2 DEF Login
  <1>3. TypeOK'
    BY <1>1, <1>2 DEF SignupInv, TypeOK
  <1>4. RequestsOK' /\ TenantsApart' /\ UsersServeTheirTenant' /\ OwnerIsLast'
    BY <1>1 DEF SignupInv, RequestsOK, TenantsApart, UsersServeTheirTenant, OwnerIsLast
  <1> QED BY <1>2, <1>3, <1>4 DEF SignupInv

LEMMA SignupStep == SignupInv /\ [Next]_vars => SignupInv'
  <1> SUFFICES ASSUME SignupInv, [Next]_vars PROVE SignupInv'
    OBVIOUS
  <1>1. CASE UNCHANGED vars
    BY <1>1 DEF vars, SignupInv, TypeOK, RequestsOK, TenantsApart, UsersServeTheirTenant,
                OwnerIsLast, SignInsOK
  <1>2. ASSUME NEW r \in Requests,
               \/ CheckOwner(r) \/ InsertOwnerTaken(r) \/ OwnerFails(r) \/ SaveTenantFails(r)
               \/ HelperFails(r) \/ Seed(r) \/ AssignOwnerRefused(r) \/ AssignOwnerFails(r)
        PROVE  SignupInv'
    <2>1. PICK s \in Step \ {"ok", "helperAssign"} :
             /\ Goes(r, s) /\ UNCHANGED <<users, tenants, logins, sessions>>
             /\ req[r].step \notin {"ok", "error"}
             /\ s \in After => req[r].step \in After
      BY <1>2 DEF CheckOwner, InsertOwnerTaken, OwnerFails, SaveTenantFails, HelperFails, Seed,
                  AssignOwnerRefused, AssignOwnerFails, Step, After
    <2> QED BY <2>1, MoveStep
  <1>3. ASSUME NEW r \in Requests,
               InsertOwner(r) \/ InsertOwnerUnanswered(r) \/ InsertOwnerEmptyReply(r)
        PROVE  SignupInv'
    BY <1>3, OwnerStep DEF InsertOwner, InsertOwnerUnanswered, InsertOwnerEmptyReply
  <1>4. ASSUME NEW r \in Requests, InsertHelper(r) \/ InsertHelperUnanswered(r)
        PROVE  SignupInv'
    BY <1>4, HelperStep DEF InsertHelper, InsertHelperUnanswered
  <1> QED
    BY <1>1, <1>2, <1>3, <1>4, TenantStep, AssignHelperStep, AssignOwnerStep, ActiveStep, LoginStep
    DEF Next, Progress, CreateOwner, CreateHelper

\* An owner with a tenant owns that tenant, and a user of the support role with
\* a tenant is the one whose address names it: two signups never exchange them.
THEOREM ServeCorrect == Spec => []UsersServeTheirTenant
  <1>1. SignupInv => UsersServeTheirTenant
    BY DEF SignupInv
  <1> QED BY <1>1, SignupInit, SignupStep, PTL DEF Spec

\* A signup that answered success left an owner that signs in to the tenant made
\* for it, even when the support user and the genres failed.
THEOREM AnsweredCorrect == Spec => []AnsweredOwnerHasPortal
  <1>1. SignupInv => AnsweredOwnerHasPortal
    BY DEF SignupInv, RequestsOK, RequestOK, After, AnsweredOwnerHasPortal
  <1> QED BY <1>1, SignupInit, SignupStep, PTL DEF Spec

\* Nobody signs in as the owner of a tenant while its support user or its
\* genres are still being made: the assignment comes last.
THEOREM HalfMadeCorrect == Spec => []NoOwnerInHalfMadeTenant
  <1>1. SignupInv => NoOwnerInHalfMadeTenant
    BY DEF SignupInv, SignInsOK, OwnerIsLast, NoOwnerInHalfMadeTenant
  <1> QED BY <1>1, SignupInit, SignupStep, PTL DEF Spec

----------------------------------------------------------------------------
(* Signup implements Portal.                                               *)

\* A user is added only under an address that nobody has.
LEMMA ApartStep == SignupInv /\ AddressesApart /\ [Next]_vars => AddressesApart'
  <1> SUFFICES ASSUME SignupInv, AddressesApart, [Next]_vars PROVE AddressesApart'
    OBVIOUS
  <1>1. CASE users' = users
    BY <1>1 DEF AddressesApart
  <1>2. ASSUME NEW e \in OwnerEmail \cup ({"support"} \X Nat), NEW role \in {"Owner", "Support"},
               ~EmailIsTaken(e), users' = Append(users, NewUser(e, role))
        PROVE  AddressesApart'
    <2> DEFINE n == Len(users)
    <2>1. /\ DOMAIN users' = 1..(n + 1)
          /\ \A u \in DOMAIN users : users'[u] = users[u]
          /\ users'[n + 1] = [email |-> e, role |-> role, tenant |-> Null]
          /\ n \in Nat /\ DOMAIN users = 1..n
      BY <1>2, UserAdded, Rows DEF SignupInv
    <2>2. \A u \in DOMAIN users' : u \in DOMAIN users \/ u = n + 1
      BY <2>1
    <2>3. users'[n + 1].email = e
      BY <2>1
    <2> HIDE DEF n
    <2> QED BY <1>2, <2>1, <2>2, <2>3 DEF AddressesApart, EmailIsTaken
  <1>3. ASSUME NEW u \in Nat, MayAssign(u), NEW t \in Nat, users' = GivenTenant(u, t)
        PROVE  AddressesApart'
    <2>1. /\ DOMAIN users' = DOMAIN users
          /\ \A v \in DOMAIN users : users'[v].email = users[v].email
      BY <1>3, UserGiven DEF SignupInv
    <2> QED BY <2>1 DEF AddressesApart
  <1>4. ASSUME NEW r \in Requests, Progress(r) PROVE AddressesApart'
    <2>1. /\ req[r].email \in OwnerEmail /\ SupportEmail(req[r].tenant) \in {"support"} \X Nat
          /\ req[r].user \in Nat /\ req[r].helper \in Nat /\ req[r].tenant \in Nat
      BY Rows DEF SignupInv, Request, SupportEmail
    <2>2. CASE CreateOwner(r)
      BY <1>1, <1>2, <2>1, <2>2
      DEF CreateOwner, InsertOwner, InsertOwnerTaken, OwnerFails, InsertOwnerUnanswered,
          InsertOwnerEmptyReply
    <2>3. CASE CreateHelper(r)
      BY <1>1, <1>2, <1>3, <2>1, <2>3
      DEF CreateHelper, InsertHelper, InsertHelperUnanswered, AssignHelper, HelperFails
    <2>4. CASE AssignOwner(r) \/ AssignOwnerUnanswered(r)
      BY <1>3, <2>1, <2>4 DEF AssignOwner, AssignOwnerUnanswered
    <2>5. CASE \/ SaveTenant(r) \/ SaveTenantFails(r) \/ Seed(r)
               \/ AssignOwnerRefused(r) \/ AssignOwnerFails(r)
      BY <1>1, <2>5 DEF SaveTenant, SaveTenantFails, Seed, AssignOwnerRefused, AssignOwnerFails
    <2> QED BY <1>4, <2>2, <2>3, <2>4, <2>5 DEF Progress
  <1>5. ASSUME NEW r \in Requests, CheckOwner(r) PROVE AddressesApart'
    BY <1>1, <1>5 DEF CheckOwner
  <1>6. ASSUME NEW t \in DOMAIN tenants, NEW active \in BOOLEAN, SetTenantActive(t, active)
        PROVE  AddressesApart'
    BY <1>1, <1>6 DEF SetTenantActive
  <1>7. CASE Login
    BY <1>1, <1>7 DEF Login, ReadUser, IssueToken, LoginRefused
  <1>8. CASE UNCHANGED vars
    BY <1>1, <1>8 DEF vars
  <1> QED
    BY <1>4, <1>5, <1>6, <1>7, <1>8 DEF Next

\* What Portal sees.
Portals == [e \in OwnerEmail |-> Standing(e)]

Confirmed == {req[r].email : r \in {q \in Requests : req[q].step = "ok"}}

\* A step that is none of Portal's.
LEMMA Unseen ==
  ASSUME \A e \in OwnerEmail : Standing(e)' = Standing(e), Confirmed' = Confirmed
  PROVE  [Promise!Next]_(Promise!vars)
  <1>1. Portals' = Portals
    BY DEF Portals
  <1> QED BY <1>1 DEF Promise!vars, Portals, Confirmed

\* Standings depend on the users alone, and what was answered on the requests.
LEMMA SameUsers ==
  ASSUME users' = users, NEW e
  PROVE  Standing(e)' = Standing(e)
  BY DEF Standing, EmailIsTaken

\* An owner's account reserves an address that was free.
LEMMA ReserveStep ==
  ASSUME SignupInv, SignupInv', NEW e \in OwnerEmail, ~EmailIsTaken(e), Confirmed' = Confirmed,
         users' = Append(users, NewUser(e, "Owner"))
  PROVE  [Promise!Next]_(Promise!vars)
  <1> DEFINE n == Len(users)
  <1>1. /\ DOMAIN users' = 1..(n + 1)
        /\ \A u \in DOMAIN users : users'[u] = users[u]
        /\ users'[n + 1] = [email |-> e, role |-> "Owner", tenant |-> Null]
        /\ n \in Nat /\ DOMAIN users = 1..n
    BY UserAdded, Rows DEF SignupInv
  <1>2. /\ \A u \in DOMAIN users' : u \in DOMAIN users \/ u = n + 1
        /\ n + 1 \in DOMAIN users'
        /\ \A u \in DOMAIN users : u \in DOMAIN users'
    BY <1>1
  <1>3. users'[n + 1].email = e /\ users'[n + 1].tenant = Null
    BY <1>1
  <1>4. \A u \in DOMAIN users : users'[u] = users[u] /\ users[u].email # e
    BY <1>1 DEF EmailIsTaken
  <1> HIDE DEF n
  <1>5. Standing(e) = "free" /\ Standing(e)' = "reserved"
    BY <1>2, <1>3, <1>4 DEF Standing, EmailIsTaken
  <1>6. \A x \in OwnerEmail : x # e => Standing(x)' = Standing(x)
    BY <1>2, <1>3, <1>4 DEF Standing, EmailIsTaken
  <1>7. /\ Portals[e] = "free"
        /\ Portals' = [Portals EXCEPT ![e] = "reserved"]
    BY <1>5, <1>6 DEF Portals
  <1>8. Promise!Reserve(e)
    BY <1>7 DEF Promise!Reserve, Portals, Confirmed
  <1> QED BY <1>8 DEF Promise!Next

\* The account of a support user, and its tenant, are nothing to an owner.
LEMMA NotOwners == \A t \in Nat \ {0} : SupportEmail(t) \notin OwnerEmail
  BY DEF SupportEmail, OwnerEmail

LEMMA HelperUnseen ==
  ASSUME SignupInv, NEW e, e \notin OwnerEmail, e \in {"support"} \X Nat, Confirmed' = Confirmed,
         users' = Append(users, NewUser(e, "Support"))
  PROVE  [Promise!Next]_(Promise!vars)
  <1> DEFINE n == Len(users)
  <1>1. /\ DOMAIN users' = 1..(n + 1)
        /\ \A u \in DOMAIN users : users'[u] = users[u]
        /\ users'[n + 1] = [email |-> e, role |-> "Support", tenant |-> Null]
        /\ n \in Nat /\ DOMAIN users = 1..n
    BY UserAdded, Rows DEF SignupInv
  <1>2. /\ \A u \in DOMAIN users' : u \in DOMAIN users \/ u = n + 1
        /\ \A u \in DOMAIN users : u \in DOMAIN users'
        /\ users'[n + 1].email = e
    BY <1>1
  <1> HIDE DEF n
  <1>3. \A x \in OwnerEmail : Standing(x)' = Standing(x)
    BY <1>1, <1>2 DEF Standing, EmailIsTaken
  <1> QED BY <1>3, Unseen

\* A user of the support role that is given its tenant.
LEMMA AssignHelperUnseen ==
  ASSUME SignupInv, NEW r \in Requests, AssignHelper(r), Confirmed' = Confirmed
  PROVE  [Promise!Next]_(Promise!vars)
  <1> DEFINE h == req[r].helper
             t == req[r].tenant
  <1>1. /\ h \in Nat /\ t \in Nat /\ MayAssign(h) /\ users' = GivenTenant(h, t)
        /\ req[r].step = "helperAssign" /\ RequestOK(req[r], users, tenants)
    BY Rows DEF SignupInv, Request, AssignHelper, RequestsOK
  <1>2. users[h].email = SupportEmail(t) /\ t \in DOMAIN tenants
    BY <1>1 DEF RequestOK, After
  <1>3. users[h].email \notin OwnerEmail
    <2>1. t \in Nat \ {0}
      BY <1>2, Rows DEF SignupInv
    <2> HIDE DEF t, h
    <2> QED BY <1>2, <2>1, NotOwners
  <1> HIDE DEF h, t
  <1>4. /\ DOMAIN users' = DOMAIN users /\ h \in DOMAIN users
        /\ \A v \in DOMAIN users \ {h} : users'[v] = users[v]
        /\ users'[h].email = users[h].email
    BY <1>1, UserGiven DEF SignupInv
  <1>5. \A x \in OwnerEmail : Standing(x)' = Standing(x)
    BY <1>3, <1>4 DEF Standing, EmailIsTaken
  <1> QED BY <1>5, Unseen

\* The owner that is given its tenant opens the portal of its address, unless
\* that is open.
LEMMA OpenStep ==
  ASSUME SignupInv, AddressesApart, NEW r \in Requests, AssignOwner(r) \/ AssignOwnerUnanswered(r)
  PROVE  [Promise!Next]_(Promise!vars)
  <1> PICK w, t, e : w = req[r].user /\ t = req[r].tenant /\ e = req[r].email
    OBVIOUS
  <1>1. /\ w \in Nat /\ t \in Nat /\ t # Null /\ MayAssign(w) /\ users' = GivenTenant(w, t)
        /\ req[r].step = "assign" /\ RequestOK(req[r], users, tenants) /\ e \in OwnerEmail
    BY Rows DEF SignupInv, Request, AssignOwner, AssignOwnerUnanswered, RequestsOK, Null
  <1>2. w \in DOMAIN users /\ users[w].email = e
    BY <1>1, Rows DEF SignupInv, MayAssign, RequestOK, NoId
  <1>3. Confirmed' \in {Confirmed, Confirmed \cup {e}}
    <2>1. PICK s \in {"ok", "error"} : Goes(r, s)
      BY DEF AssignOwner, AssignOwnerUnanswered
    <2>2. PICK q : q = [req[r] EXCEPT !.step = s]
      OBVIOUS
    <2>3. q.step = s /\ q.email = e
      BY <2>1, <2>2, Rows, Steps, Moved DEF SignupInv
    <2>4. \A x \in Requests : req'[x] = IF x = r THEN q ELSE req[x]
      BY <2>1, <2>2 DEF Goes, SignupInv, TypeOK
    <2>5. CASE s = "ok"
      <3>1. \A c : c \in Confirmed' <=> c \in Confirmed \/ c = e
        BY <1>1, <2>3, <2>4, <2>5 DEF Confirmed
      <3> QED BY <3>1
    <2>6. CASE s = "error"
      <3>1. \A c : c \in Confirmed' <=> c \in Confirmed
        BY <1>1, <2>3, <2>4, <2>6 DEF Confirmed
      <3> QED BY <3>1
    <2> QED BY <2>5, <2>6
  <1>4. /\ DOMAIN users' = DOMAIN users
        /\ \A v \in DOMAIN users \ {w} : users'[v] = users[v]
        /\ users'[w].email = users[w].email /\ users'[w].tenant = t /\ users[w].tenant = Null
    <2> QED BY <1>1, UserGiven DEF SignupInv
  <1>5. \A x \in OwnerEmail : x # e => Standing(x)' = Standing(x)
    BY <1>2, <1>4 DEF Standing, EmailIsTaken
  <1>6. Standing(e)' = "open" /\ Standing(e) # "free"
    BY <1>1, <1>2, <1>4 DEF Standing, EmailIsTaken
  <1>7. Standing(e) = "reserved"
    BY <1>2, <1>4, <1>6 DEF Standing, AddressesApart
  <1>8. /\ Portals[e] = "reserved"
        /\ Portals' = [Portals EXCEPT ![e] = "open"]
    BY <1>1, <1>5, <1>6, <1>7 DEF Portals
  <1>9. Promise!Open(e)
    BY <1>3, <1>8 DEF Promise!Open, Portals, Confirmed
  <1> QED BY <1>1, <1>9 DEF Promise!Next

LEMMA PortalInit == Init => Promise!Init
  <1> SUFFICES ASSUME Init PROVE Promise!Init
    OBVIOUS
  <1>1. DOMAIN users = {}
    BY DEF Init
  <1>2. \A e \in OwnerEmail : Standing(e) = "free"
    BY <1>1 DEF Standing, EmailIsTaken
  <1>3. \A r \in Requests : req[r].step # "ok"
    BY DEF Init
  <1>4. {req[r].email : r \in {q \in Requests : req[q].step = "ok"}} = {}
    BY <1>3
  <1> QED BY <1>2, <1>4 DEF Promise!Init

LEMMA PortalStep ==
  SignupInv /\ SignupInv' /\ AddressesApart /\ [Next]_vars => [Promise!Next]_(Promise!vars)
  <1> SUFFICES ASSUME SignupInv, SignupInv', AddressesApart, [Next]_vars
               PROVE  [Promise!Next]_(Promise!vars)
    OBVIOUS
  <1>1. ASSUME users' = users, Confirmed' = Confirmed PROVE [Promise!Next]_(Promise!vars)
    BY <1>1, SameUsers, Unseen
  <1>2. ASSUME NEW r \in Requests, NEW q, req' = [req EXCEPT ![r] = q],
               q.step # "ok", req[r].step # "ok"
        PROVE  Confirmed' = Confirmed
    <2>1. \A x \in Requests : req'[x] = IF x = r THEN q ELSE req[x]
      BY <1>2 DEF SignupInv, TypeOK
    <2> QED BY <1>2, <2>1 DEF Confirmed
  <1>3. ASSUME NEW r \in Requests, NEW s \in Step \ {"ok"}, Goes(r, s), req[r].step # "ok"
        PROVE  Confirmed' = Confirmed
    <2>1. PICK q : q = [req[r] EXCEPT !.step = s]
      OBVIOUS
    <2>2. q.step = s
      BY <2>1, Rows, Moved DEF SignupInv
    <2> QED BY <1>2, <1>3, <2>1, <2>2 DEF Goes
  <1>4. ASSUME NEW r \in Requests,
               \/ CheckOwner(r) \/ InsertOwnerTaken(r) \/ OwnerFails(r) \/ SaveTenantFails(r)
               \/ HelperFails(r) \/ Seed(r) \/ AssignOwnerRefused(r) \/ AssignOwnerFails(r)
        PROVE  [Promise!Next]_(Promise!vars)
    <2>1. /\ users' = users /\ req[r].step # "ok"
          /\ \E s \in Step \ {"ok"} : Goes(r, s)
      BY <1>4 DEF CheckOwner, InsertOwnerTaken, OwnerFails, SaveTenantFails, HelperFails, Seed,
                  AssignOwnerRefused, AssignOwnerFails, Step
    <2> QED BY <1>1, <1>3, <2>1
  <1>5. ASSUME NEW r \in Requests, SaveTenant(r) PROVE [Promise!Next]_(Promise!vars)
    <2>1. PICK k \in Nat : k = Len(tenants) + 1
      BY Rows DEF SignupInv
    <2>2. PICK q : q = WithTenant(req[r], "helper", k)
      OBVIOUS
    <2>3. req' = [req EXCEPT ![r] = q] /\ users' = users /\ req[r].step = "tenant"
      BY <1>5, <2>1, <2>2 DEF SaveTenant, WithTenant
    <2>4. q.step = "helper"
      <3>1. req[r] \in Request /\ "helper" \in Step
        BY Rows, Steps DEF SignupInv
      <3> QED BY <2>2, <3>1, MovedWithTenant
    <2> QED BY <1>1, <1>2, <2>3, <2>4
  <1>6. ASSUME NEW r \in Requests,
               InsertOwner(r) \/ InsertOwnerUnanswered(r) \/ InsertOwnerEmptyReply(r)
        PROVE  [Promise!Next]_(Promise!vars)
    <2>1. /\ req[r] \in Request /\ req[r].email \in OwnerEmail /\ ~EmailIsTaken(req[r].email)
          /\ users' = Append(users, NewUser(req[r].email, "Owner")) /\ req[r].step = "insert"
      BY <1>6, Rows DEF SignupInv, Request, InsertOwner, InsertOwnerUnanswered, InsertOwnerEmptyReply
    <2>2. CASE InsertOwner(r)
      <3>1. PICK k \in Nat : k = Len(users) + 1
        BY Rows DEF SignupInv
      <3>2. PICK q : q = WithUser(req[r], "tenant", k)
        OBVIOUS
      <3>3. req' = [req EXCEPT ![r] = q]
        BY <2>2, <3>1, <3>2 DEF InsertOwner, WithUser
      <3>4. q.step = "tenant"
        <4>1. "tenant" \in Step
          BY Steps
        <4> QED BY <2>1, <3>2, <4>1, MovedWithUser
      <3>5. Confirmed' = Confirmed
        BY <1>2, <2>1, <3>3, <3>4
      <3> QED BY <2>1, <3>5, ReserveStep
    <2>3. CASE InsertOwnerUnanswered(r) \/ InsertOwnerEmptyReply(r)
      <3>1. \E s \in Step \ {"ok"} : Goes(r, s)
        BY <2>3 DEF InsertOwnerUnanswered, InsertOwnerEmptyReply, Step
      <3>2. Confirmed' = Confirmed
        BY <1>3, <2>1, <3>1
      <3> QED BY <2>1, <3>2, ReserveStep
    <2> QED BY <1>6, <2>2, <2>3
  <1>7. ASSUME NEW r \in Requests, InsertHelper(r) \/ InsertHelperUnanswered(r)
        PROVE  [Promise!Next]_(Promise!vars)
    <2> DEFINE e == SupportEmail(req[r].tenant)
    <2>1. /\ req[r] \in Request /\ e \in {"support"} \X Nat /\ req[r].step = "helper"
          /\ users' = Append(users, NewUser(e, "Support"))
      BY <1>7, Rows DEF SignupInv, Request, SupportEmail, InsertHelper, InsertHelperUnanswered
    <2>2. e \notin OwnerEmail
      <3>1. req[r].tenant \in DOMAIN tenants
        BY <2>1 DEF SignupInv, RequestsOK, RequestOK, After
      <3>2. req[r].tenant \in Nat \ {0}
        BY <3>1, Rows DEF SignupInv
      <3> QED BY <3>2, NotOwners
    <2>3. CASE InsertHelper(r)
      <3>1. PICK k \in Nat : k = Len(users) + 1
        BY Rows DEF SignupInv
      <3>2. PICK q : q = WithHelper(req[r], "helperAssign", k)
        OBVIOUS
      <3>3. req' = [req EXCEPT ![r] = q]
        BY <2>3, <3>1, <3>2 DEF InsertHelper, WithHelper
      <3>4. q.step = "helperAssign"
        <4>1. "helperAssign" \in Step
          BY Steps
        <4> QED BY <2>1, <3>2, <4>1, MovedWithHelper
      <3>5. Confirmed' = Confirmed
        BY <1>2, <2>1, <3>3, <3>4
      <3> HIDE DEF e
      <3> QED BY <2>1, <2>2, <3>5, HelperUnseen
    <2>4. CASE InsertHelperUnanswered(r)
      <3>1. Goes(r, "seed") /\ "seed" \in Step \ {"ok"}
        BY <2>4, Steps DEF InsertHelperUnanswered
      <3>2. Confirmed' = Confirmed
        BY <1>3, <2>1, <3>1
      <3> HIDE DEF e
      <3> QED BY <2>1, <2>2, <3>2, HelperUnseen
    <2> QED BY <1>7, <2>3, <2>4
  <1>8. ASSUME NEW r \in Requests, AssignHelper(r) PROVE [Promise!Next]_(Promise!vars)
    <2>1. Goes(r, "seed") /\ "seed" \in Step \ {"ok"} /\ req[r].step # "ok"
      BY <1>8, Steps DEF AssignHelper
    <2>2. Confirmed' = Confirmed
      BY <1>3, <2>1
    <2> QED BY <1>8, <2>2, AssignHelperUnseen
  <1>9. CASE UNCHANGED <<users, req>>
    BY <1>1, <1>9 DEF Confirmed
  <1>10. CASE Login \/ \E t \in DOMAIN tenants, active \in BOOLEAN : SetTenantActive(t, active)
    <2>1. UNCHANGED <<users, req>>
      BY <1>10 DEF Login, ReadUser, IssueToken, LoginRefused, SetTenantActive
    <2> QED BY <1>9, <2>1
  <1>11. CASE UNCHANGED vars
    BY <1>9, <1>11 DEF vars
  <1> QED
    BY <1>4, <1>5, <1>6, <1>7, <1>8, <1>10, <1>11, OpenStep
    DEF Next, Progress, CreateOwner, CreateHelper

\* Whatever fails, and however signups overlap, an address goes from free to
\* reserved to open and never back, and success is told only of an open one.
THEOREM SignupImplementsPortal == Spec => ImplementsPortal
  <1>1. Init => SignupInv /\ AddressesApart
    <2>1. Init => AddressesApart
      BY DEF Init, AddressesApart
    <2> QED BY <2>1, SignupInit
  <1>2. SignupInv /\ AddressesApart /\ [Next]_vars => SignupInv' /\ AddressesApart'
    BY SignupStep, ApartStep
  <1> QED
    BY <1>1, <1>2, PortalInit, PortalStep, PTL DEF Spec, ImplementsPortal, Promise!Spec
=============================================================================
