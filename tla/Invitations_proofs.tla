------------------------- MODULE Invitations_proofs -------------------------
(***************************************************************************)
(* Theorems about Invitations, for every number of requests and of         *)
(* invitations, and their proofs.                                          *)
(***************************************************************************)
EXTENDS Invitations, SequenceTheorems, FiniteSetTheorems, TLAPS

----------------------------------------------------------------------------
(* The parts of the inductive invariant.                                   *)

\* What the requests have loaded, sent or taken are rows of the table, and only
\* an old invitation is about to be marked as expired.
Refers ==
  \A r \in Requests :
    /\ req[r].seen \subseteq DOMAIN invites
    /\ req[r].step \in {"mail", "use", "expire"} => req[r].invite \in DOMAIN invites
    /\ req[r].step = "expire" => req[r].invite \in old

ITypeOK == TypeOK /\ Refers

\* The requests that are about to set a password with an invitation.
Users(i) == {r \in Requests : At(r, "use") /\ req[r].invite = i}

\* An invitation that is still on has set no password.
OnIsUnused == \A i \in DOMAIN invites : invites[i].active => uses[i] = 0

UsesInv == OnIsUnused /\ UsesAreBounded

\* Each invitation that is on has a request of its own, which has sent it and will
\* replace it before it adds another.
Sends(f) ==
  /\ f \in Injection(Active, Requests)
  /\ \A i \in Active : req[f[i]].step = "replace" => i \in req[f[i]].seen

OnHasSender == \E f \in [Active -> Requests] : Sends(f)

----------------------------------------------------------------------------
(* Rows and requests.                                                      *)

\* A function on an initial interval of the numbers is a sequence.
LEMMA IsSeq ==
  ASSUME NEW S, NEW n \in Nat, NEW f \in [1..n -> S]
  PROVE  f \in Seq(S) /\ Len(f) = n /\ DOMAIN f = 1..n
  <1>1. f \in Seq(S)
    BY SeqDef
  <1> QED BY <1>1

\* The tables by their indices.
LEMMA Tables ==
  ASSUME TypeOK
  PROVE  /\ Len(invites) \in Nat
         /\ DOMAIN invites = 1..Len(invites) /\ DOMAIN uses = 1..Len(invites)
         /\ \A i \in DOMAIN invites : invites[i] \in Invite /\ uses[i] \in Nat
         /\ mailed \subseteq 1..Len(invites) /\ old \subseteq 1..Len(invites)
         /\ \A r \in Requests : req[r] \in Request
  <1> DEFINE n == Len(invites)
  <1>1. invites \in Seq(Invite) /\ uses \in Seq(Nat) /\ Len(uses) = n
    BY DEF TypeOK
  <1>2. n \in Nat /\ DOMAIN invites = 1..n /\ DOMAIN uses = 1..n
    BY <1>1
  <1>3. \A i \in 1..n : invites[i] \in Invite /\ uses[i] \in Nat
    BY <1>1, ElementOfSeq
  <1> QED BY <1>2, <1>3 DEF TypeOK

\* A request that is replaced by another leaves the rest as they are.
LEMMA OneRequest ==
  ASSUME TypeOK, NEW r \in Requests, NEW q \in Request, Now(r, q)
  PROVE  /\ req' \in [Requests -> Request]
         /\ req'[r] = q
         /\ \A s \in Requests \ {r} : req'[s] = req[s]
  BY DEF TypeOK, Now

LEMMA IdleIsRequest == Idle \in Request
  BY DEF Idle, Request, Step

\* What SaveNew leaves in the table.
LEMMA SaveNewFacts ==
  ASSUME ITypeOK, NEW r \in Requests, SaveNew(r)
  PROVE  /\ invites' \in Seq(Invite) /\ Len(invites') = Len(invites) + 1
         /\ DOMAIN invites' = 1..(Len(invites) + 1)
         /\ invites'[Len(invites) + 1] = NewInvite
         /\ \A i \in DOMAIN invites : invites'[i] \in {invites[i], Off("Replaced")}
         /\ uses' \in Seq(Nat) /\ Len(uses') = Len(invites) + 1
         /\ uses'[Len(invites) + 1] = 0
         /\ \A i \in DOMAIN invites : uses'[i] = uses[i]
         /\ UNCHANGED <<mailed, old>>
         /\ req' = [req EXCEPT ![r] = [step |-> "mail", seen |-> {}, invite |-> Len(invites) + 1]]
  <1> DEFINE n == Len(invites)
  <1>1. n \in Nat /\ DOMAIN invites = 1..n /\ \A i \in 1..n : invites[i] \in Invite
    BY Tables DEF ITypeOK
  <1>2. invites' = [i \in 1..(n + 1) |-> IF i = n + 1 THEN NewInvite
                                         ELSE IF i \in req[r].seen THEN Off("Replaced")
                                         ELSE invites[i]]
    BY DEF SaveNew
  <1>3. NewInvite \in Invite /\ Off("Replaced") \in Invite
    BY DEF NewInvite, Off, Invite, Reason
  <1>4. invites' \in [1..(n + 1) -> Invite]
    BY <1>1, <1>2, <1>3
  <1>5. invites' \in Seq(Invite) /\ Len(invites') = n + 1 /\ DOMAIN invites' = 1..(n + 1)
    BY <1>1, <1>4, IsSeq
  <1>6. /\ invites'[n + 1] = NewInvite
        /\ \A i \in 1..n : invites'[i] \in {invites[i], Off("Replaced")}
    BY <1>1, <1>2
  <1>7. uses' = Append(uses, 0) /\ uses \in Seq(Nat) /\ Len(uses) = n
    BY DEF SaveNew, ITypeOK, TypeOK
  <1>8. /\ uses' \in Seq(Nat) /\ Len(uses') = n + 1 /\ uses'[n + 1] = 0
        /\ \A i \in 1..n : uses'[i] = uses[i]
    BY <1>7, AppendProperties, 0 \in Nat
  <1>9. /\ UNCHANGED <<mailed, old>>
        /\ req' = [req EXCEPT ![r] = [step |-> "mail", seen |-> {}, invite |-> n + 1]]
    BY DEF SaveNew, Now
  <1> QED BY <1>1, <1>5, <1>6, <1>8, <1>9

\* A row that is switched off leaves the other rows as they are.
LEMMA SwitchOff ==
  ASSUME ITypeOK, NEW i \in DOMAIN invites, NEW why \in Reason,
         invites' = [invites EXCEPT ![i] = Off(why)]
  PROVE  /\ invites' \in Seq(Invite) /\ Len(invites') = Len(invites)
         /\ DOMAIN invites' = DOMAIN invites
         /\ invites'[i] = Off(why)
         /\ \A j \in DOMAIN invites \ {i} : invites'[j] = invites[j]
  <1> DEFINE n == Len(invites)
  <1>1. n \in Nat /\ DOMAIN invites = 1..n /\ \A j \in 1..n : invites[j] \in Invite
    BY Tables DEF ITypeOK
  <1>2. Off(why) \in Invite
    BY DEF Off, Invite
  <1>3. invites \in [1..n -> Invite]
    BY <1>1 DEF ITypeOK, TypeOK
  <1>4. invites' \in [1..n -> Invite]
    BY <1>2, <1>3
  <1>5. invites' \in Seq(Invite) /\ Len(invites') = n /\ DOMAIN invites' = 1..n
    BY <1>1, <1>4, IsSeq
  <1> QED BY <1>1, <1>3, <1>5

\* One more use leaves the other counts as they are.
LEMMA OneMoreUse ==
  ASSUME ITypeOK, NEW i \in DOMAIN invites, uses' = [uses EXCEPT ![i] = @ + 1]
  PROVE  /\ uses' \in Seq(Nat) /\ Len(uses') = Len(invites)
         /\ uses'[i] = uses[i] + 1
         /\ \A j \in DOMAIN invites \ {i} : uses'[j] = uses[j]
  <1> DEFINE n == Len(invites)
  <1>1. n \in Nat /\ DOMAIN invites = 1..n /\ DOMAIN uses = 1..n /\ \A j \in 1..n : uses[j] \in Nat
    BY Tables DEF ITypeOK
  <1>2. uses \in [1..n -> Nat]
    BY <1>1 DEF ITypeOK, TypeOK
  <1>3. uses' \in [1..n -> Nat]
    BY <1>1, <1>2
  <1>4. uses' \in Seq(Nat) /\ Len(uses') = n
    BY <1>1, <1>3, IsSeq
  <1> QED BY <1>1, <1>2, <1>4

\* A step of one request that leaves the two tables typed, with no row fewer and
\* no invitation younger, preserves the types.
LEMMA KeepsTypes ==
  ASSUME ITypeOK, NEW r \in Requests, NEW q \in Request, req' = [req EXCEPT ![r] = q],
         invites' \in Seq(Invite), DOMAIN invites \subseteq DOMAIN invites',
         uses' \in Seq(Nat), Len(uses') = Len(invites'),
         mailed' \subseteq DOMAIN invites', old' = old,
         q.seen \subseteq DOMAIN invites',
         q.step \in {"mail", "use", "expire"} => q.invite \in DOMAIN invites',
         q.step = "expire" => q.invite \in old
  PROVE  ITypeOK'
  <1>1. /\ req' \in [Requests -> Request] /\ req'[r] = q
        /\ \A s \in Requests \ {r} : req'[s] = req[s]
    BY DEF ITypeOK, TypeOK
  <1>2. old' \subseteq DOMAIN invites'
    BY DEF ITypeOK, TypeOK
  <1>3. TypeOK'
    BY <1>1, <1>2 DEF TypeOK
  <1>4. ASSUME NEW s \in Requests
        PROVE  /\ req'[s].seen \subseteq DOMAIN invites'
               /\ req'[s].step \in {"mail", "use", "expire"} => req'[s].invite \in DOMAIN invites'
               /\ req'[s].step = "expire" => req'[s].invite \in old'
    <2>1. CASE s = r
      BY <1>1, <2>1
    <2>2. CASE s # r
      <3>1. req'[s] = req[s]
        BY <1>1, <2>2
      <3> QED BY <3>1 DEF ITypeOK, Refers
    <2> QED BY <2>1, <2>2
  <1>5. Refers'
    BY <1>4 DEF Refers
  <1> QED BY <1>3, <1>5 DEF ITypeOK

----------------------------------------------------------------------------
(* Types.                                                                  *)

LEMMA TypeInit == Init => ITypeOK
  <1> SUFFICES ASSUME Init PROVE ITypeOK
    OBVIOUS
  <1>1. invites \in Seq(Invite) /\ uses \in Seq(Nat) /\ Len(uses) = Len(invites)
    BY EmptySeq DEF Init
  <1>2. req \in [Requests -> Request]
    BY IdleIsRequest DEF Init
  <1>3. TypeOK
    BY <1>1, <1>2 DEF Init, TypeOK
  <1>4. Refers
    BY DEF Init, Refers, Idle
  <1> QED BY <1>3, <1>4 DEF ITypeOK

LEMMA TypeStep == ITypeOK /\ [Next]_vars => ITypeOK'
  <1> SUFFICES ASSUME ITypeOK, [Next]_vars PROVE ITypeOK'
    OBVIOUS
  <1>t. /\ invites \in Seq(Invite) /\ uses \in Seq(Nat) /\ Len(uses) = Len(invites)
        /\ mailed \subseteq DOMAIN invites
    BY DEF ITypeOK, TypeOK
  <1>i. DOMAIN invites \subseteq Nat
    BY Tables DEF ITypeOK
  <1>0. CASE UNCHANGED vars
    BY <1>0 DEF vars, ITypeOK, TypeOK, Refers
  <1>1. ASSUME NEW r \in Requests, LoadOld(r) PROVE ITypeOK'
    <2> DEFINE q == [step |-> "replace", seen |-> Active, invite |-> 0]
    <2>1. Active \subseteq DOMAIN invites
      BY DEF Active
    <2>2. q \in Request
      BY <2>1, <1>i DEF Request, Step
    <2>3. req' = [req EXCEPT ![r] = q] /\ UNCHANGED <<invites, mailed, old, uses>>
      BY <1>1 DEF LoadOld, Now
    <2>4. q.seen = Active /\ q.step = "replace"
      OBVIOUS
    <2> HIDE DEF q
    <2> QED BY <1>t, <2>1, <2>2, <2>3, <2>4, KeepsTypes
  <1>2. ASSUME NEW r \in Requests, SaveNew(r) PROVE ITypeOK'
    <2> DEFINE n == Len(invites)
               q == [step |-> "mail", seen |-> {}, invite |-> n + 1]
    <2>1. n \in Nat /\ DOMAIN invites = 1..n
      BY Tables DEF ITypeOK
    <2>2. q \in Request
      BY <2>1 DEF Request, Step
    <2>3. /\ invites' \in Seq(Invite) /\ DOMAIN invites' = 1..(n + 1) /\ Len(invites') = n + 1
          /\ uses' \in Seq(Nat) /\ Len(uses') = n + 1 /\ mailed' = mailed /\ old' = old
          /\ req' = [req EXCEPT ![r] = q]
      BY <1>2, SaveNewFacts
    <2>4. DOMAIN invites \subseteq DOMAIN invites' /\ n + 1 \in DOMAIN invites'
      BY <2>1, <2>3
    <2>5. q.seen = {} /\ q.step = "mail" /\ q.invite = n + 1
      OBVIOUS
    <2> HIDE DEF q, n
    <2>6. /\ mailed' \subseteq DOMAIN invites' /\ q.seen \subseteq DOMAIN invites'
          /\ q.step \in {"mail", "use", "expire"} => q.invite \in DOMAIN invites'
          /\ q.step = "expire" => q.invite \in old
          /\ Len(uses') = Len(invites')
      BY <1>t, <2>3, <2>4, <2>5
    <2> QED BY <2>2, <2>3, <2>4, <2>6, KeepsTypes
  <1>3. ASSUME NEW r \in Requests, Now(r, Idle), old' = old,
               invites' \in Seq(Invite), DOMAIN invites' = DOMAIN invites,
               uses' \in Seq(Nat), Len(uses') = Len(invites'),
               mailed' \subseteq DOMAIN invites
        PROVE  ITypeOK'
    <2>1. Idle.seen = {} /\ Idle.step = "idle"
      BY DEF Idle
    <2>2. req' = [req EXCEPT ![r] = Idle]
      BY <1>3 DEF Now
    <2> QED BY <1>3, <2>1, <2>2, IdleIsRequest, KeepsTypes
  <1>4. ASSUME NEW r \in Requests, Mail(r) PROVE ITypeOK'
    <2>1. req[r].invite \in DOMAIN invites
      BY <1>4 DEF Mail, At, ITypeOK, Refers
    <2> QED BY <1>t, <2>1, <1>4, <1>3 DEF Mail
  <1>5. ASSUME NEW r \in Requests, MailFails(r) PROVE ITypeOK'
    <2>1. req[r].invite \in DOMAIN invites
      BY <1>5 DEF MailFails, At, ITypeOK, Refers
    <2>2. invites' \in Seq(Invite) /\ DOMAIN invites' = DOMAIN invites /\ Len(invites') = Len(invites)
      BY <1>5, <2>1, SwitchOff DEF MailFails, Reason
    <2> QED BY <1>t, <2>1, <2>2, <1>5, <1>3 DEF MailFails
  <1>6. ASSUME NEW r \in Requests, Use(r) PROVE ITypeOK'
    <2>1. req[r].invite \in DOMAIN invites
      BY <1>6 DEF Use, At, ITypeOK, Refers
    <2>2. invites' \in Seq(Invite) /\ DOMAIN invites' = DOMAIN invites /\ Len(invites') = Len(invites)
      BY <1>6, <2>1, SwitchOff DEF Use, Reason
    <2>3. uses' \in Seq(Nat) /\ Len(uses') = Len(invites)
      BY <1>6, <2>1, OneMoreUse DEF Use
    <2> QED BY <1>t, <2>2, <2>3, <1>6, <1>3 DEF Use
  <1>7. ASSUME NEW r \in Requests, Expire(r) PROVE ITypeOK'
    <2>1. req[r].invite \in DOMAIN invites
      BY <1>7 DEF Expire, At, ITypeOK, Refers
    <2>2. invites' \in Seq(Invite) /\ DOMAIN invites' = DOMAIN invites /\ Len(invites') = Len(invites)
      BY <1>7, <2>1, SwitchOff DEF Expire, Reason
    <2> QED BY <1>t, <2>2, <1>7, <1>3 DEF Expire
  <1>8. ASSUME NEW r \in Requests, Fails(r) PROVE ITypeOK'
    BY <1>t, <1>8, <1>3 DEF Fails
  <1>9. ASSUME NEW r \in Requests, NEW i \in DOMAIN invites, Take(r, i) PROVE ITypeOK'
    <2> DEFINE q == [step |-> IF i \in old THEN "expire" ELSE "use", seen |-> {}, invite |-> i]
    <2>1. q \in Request
      BY <1>i DEF Request, Step
    <2>2. req' = [req EXCEPT ![r] = q] /\ UNCHANGED <<invites, mailed, old, uses>>
      BY <1>9 DEF Take, Now
    <2>3. q.seen = {} /\ q.invite = i /\ (q.step = "expire" => i \in old)
      OBVIOUS
    <2> HIDE DEF q
    <2> QED BY <1>t, <2>1, <2>2, <2>3, KeepsTypes
  <1>10. ASSUME NEW i \in DOMAIN invites, GrowOld(i) PROVE ITypeOK'
    BY <1>10 DEF GrowOld, ITypeOK, TypeOK, Refers
  <1> QED
    BY <1>0, <1>1, <1>2, <1>4, <1>5, <1>6, <1>7, <1>8, <1>9, <1>10 DEF Next, Send

\* Requests name rows of the table, whatever they have loaded.
THEOREM TypeCorrect == Spec => []ITypeOK
  BY TypeInit, TypeStep, PTL DEF Spec

----------------------------------------------------------------------------
(* What was switched off stays off.                                        *)

LEMMA RevivesStep ==
  ITypeOK /\ [Next]_vars => [\A i \in DOMAIN invites : ~invites[i].active => ~invites'[i].active]_vars
  <1> SUFFICES ASSUME ITypeOK, Next, NEW i \in DOMAIN invites, ~invites[i].active
               PROVE  ~invites'[i].active
    OBVIOUS
  <1>0. CASE invites' = invites
    BY <1>0
  <1>1. ASSUME NEW r \in Requests, SaveNew(r) PROVE ~invites'[i].active
    <2>1. invites'[i] \in {invites[i], Off("Replaced")}
      BY <1>1, SaveNewFacts
    <2> QED BY <2>1 DEF Off
  <1>2. ASSUME NEW r \in Requests, NEW why \in Reason, req[r].invite \in DOMAIN invites,
               invites' = [invites EXCEPT ![req[r].invite] = Off(why)]
        PROVE  ~invites'[i].active
    <2>1. invites'[i] \in {invites[i], Off(why)}
      BY <1>2, SwitchOff
    <2> QED BY <2>1 DEF Off
  <1>3. ASSUME NEW r \in Requests, MailFails(r) \/ Use(r) \/ Expire(r) PROVE ~invites'[i].active
    <2>1. req[r].invite \in DOMAIN invites
      BY <1>3 DEF MailFails, Use, Expire, At, ITypeOK, Refers
    <2>2. \E why \in Reason : invites' = [invites EXCEPT ![req[r].invite] = Off(why)]
      BY <1>3 DEF MailFails, Use, Expire, Reason
    <2> QED BY <1>2, <2>1, <2>2
  <1> QED
    BY <1>0, <1>1, <1>3 DEF Next, Send, LoadOld, Mail, Fails, Take, GrowOld

\* An invitation that was switched off stays off, although every save writes whole
\* rows from copies that were loaded while it was on.
THEOREM RevivesCorrect == Spec => NoneRevives
  BY TypeInit, TypeStep, RevivesStep, PTL DEF Spec, NoneRevives

----------------------------------------------------------------------------
(* The latest invitation.                                                  *)

\* A row is on, has set a password, is old or has lost its mail.
Excused(i) == invites[i].active \/ uses[i] > 0 \/ i \in old \/ invites[i].reason = "EmailFailed"

LEMMA LatestInit == Init => LatestWorks
  BY DEF Init, LatestWorks

LEMMA LatestStep == ITypeOK /\ LatestWorks /\ [Next]_vars => LatestWorks'
  <1> SUFFICES ASSUME ITypeOK, LatestWorks, [Next]_vars PROVE LatestWorks'
    OBVIOUS
  <1> DEFINE n == Len(invites)
  <1>t. /\ n \in Nat /\ DOMAIN invites = 1..n
        /\ \A i \in DOMAIN invites : uses[i] \in Nat
    BY Tables DEF ITypeOK
  <1>0. CASE UNCHANGED <<invites, uses>> /\ old \subseteq old'
    BY <1>0 DEF LatestWorks
  <1>1. ASSUME NEW r \in Requests, SaveNew(r) PROVE LatestWorks'
    <2>1. Len(invites') = n + 1 /\ invites'[n + 1] = NewInvite
      BY <1>1, SaveNewFacts
    <2> QED BY <2>1 DEF LatestWorks, NewInvite
  <1>2. ASSUME NEW r \in Requests, NEW why \in Reason, req[r].invite \in DOMAIN invites,
               invites' = [invites EXCEPT ![req[r].invite] = Off(why)], old' = old,
               \A j \in DOMAIN invites \ {req[r].invite} : uses'[j] = uses[j],
               \/ why = "EmailFailed"
               \/ uses'[req[r].invite] > 0
               \/ req[r].invite \in old
        PROVE  LatestWorks'
    <2> DEFINE k == req[r].invite
    <2>1. /\ Len(invites') = n /\ invites'[k] = Off(why)
          /\ \A j \in DOMAIN invites \ {k} : invites'[j] = invites[j]
      BY <1>2, SwitchOff
    <2>2. CASE k = n
      BY <1>2, <2>1, <2>2 DEF LatestWorks, Off
    <2>3. CASE k # n
      <3> SUFFICES ASSUME n > 0 PROVE LatestWorks'
        BY <2>1 DEF LatestWorks
      <3>1. n \in DOMAIN invites \ {k}
        BY <1>t, <2>3
      <3>2. invites'[n] = invites[n] /\ uses'[n] = uses[n]
        BY <1>2, <2>1, <3>1
      <3> QED BY <1>2, <2>1, <3>2 DEF LatestWorks
    <2> QED BY <2>2, <2>3
  <1>3. ASSUME NEW r \in Requests, MailFails(r) PROVE LatestWorks'
    <2>1. req[r].invite \in DOMAIN invites
      BY <1>3 DEF MailFails, At, ITypeOK, Refers
    <2> QED BY <1>2, <1>3, <2>1 DEF MailFails, Reason
  <1>4. ASSUME NEW r \in Requests, Use(r) PROVE LatestWorks'
    <2>1. req[r].invite \in DOMAIN invites
      BY <1>4 DEF Use, At, ITypeOK, Refers
    <2>2. /\ uses'[req[r].invite] = uses[req[r].invite] + 1
          /\ \A j \in DOMAIN invites \ {req[r].invite} : uses'[j] = uses[j]
      BY <1>4, <2>1, OneMoreUse DEF Use
    <2>3. uses'[req[r].invite] > 0
      BY <1>t, <2>1, <2>2
    <2> QED BY <1>2, <1>4, <2>1, <2>2, <2>3 DEF Use, Reason
  <1>5. ASSUME NEW r \in Requests, Expire(r) PROVE LatestWorks'
    <2>1. req[r].invite \in DOMAIN invites /\ req[r].invite \in old
      BY <1>5 DEF Expire, At, ITypeOK, Refers
    <2> QED BY <1>2, <1>5, <2>1 DEF Expire, Reason
  <1>6. ASSUME NEW r \in Requests, LoadOld(r) \/ Mail(r) \/ Fails(r) PROVE LatestWorks'
    BY <1>0, <1>6 DEF LoadOld, Mail, Fails
  <1>7. ASSUME NEW r \in Requests, NEW i \in DOMAIN invites, Take(r, i) PROVE LatestWorks'
    BY <1>0, <1>7 DEF Take
  <1>8. ASSUME NEW i \in DOMAIN invites, GrowOld(i) PROVE LatestWorks'
    BY <1>0, <1>8 DEF GrowOld
  <1>9. CASE UNCHANGED vars
    BY <1>0, <1>9 DEF vars
  <1> QED
    BY <1>1, <1>3, <1>4, <1>5, <1>6, <1>7, <1>8, <1>9 DEF Next, Send

\* The invitation sent last works until it is used, is old, or its mail was
\* reported as failed: no sender replaces an invitation newer than its load.
THEOREM LatestCorrect == Spec => []LatestWorks
  <1>1. Init => ITypeOK /\ LatestWorks
    BY TypeInit, LatestInit
  <1>2. ITypeOK /\ LatestWorks /\ [Next]_vars => ITypeOK' /\ LatestWorks'
    BY TypeStep, LatestStep
  <1> QED BY <1>1, <1>2, PTL DEF Spec

----------------------------------------------------------------------------
(* How often an invitation sets a password.                                *)

LEMMA UsersFinite ==
  ASSUME NEW i
  PROVE  /\ IsFiniteSet(Users(i)) /\ Cardinality(Users(i)) \in Nat
         /\ Cardinality(Users(i)) <= Cardinality(Requests)
         /\ Cardinality(Requests) \in Nat
  <1>1. Users(i) \in SUBSET Requests
    BY DEF Users
  <1>2. /\ IsFiniteSet(Users(i)) /\ Cardinality(Users(i)) <= Cardinality(Requests)
        /\ Cardinality(Requests) \in Nat
    BY <1>1, RequestsAssumption, FS_Subset, FS_CardinalityType
  <1>3. Cardinality(Users(i)) \in Nat
    BY <1>2, FS_CardinalityType
  <1> QED BY <1>2, <1>3

LEMMA UsesInit == Init => UsesInv
  <1> SUFFICES ASSUME Init PROVE UsesInv
    OBVIOUS
  <1>1. DOMAIN invites = {}
    BY DEF Init
  <1> QED BY <1>1 DEF UsesInv, OnIsUnused, UsesAreBounded

\* The bound on one invitation, after a step in which no request turns to it.
LEMMA NoMoreUsers ==
  ASSUME TypeOK, NEW i \in DOMAIN invites,
         uses[i] + Cardinality(Users(i)) <= Cardinality(Requests),
         uses'[i] = uses[i],
         NEW U \in SUBSET Users(i)
  PROVE  uses'[i] + Cardinality(U) <= Cardinality(Requests)
  <1>1. uses[i] \in Nat
    BY Tables
  <1>2. /\ IsFiniteSet(Users(i)) /\ Cardinality(Users(i)) \in Nat
        /\ Cardinality(Requests) \in Nat
    BY UsersFinite
  <1>3. Cardinality(U) <= Cardinality(Users(i)) /\ IsFiniteSet(U)
    BY <1>2, FS_Subset
  <1>4. Cardinality(U) \in Nat
    BY <1>3, FS_CardinalityType
  <1> QED BY <1>1, <1>2, <1>3, <1>4

\* A step that turns no request to an invitation, and counts no use, keeps the bounds.
LEMMA KeepsUses ==
  ASSUME ITypeOK, ITypeOK', UsesInv, DOMAIN invites' = DOMAIN invites,
         \A i \in DOMAIN invites : /\ uses'[i] = uses[i]
                                   /\ invites'[i].active => invites[i].active,
         \A r \in Requests : req'[r].step = "use" => req'[r] = req[r]
  PROVE  UsesInv'
  <1>1. OnIsUnused'
    BY DEF UsesInv, OnIsUnused
  <1>2. ASSUME NEW i \in DOMAIN invites
        PROVE  uses'[i] + Cardinality({r \in Requests : At(r, "use")' /\ req'[r].invite = i})
                 <= Cardinality(Requests)
    <2> DEFINE U == {r \in Requests : At(r, "use")' /\ req'[r].invite = i}
    <2>1. U \in SUBSET Users(i)
      BY DEF Users, At
    <2>2. uses[i] + Cardinality(Users(i)) <= Cardinality(Requests)
      BY DEF UsesInv, UsesAreBounded, Users
    <2> HIDE DEF U
    <2>3. uses'[i] + Cardinality(U) <= Cardinality(Requests)
      BY <2>1, <2>2, NoMoreUsers DEF ITypeOK
    <2> QED BY <2>3 DEF U
  <1>3. UsesAreBounded'
    BY <1>2 DEF UsesAreBounded
  <1> QED BY <1>1, <1>3 DEF UsesInv

LEMMA UsesStep == ITypeOK /\ ITypeOK' /\ UsesInv /\ [Next]_vars => UsesInv'
  <1> SUFFICES ASSUME ITypeOK, ITypeOK', UsesInv, [Next]_vars PROVE UsesInv'
    OBVIOUS
  <1> DEFINE n == Len(invites)
             UsersAfter(i) == {r \in Requests : At(r, "use")' /\ req'[r].invite = i}
  <1>t. /\ n \in Nat /\ DOMAIN invites = 1..n
        /\ req \in [Requests -> Request]
        /\ \A i \in DOMAIN invites : uses[i] \in Nat
    BY Tables DEF ITypeOK, TypeOK
  <1>b. \A i \in DOMAIN invites : uses[i] + Cardinality(Users(i)) <= Cardinality(Requests)
    BY DEF UsesInv, UsesAreBounded, Users
  <1>c. Cardinality(Requests) \in Nat
    BY RequestsAssumption, FS_CardinalityType
  <1>0. CASE UNCHANGED <<invites, uses, req>>
    BY <1>0 DEF UsesInv, OnIsUnused, UsesAreBounded, At
  <1>1. ASSUME NEW r \in Requests, LoadOld(r) PROVE UsesInv'
    <2>1. \A s \in Requests : req'[s].step = "use" => req'[s] = req[s]
      BY <1>t, <1>1 DEF LoadOld, Now
    <2> QED BY <1>1, <2>1, KeepsUses DEF LoadOld
  <1>2. ASSUME NEW r \in Requests, SaveNew(r) PROVE UsesInv'
    <2>1. /\ DOMAIN invites' = 1..(n + 1) /\ invites'[n + 1] = NewInvite /\ uses'[n + 1] = 0
          /\ \A i \in DOMAIN invites : /\ invites'[i] \in {invites[i], Off("Replaced")}
                                        /\ uses'[i] = uses[i]
          /\ req' = [req EXCEPT ![r] = [step |-> "mail", seen |-> {}, invite |-> n + 1]]
      BY <1>2, SaveNewFacts
    <2>2. \A i \in DOMAIN invites : invites'[i].active => invites[i].active
      BY <2>1 DEF Off
    <2>3. OnIsUnused'
      BY <1>t, <2>1, <2>2 DEF UsesInv, OnIsUnused
    <2>4. ASSUME NEW i \in DOMAIN invites PROVE UsersAfter(i) \in SUBSET Users(i)
      BY <1>t, <2>1 DEF Users, At
    <2>5. UsersAfter(n + 1) = {}
      <3>1. \A s \in Requests : At(s, "use")' => req'[s] = req[s] /\ req[s].step = "use"
        BY <1>t, <2>1 DEF At
      <3>2. \A s \in Requests : req[s].step = "use" => req[s].invite \in 1..n
        BY <1>t DEF ITypeOK, Refers
      <3>3. n + 1 \notin 1..n
        BY <1>t
      <3> QED BY <3>1, <3>2, <3>3
    <2>6. ASSUME NEW i \in DOMAIN invites
          PROVE  uses'[i] + Cardinality(UsersAfter(i)) <= Cardinality(Requests)
      BY <1>b, <2>1, <2>4, <2>6, NoMoreUsers DEF ITypeOK
    <2>7. uses'[n + 1] + Cardinality(UsersAfter(n + 1)) <= Cardinality(Requests)
      <3>1. uses'[n + 1] = 0 /\ Cardinality(UsersAfter(n + 1)) = 0
        BY <2>1, <2>5, FS_EmptySet
      <3> HIDE DEF n, UsersAfter
      <3> QED BY <1>c, <3>1
    <2>8. \A i \in 1..(n + 1) : uses'[i] + Cardinality(UsersAfter(i)) <= Cardinality(Requests)
      <3>1. \A i \in 1..(n + 1) : i \in DOMAIN invites \/ i = n + 1
        BY <1>t
      <3> HIDE DEF n, UsersAfter
      <3> QED BY <2>6, <2>7, <3>1
    <2>9. UsesAreBounded'
      BY <2>1, <2>8 DEF UsesAreBounded
    <2> QED BY <2>3, <2>9 DEF UsesInv
  <1>3. ASSUME NEW r \in Requests, Now(r, Idle), DOMAIN invites' = DOMAIN invites,
               \A i \in DOMAIN invites : /\ uses'[i] = uses[i]
                                         /\ invites'[i].active => invites[i].active
        PROVE  UsesInv'
    <2>1. \A s \in Requests : req'[s].step = "use" => req'[s] = req[s]
      BY <1>t, <1>3 DEF Now, Idle
    <2> QED BY <1>3, <2>1, KeepsUses
  <1>4. ASSUME NEW r \in Requests, NEW why \in Reason, req[r].invite \in DOMAIN invites,
               invites' = [invites EXCEPT ![req[r].invite] = Off(why)]
        PROVE  /\ DOMAIN invites' = DOMAIN invites
               /\ ~invites'[req[r].invite].active
               /\ \A i \in DOMAIN invites : invites'[i].active => invites[i].active
    <2>1. /\ DOMAIN invites' = DOMAIN invites
          /\ invites'[req[r].invite] = Off(why)
          /\ \A j \in DOMAIN invites \ {req[r].invite} : invites'[j] = invites[j]
      BY <1>4, SwitchOff
    <2> QED BY <2>1 DEF Off
  <1>5. ASSUME NEW r \in Requests, Mail(r) \/ Fails(r) PROVE UsesInv'
    BY <1>3, <1>5 DEF Mail, Fails
  <1>6. ASSUME NEW r \in Requests, MailFails(r) \/ Expire(r) PROVE UsesInv'
    <2>1. req[r].invite \in DOMAIN invites
      BY <1>6 DEF MailFails, Expire, At, ITypeOK, Refers
    <2>2. \E why \in Reason : invites' = [invites EXCEPT ![req[r].invite] = Off(why)]
      BY <1>6 DEF MailFails, Expire, Reason
    <2>3. /\ DOMAIN invites' = DOMAIN invites
          /\ \A i \in DOMAIN invites : invites'[i].active => invites[i].active
      BY <1>4, <2>1, <2>2
    <2>4. Now(r, Idle) /\ uses' = uses
      BY <1>6 DEF MailFails, Expire
    <2> QED BY <1>3, <2>3, <2>4
  <1>7. ASSUME NEW r \in Requests, Use(r) PROVE UsesInv'
    <2> DEFINE k == req[r].invite
    <2>1. k \in DOMAIN invites /\ req[r].step = "use"
      BY <1>7 DEF Use, At, ITypeOK, Refers
    <2>2. /\ DOMAIN invites' = DOMAIN invites /\ ~invites'[k].active
          /\ \A i \in DOMAIN invites : invites'[i].active => invites[i].active
      BY <1>4, <1>7, <2>1 DEF Use, Reason
    <2>3. /\ uses'[k] = uses[k] + 1
          /\ \A j \in DOMAIN invites \ {k} : uses'[j] = uses[j]
      BY <1>7, <2>1, OneMoreUse DEF Use
    <2>4. OnIsUnused'
      BY <2>2, <2>3 DEF UsesInv, OnIsUnused
    <2>5. req' = [req EXCEPT ![r] = Idle]
      BY <1>7 DEF Use, Now
    <2>6. \A i \in DOMAIN invites : UsersAfter(i) = Users(i) \ {r}
      BY <1>t, <2>1, <2>5 DEF Users, At, Idle
    <2>7. r \in Users(k)
      BY <2>1 DEF Users, At
    <2>8. uses'[k] + Cardinality(UsersAfter(k)) <= Cardinality(Requests)
      <3>1. Cardinality(UsersAfter(k)) = Cardinality(Users(k)) - 1
        BY <2>1, <2>6, <2>7, UsersFinite, FS_RemoveElement
      <3>2. Cardinality(Users(k)) \in Nat
        BY UsersFinite
      <3>3. uses[k] + Cardinality(Users(k)) <= Cardinality(Requests) /\ uses[k] \in Nat
        BY <1>t, <1>b, <2>1
      <3> HIDE DEF k, UsersAfter
      <3> QED BY <1>c, <2>3, <3>1, <3>2, <3>3
    <2>9. ASSUME NEW i \in DOMAIN invites \ {k}
          PROVE  uses'[i] + Cardinality(UsersAfter(i)) <= Cardinality(Requests)
      <3>1. UsersAfter(i) \in SUBSET Users(i)
        BY <2>6
      <3> QED BY <1>b, <2>3, <3>1, NoMoreUsers DEF ITypeOK
    <2>10. UsesAreBounded'
      <3>1. \A i \in DOMAIN invites : uses'[i] + Cardinality(UsersAfter(i)) <= Cardinality(Requests)
        <4> HIDE DEF k, UsersAfter
        <4> QED BY <2>8, <2>9
      <3> QED BY <2>2, <3>1 DEF UsesAreBounded
    <2> QED BY <2>4, <2>10 DEF UsesInv
  <1>8. ASSUME NEW r \in Requests, NEW i \in DOMAIN invites, Take(r, i) PROVE UsesInv'
    <2>1. /\ invites[i].active /\ UNCHANGED <<invites, uses>>
          /\ \A s \in Requests \ {r} : req'[s] = req[s]
          /\ req'[r].invite = i
      BY <1>t, <1>8 DEF Take, Now
    <2>2. uses'[i] = 0
      BY <2>1 DEF UsesInv, OnIsUnused
    <2>3. OnIsUnused'
      BY <2>1 DEF UsesInv, OnIsUnused
    <2>4. UsersAfter(i) \in SUBSET Requests
      OBVIOUS
    <2>5. Cardinality(UsersAfter(i)) <= Cardinality(Requests) /\ Cardinality(UsersAfter(i)) \in Nat
      <3> HIDE DEF UsersAfter
      <3>1. IsFiniteSet(UsersAfter(i)) /\ Cardinality(UsersAfter(i)) <= Cardinality(Requests)
        BY <2>4, RequestsAssumption, FS_Subset
      <3> QED BY <3>1, FS_CardinalityType
    <2>6. uses'[i] + Cardinality(UsersAfter(i)) <= Cardinality(Requests)
      <3> HIDE DEF UsersAfter
      <3> QED BY <1>c, <2>2, <2>5
    <2>7. ASSUME NEW j \in DOMAIN invites \ {i}
          PROVE  uses'[j] + Cardinality(UsersAfter(j)) <= Cardinality(Requests)
      <3>1. UsersAfter(j) \in SUBSET Users(j)
        BY <2>1 DEF Users, At
      <3> QED BY <1>b, <2>1, <3>1, NoMoreUsers DEF ITypeOK
    <2>8. UsesAreBounded'
      <3>1. \A j \in DOMAIN invites : uses'[j] + Cardinality(UsersAfter(j)) <= Cardinality(Requests)
        <4> HIDE DEF UsersAfter
        <4> QED BY <2>6, <2>7
      <3> QED BY <2>1, <3>1 DEF UsesAreBounded
    <2> QED BY <2>3, <2>8 DEF UsesInv
  <1>9. ASSUME NEW i \in DOMAIN invites, GrowOld(i) PROVE UsesInv'
    BY <1>0, <1>9 DEF GrowOld
  <1>10. CASE UNCHANGED vars
    BY <1>0, <1>10 DEF vars
  <1> QED
    BY <1>1, <1>2, <1>5, <1>6, <1>7, <1>8, <1>9, <1>10 DEF Next, Send

\* A token sets a password once, except by requests that were under way together.
THEOREM UsesCorrect == Spec => []UsesAreBounded
  <1>1. Init => ITypeOK /\ UsesInv
    BY TypeInit, UsesInit
  <1>2. ITypeOK /\ UsesInv /\ [Next]_vars => ITypeOK' /\ UsesInv'
    BY TypeStep, UsesStep
  <1>3. UsesInv => UsesAreBounded
    BY DEF UsesInv
  <1> QED BY <1>1, <1>2, <1>3, PTL DEF Spec

----------------------------------------------------------------------------
(* How many invitations are on.                                            *)

LEMMA SenderInit == Init => OnHasSender
  <1> SUFFICES ASSUME Init PROVE OnHasSender
    OBVIOUS
  <1>1. Active = {}
    BY DEF Init, Active
  <1> DEFINE f == [i \in Active |-> CHOOSE r \in Requests : TRUE]
  <1>2. f \in [Active -> Requests]
    BY <1>1
  <1>3. f \in Injection(Active, Requests)
    BY <1>1, <1>2 DEF Injection, IsInjective
  <1> HIDE DEF f
  <1> QED BY <1>1, <1>2, <1>3 DEF OnHasSender, Sends

\* A step in which no invitation is switched on, and no request is left about to
\* replace others than it was or all that are on, keeps the senders.
LEMMA KeepsSenders ==
  ASSUME OnHasSender, Active' \subseteq Active,
         \A r \in Requests : req'[r].step = "replace" => req'[r] = req[r] \/ Active' \subseteq req'[r].seen
  PROVE  OnHasSender'
  <1>1. PICK f \in [Active -> Requests] : Sends(f)
    BY DEF OnHasSender
  <1> DEFINE g == [i \in Active' |-> f[i]]
  <1>2. g \in [Active' -> Requests]
    OBVIOUS
  <1>3. g \in Injection(Active', Requests)
    BY <1>1, <1>2 DEF Sends, Injection, IsInjective
  <1>4. \A i \in Active' : req'[g[i]].step = "replace" => i \in req'[g[i]].seen
    BY <1>1 DEF Sends
  <1> HIDE DEF g
  <1> QED BY <1>2, <1>3, <1>4 DEF OnHasSender, Sends

LEMMA SenderStep == ITypeOK /\ OnHasSender /\ [Next]_vars => OnHasSender'
  <1> SUFFICES ASSUME ITypeOK, OnHasSender, [Next]_vars PROVE OnHasSender'
    OBVIOUS
  <1> DEFINE n == Len(invites)
  <1>t. n \in Nat /\ DOMAIN invites = 1..n /\ req \in [Requests -> Request]
    BY Tables DEF ITypeOK, TypeOK
  <1>0. CASE UNCHANGED <<invites, req>>
    <2>1. Active' = Active
      BY <1>0 DEF Active
    <2> QED BY <1>0, <2>1, KeepsSenders
  <1>1. ASSUME NEW r \in Requests, NEW q, q.step = "replace" => q.seen = Active,
               Now(r, q), invites' = invites
        PROVE  OnHasSender'
    <2>1. Active' = Active
      BY <1>1 DEF Active
    <2>2. \A s \in Requests : req'[s] = req[s] \/ (s = r /\ req'[s] = q)
      BY <1>t, <1>1 DEF Now
    <2> QED BY <1>1, <2>1, <2>2, KeepsSenders
  <1>2. ASSUME NEW r \in Requests, SaveNew(r) PROVE OnHasSender'
    <2> DEFINE m == n + 1
    <2>1. /\ DOMAIN invites' = 1..m /\ invites'[m] = NewInvite
          /\ req' = [req EXCEPT ![r] = [step |-> "mail", seen |-> {}, invite |-> m]]
      BY <1>2, SaveNewFacts
    <2>2. \A i \in 1..n : invites'[i] = IF i \in req[r].seen THEN Off("Replaced") ELSE invites[i]
      BY <1>t, <1>2 DEF SaveNew
    <2>3. req[r].step = "replace"
      BY <1>2 DEF SaveNew, At
    <2>4. m \notin Active
      BY <1>t DEF Active
    <2>5. \A i \in Active' : i = m \/ (i \in Active /\ i \notin req[r].seen)
      <3>1. ASSUME NEW i \in Active', i # m PROVE i \in Active /\ i \notin req[r].seen
        <4>1. i \in 1..n
          BY <1>t, <2>1, <3>1 DEF Active
        <4> QED BY <1>t, <2>2, <3>1, <4>1 DEF Active, Off
      <3> QED BY <3>1
    <2>6. PICK f \in [Active -> Requests] : Sends(f)
      BY DEF OnHasSender
    <2> DEFINE g == [i \in Active' |-> IF i = m THEN r ELSE f[i]]
    <2> HIDE DEF m, n
    <2>7. g \in [Active' -> Requests]
      BY <2>5, <2>6
    <2>8. \A i \in Active' : i # m => f[i] # r
      BY <2>3, <2>5, <2>6 DEF Sends
    <2>9. g \in Injection(Active', Requests)
      <3>1. \A i, j \in Active : f[i] = f[j] => i = j
        BY <2>6 DEF Sends, Injection, IsInjective
      <3>2. \A i, j \in Active' : g[i] = g[j] => i = j
        BY <2>5, <2>8, <3>1
      <3> QED BY <2>7, <3>2 DEF Injection, IsInjective
    <2>10. req'[r].step = "mail" /\ \A s \in Requests \ {r} : req'[s] = req[s]
      BY <1>t, <2>1
    <2>11. \A i \in Active' : req'[g[i]].step = "replace" => i \in req'[g[i]].seen
      <3>1. ASSUME NEW i \in Active', req'[g[i]].step = "replace" PROVE i \in req'[g[i]].seen
        <4>1. g[i] # r
          BY <2>10, <3>1
        <4>2. i # m /\ g[i] = f[i] /\ i \in Active /\ f[i] \in Requests
          BY <2>5, <2>6, <4>1
        <4>3. req'[g[i]] = req[f[i]]
          BY <2>10, <4>1, <4>2
        <4> QED BY <2>6, <3>1, <4>2, <4>3 DEF Sends
      <3> QED BY <3>1
    <2> HIDE DEF g
    <2> QED BY <2>7, <2>9, <2>11 DEF OnHasSender, Sends
  <1>3. ASSUME NEW r \in Requests, LoadOld(r) PROVE OnHasSender'
    BY <1>1, <1>3 DEF LoadOld
  <1>4. ASSUME NEW r \in Requests, Mail(r) \/ Fails(r) PROVE OnHasSender'
    BY <1>1, <1>4 DEF Mail, Fails, Idle
  <1>5. ASSUME NEW r \in Requests, MailFails(r) \/ Use(r) \/ Expire(r) PROVE OnHasSender'
    <2>1. req[r].invite \in DOMAIN invites
      BY <1>5 DEF MailFails, Use, Expire, At, ITypeOK, Refers
    <2>2. PICK why \in Reason : invites' = [invites EXCEPT ![req[r].invite] = Off(why)]
      BY <1>5 DEF MailFails, Use, Expire, Reason
    <2>3. Active' \subseteq Active
      <3>1. /\ DOMAIN invites' = DOMAIN invites
            /\ invites'[req[r].invite] = Off(why)
            /\ \A j \in DOMAIN invites \ {req[r].invite} : invites'[j] = invites[j]
        BY <2>1, <2>2, SwitchOff
      <3> QED BY <3>1 DEF Active, Off
    <2>4. req' = [req EXCEPT ![r] = Idle]
      BY <1>5 DEF MailFails, Use, Expire, Now
    <2>5. \A s \in Requests : req'[s].step = "replace" => req'[s] = req[s]
      BY <1>t, <2>4 DEF Idle
    <2> QED BY <2>3, <2>5, KeepsSenders
  <1>6. ASSUME NEW r \in Requests, NEW i \in DOMAIN invites, Take(r, i) PROVE OnHasSender'
    BY <1>1, <1>6 DEF Take
  <1>7. ASSUME NEW i \in DOMAIN invites, GrowOld(i) PROVE OnHasSender'
    BY <1>0, <1>7 DEF GrowOld
  <1>8. CASE UNCHANGED vars
    BY <1>0, <1>8 DEF vars
  <1> QED
    BY <1>2, <1>3, <1>4, <1>5, <1>6, <1>7, <1>8 DEF Next, Send

\* Senders that overlap do not see each other's invitations, so a user may have
\* several that work, but never more than there are requests in flight.
THEOREM ActiveCorrect == Spec => []ActiveIsBounded
  <1>1. Init => ITypeOK /\ OnHasSender
    BY TypeInit, SenderInit
  <1>2. ITypeOK /\ OnHasSender /\ [Next]_vars => ITypeOK' /\ OnHasSender'
    BY TypeStep, SenderStep
  <1>3. OnHasSender => ActiveIsBounded
    <2> SUFFICES ASSUME OnHasSender PROVE ActiveIsBounded
      OBVIOUS
    <2>1. PICK f : f \in Injection(Active, Requests)
      BY DEF OnHasSender, Sends
    <2> QED BY <2>1, RequestsAssumption, FS_Injection DEF ActiveIsBounded
  <1> QED BY <1>1, <1>2, <1>3, PTL DEF Spec
=============================================================================
