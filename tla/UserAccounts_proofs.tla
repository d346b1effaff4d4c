------------------------ MODULE UserAccounts_proofs ------------------------
(***************************************************************************)
(* Theorems about UserAccounts, for every set of addresses, operations and *)
(* requests and every limit, and their proofs.                             *)
(***************************************************************************)
EXTENDS UserAccounts, SequenceTheorems, FiniteSetTheorems, TLAPS

----------------------------------------------------------------------------
(* The parts of the inductive invariant.                                   *)

\* Types as far as the proofs need them: an address is a sequence of what
\* addresses are made of.
Word == Email \cup (1..MaxDay)

SomeRow == [email : Seq(Word), active : BOOLEAN, visible : BOOLEAN, here : BOOLEAN]

SomeRequest == [op : Operation, step : Step, user : Nat, email : Seq(Word),
                sets : SUBSET Setting, row : SomeRow]

Typed ==
  /\ users \in Seq(SomeRow)
  /\ req \in [Requests -> SomeRequest]
  /\ byHand \subseteq DOMAIN users /\ byPatch \subseteq DOMAIN users

\* What a PATCH of a user may set: not IsVisible.
OfPatch == {"on", "off", "tenant"}

\* A copy agrees with itself as rows do, and what is done with it is allowed; d are
\* the rows there are, h those that support has written and f those written by
\* support or a PATCH of flags.
CopyOK(q, d, h, f) ==
  /\ q.step = "add" => q.op = "create" /\ Len(q.email) = 1
  /\ q.step = "load" => q.op = "reactivate" /\ q.email = <<>>
  /\ q.step \in {"add", "load"} => q.sets = {}
  /\ q.step = "save" =>
       /\ q.user \in d
       /\ Len(q.row.email) > 0
       /\ q.email # <<>> => Len(q.email) = 1
       /\ q.op \in {"deactivate", "reactivate", "delete"} => q.user # Owner
       /\ q.op = "create" => Len(q.row.email) = 1 /\ q.user \in h
       /\ q.op \in {"update", "patch"} => q.row.visible
       /\ q.op = "patch" => q.sets \subseteq OfPatch
       /\ q.op \notin {"patch", "supportPatch"} => q.sets = {}
       /\ q.user \notin h => (q.row.visible <=> Len(q.row.email) = 1)
       /\ q.user \notin f => q.row.here
       /\ q.user \notin f /\ q.user = Owner => q.row.active /\ q.row.visible

CopiesOK == \A r \in Requests : CopyOK(req[r], DOMAIN users, byHand, Forced)

HaveAddress == \A u \in DOMAIN users : Len(users[u].email) > 0

\* Nobody leaves the tenant but by a PATCH.
AreHere == \A u \in DOMAIN users \ Forced : users[u].here

\* A save that may seat a user who was not: it writes every column of a copy of a
\* user in use, or revives one.
Seating(q) ==
  /\ q.step = "save"
  /\ \/ q.op = "create"
     \/ /\ q.op \in {"update", "patch", "complete", "supportPatch"} /\ q.sets = {}
        /\ q.row.active /\ q.row.visible /\ q.row.here

\* The users that count, with those that a save may seat.
Seats == Seated \ Forced

\* Who those are.
SeatsAre ==
  \A u : u \in Seats <=> /\ u \notin Forced
                         /\ \/ u \in InUse
                            \/ \E x \in Requests : Seating(req[x]) /\ req[x].user = u

AccountsInv == Typed /\ HaveAddress /\ AreHere /\ CopiesOK /\ DeletedGivesUpAddress /\ OwnerStaysIn

----------------------------------------------------------------------------
(* Rows and copies.                                                        *)

LEMMA Rows ==
  ASSUME Typed
  PROVE  /\ Len(users) \in Nat /\ DOMAIN users = 1..Len(users)
         /\ \A u \in DOMAIN users : /\ users[u] \in SomeRow
                                   /\ Len(users[u].email) \in Nat
         /\ \A r \in Requests : req[r] \in SomeRequest
  <1>1. users \in Seq(SomeRow)
    BY DEF Typed
  <1>2. Len(users) \in Nat /\ DOMAIN users = 1..Len(users)
    BY <1>1
  <1>3. \A u \in DOMAIN users : users[u] \in SomeRow
    BY <1>1, <1>2, ElementOfSeq
  <1>4. \A u \in DOMAIN users : Len(users[u].email) \in Nat
    BY <1>3 DEF SomeRow
  <1> QED BY <1>2, <1>3, <1>4 DEF Typed

\* Words and addresses.
LEMMA OneWord ==
  ASSUME NEW e \in Email
  PROVE  <<e>> \in Seq(Word) /\ Len(<<e>>) = 1
  BY DEF Word

LEMMA OneMoreWord ==
  ASSUME NEW a \in Seq(Word), NEW day \in 1..MaxDay
  PROVE  Append(a, day) \in Seq(Word) /\ Len(Append(a, day)) = Len(a) + 1
  <1>1. day \in Word
    BY DEF Word
  <1> QED BY <1>1, AppendProperties

LEMMA IdleOK == Idle \in SomeRequest /\ \A d, h, f : CopyOK(Idle, d, h, f)
  <1>1. <<>> \in Seq(Word)
    BY EmptySeq
  <1>2. NoRow \in SomeRow
    BY <1>1 DEF NoRow, SomeRow
  <1>3. Idle \in SomeRequest
    BY <1>1, <1>2 DEF Idle, SomeRequest, Operation, Step
  <1>4. \A d, h, f : CopyOK(Idle, d, h, f)
    BY DEF Idle, CopyOK
  <1> QED BY <1>3, <1>4

\* A copy stays as good when there are more rows, or more that are excepted.
LEMMA CopyKept ==
  ASSUME NEW q, NEW d, NEW h, NEW f, CopyOK(q, d, h, f),
         NEW d2, NEW h2, NEW f2, d \subseteq d2, h \subseteq h2, f \subseteq f2
  PROVE  CopyOK(q, d2, h2, f2)
  BY DEF CopyOK

\* A copy that was just made.
LEMMA FreshCopy ==
  ASSUME AccountsInv, NEW q \in SomeRequest, q.step = "save",
         q.user \in DOMAIN users, q.row = users[q.user],
         q.email # <<>> => Len(q.email) = 1,
         q.op \in {"deactivate", "reactivate", "delete"} => q.user # Owner,
         q.op = "create" => Len(q.row.email) = 1 /\ q.user \in byHand,
         q.op \in {"update", "patch"} => q.row.visible,
         q.op = "patch" => q.sets \subseteq OfPatch,
         q.op \notin {"patch", "supportPatch"} => q.sets = {}
  PROVE  CopyOK(q, DOMAIN users, byHand, Forced)
  <1>1. Len(q.row.email) > 0
    BY DEF AccountsInv, HaveAddress
  <1>2. q.user \notin byHand => (q.row.visible <=> Len(q.row.email) = 1)
    BY DEF AccountsInv, DeletedGivesUpAddress
  <1>3. q.user \notin Forced /\ q.user = Owner => q.row.active /\ q.row.visible
    BY DEF AccountsInv, OwnerStaysIn, InUse
  <1>4. q.user \notin Forced => q.row.here
    BY DEF AccountsInv, AreHere
  <1> QED BY <1>1, <1>2, <1>3, <1>4 DEF CopyOK

\* What each operation writes, column by column.
LEMMA MergedFacts ==
  ASSUME Typed, NEW q \in SomeRequest, q.user \in DOMAIN users, NEW day \in 1..MaxDay
  PROVE  LET m == Merged(q, day) IN
         /\ m \in SomeRow
         /\ q.op = "deactivate" => ~m.active
         /\ q.op \in {"deactivate", "reactivate"} =>
              m.email = users[q.user].email /\ m.visible = users[q.user].visible
         /\ q.op \in {"deactivate", "reactivate", "delete"} => m.here = users[q.user].here
         /\ q.op = "delete" => m.email = Append(q.row.email, day) /\ ~m.visible
         /\ q.op \in {"update", "patch", "complete", "supportPatch"} =>
              m.email = q.row.email \/ (m.email = q.email /\ q.email # <<>>)
         /\ q.op = "complete" => m.email = q.row.email
         /\ q.op \in {"update", "patch", "complete"} /\ q.sets \subseteq OfPatch =>
              m.visible = q.row.visible
         /\ q.op \in {"update", "patch", "complete"} /\ q.sets = {} =>
              m.active = q.row.active /\ m.here = q.row.here
         /\ q.op = "create" => m.email = q.row.email /\ m.visible /\ m.active /\ m.here
         /\ q.op = "supportReactivate" => m.email = users[q.user].email
  <1> DEFINE c == Changed(q, day)
             m == Merged(q, day)
  <1>1. /\ q.row \in SomeRow /\ q.email \in Seq(Word) /\ q.op \in Operation
        /\ Append(q.row.email, day) \in Seq(Word)
    BY OneMoreWord DEF SomeRequest, SomeRow
  <1>2. Patched(q) \in SomeRow
    BY <1>1 DEF Patched, SomeRow
  <1>3. c \in SomeRow
    <2>1. CASE q.op \in {"update", "patch", "supportPatch"}
      BY <1>2, <2>1 DEF Changed
    <2>2. CASE q.op \notin {"update", "patch", "supportPatch"}
      BY <1>1, <2>2 DEF Changed, SomeRow, NewRow, Operation
    <2> QED BY <2>1, <2>2
  <1>4. /\ m.email = IF "email" \in Columns(q.op) THEN c.email ELSE users[q.user].email
        /\ m.active = IF "active" \in Columns(q.op) THEN c.active ELSE users[q.user].active
        /\ m.visible = IF "visible" \in Columns(q.op) THEN c.visible ELSE users[q.user].visible
        /\ m.here = IF "here" \in Columns(q.op) THEN c.here ELSE users[q.user].here
    BY DEF Merged, Column
  <1>5. users[q.user] \in SomeRow
    BY Rows
  <1>6. m = [email |-> m.email, active |-> m.active, visible |-> m.visible, here |-> m.here]
    BY DEF Merged, Column
  <1>7. m \in SomeRow
    <2>1. m.email \in Seq(Word) /\ m.active \in BOOLEAN /\ m.visible \in BOOLEAN /\ m.here \in BOOLEAN
      BY <1>3, <1>4, <1>5 DEF SomeRow
    <2> HIDE DEF m
    <2> QED BY <1>6, <2>1 DEF SomeRow
  <1> HIDE DEF m
  <1>8. CASE q.op \in {"update", "patch", "supportPatch"}
    <2>1. m.email = c.email /\ m.active = c.active /\ m.visible = c.visible /\ m.here = c.here
      BY <1>4, <1>8 DEF Columns, Column
    <2>2. c = Patched(q)
      BY <1>8 DEF Changed
    <2>3. /\ Patched(q).email = q.row.email \/ (Patched(q).email = q.email /\ q.email # <<>>)
          /\ q.sets \subseteq OfPatch => Patched(q).visible = q.row.visible
          /\ q.sets = {} => Patched(q).active = q.row.active /\ Patched(q).here = q.row.here
      BY <1>1 DEF Patched, OfPatch, SomeRow
    <2> QED BY <1>7, <1>8, <2>1, <2>2, <2>3 DEF m
  <1>9. CASE q.op \notin {"update", "patch", "supportPatch"}
    <2>1. /\ q.op = "deactivate" => ~m.active
          /\ q.op \in {"deactivate", "reactivate"} => m.email = users[q.user].email /\ m.visible = users[q.user].visible
          /\ q.op \in {"deactivate", "reactivate", "delete"} => m.here = users[q.user].here
          /\ q.op = "delete" => m.email = Append(q.row.email, day) /\ ~m.visible
      BY <1>1, <1>4, <1>9 DEF Columns, Changed, SomeRow
    <2>2. /\ q.op = "complete" => /\ m.email = q.row.email /\ m.visible = q.row.visible
                                  /\ m.active = q.row.active /\ m.here = q.row.here
          /\ q.op = "create" => m.email = q.row.email /\ m.visible /\ m.active /\ m.here
          /\ q.op = "supportReactivate" => m.email = users[q.user].email
      BY <1>1, <1>4, <1>9 DEF Columns, Column, Changed, NewRow, SomeRow
    <2> QED BY <1>7, <1>9, <2>1, <2>2 DEF m
  <1> QED BY <1>8, <1>9

----------------------------------------------------------------------------
(* Steps.                                                                  *)

LEMMA AccountsInit == Init => AccountsInv
  <1> SUFFICES ASSUME Init PROVE AccountsInv
    OBVIOUS
  <1>1. PICK e \in Email : users = <<NewRow(<<e>>)>>
    BY DEF Init
  <1>2. NewRow(<<e>>) \in SomeRow
    BY OneWord DEF NewRow, SomeRow
  <1>3. /\ users \in Seq(SomeRow) /\ Len(users) = 1 /\ DOMAIN users = {1}
        /\ users[1] = NewRow(<<e>>)
    BY <1>1, <1>2
  <1>4. req = [r \in Requests |-> Idle] /\ byHand = {} /\ byPatch = {}
    BY DEF Init
  <1>5. Typed
    BY <1>3, <1>4, IdleOK DEF Typed
  <1>6. CopiesOK
    BY <1>4, IdleOK DEF CopiesOK
  <1>7. /\ users[1].active /\ users[1].visible /\ users[1].here /\ Len(users[1].email) = 1
    BY <1>3, OneWord DEF NewRow
  <1>8. HaveAddress /\ AreHere /\ DeletedGivesUpAddress /\ OwnerStaysIn
    BY <1>3, <1>7 DEF HaveAddress, AreHere, DeletedGivesUpAddress, OwnerStaysIn, InUse, Owner
  <1> QED BY <1>5, <1>6, <1>8 DEF AccountsInv

\* A step that changes one request only.
LEMMA KeepsRows ==
  ASSUME AccountsInv, UNCHANGED <<users, history>>,
         NEW r \in Requests, NEW q \in SomeRequest, CopyOK(q, DOMAIN users, byHand, Forced),
         req' = [req EXCEPT ![r] = q]
  PROVE  AccountsInv'
  <1>1. /\ req' \in [Requests -> SomeRequest]
        /\ \A x \in Requests : req'[x] = IF x = r THEN q ELSE req[x]
    BY DEF AccountsInv, Typed
  <1>2. Typed'
    BY <1>1 DEF AccountsInv, Typed, history
  <1>3. CopiesOK'
    BY <1>1 DEF AccountsInv, CopiesOK, Forced, history
  <1>4. HaveAddress' /\ AreHere' /\ DeletedGivesUpAddress' /\ OwnerStaysIn'
    BY DEF AccountsInv, HaveAddress, AreHere, DeletedGivesUpAddress, OwnerStaysIn, InUse, Forced, history
  <1> QED BY <1>2, <1>3, <1>4 DEF AccountsInv

\* A step that ends one request and leaves the rows good.
LEMMA EndsOK ==
  ASSUME AccountsInv, NEW r \in Requests, Ends(r),
         users' \in Seq(SomeRow), DOMAIN users \subseteq DOMAIN users',
         byHand \subseteq byHand', byHand' \subseteq DOMAIN users',
         byPatch \subseteq byPatch', byPatch' \subseteq DOMAIN users',
         HaveAddress', AreHere', DeletedGivesUpAddress', OwnerStaysIn'
  PROVE  AccountsInv'
  <1>1. /\ req' \in [Requests -> SomeRequest]
        /\ \A x \in Requests : req'[x] = IF x = r THEN Idle ELSE req[x]
    BY IdleOK DEF AccountsInv, Typed, Ends
  <1>2. Typed'
    BY <1>1 DEF Typed
  <1>3. ASSUME NEW x \in Requests PROVE CopyOK(req'[x], DOMAIN users', byHand', Forced')
    <2>1. CASE x = r
      BY <1>1, <2>1, IdleOK
    <2>2. CASE x # r
      <3>1. CopyOK(req[x], DOMAIN users, byHand, Forced)
        BY DEF AccountsInv, CopiesOK
      <3>2. CopyOK(req[x], DOMAIN users', byHand', Forced')
        <4>1. Forced \subseteq Forced'
          BY DEF Forced
        <4> QED BY <3>1, <4>1, CopyKept
      <3> QED BY <1>1, <2>2, <3>2
    <2> QED BY <2>1, <2>2
  <1>4. CopiesOK'
    BY <1>3 DEF CopiesOK
  <1> QED BY <1>2, <1>4 DEF AccountsInv

LEMMA AdmitStep ==
  ASSUME AccountsInv, NEW r \in Requests, Admit(r)
  PROVE  AccountsInv'
  <1>0. UNCHANGED <<users, history>>
    BY DEF Admit
  <1>1. ASSUME NEW e \in Email, req' = [req EXCEPT ![r] = Asked("create", "add", 0, <<e>>, {}, NoRow)]
        PROVE  AccountsInv'
    <2> DEFINE q == Asked("create", "add", 0, <<e>>, {}, NoRow)
    <2>1. q \in SomeRequest
      BY OneWord, IdleOK DEF Asked, SomeRequest, Operation, Step, Idle
    <2>2. CopyOK(q, DOMAIN users, byHand, Forced)
      BY OneWord DEF Asked, CopyOK
    <2> QED BY <1>0, <1>1, <2>1, <2>2, KeepsRows
  <1>2. ASSUME NEW u \in DOMAIN users, req' = [req EXCEPT ![r] = Asked("reactivate", "load", u, <<>>, {}, NoRow)]
        PROVE  AccountsInv'
    <2> DEFINE q == Asked("reactivate", "load", u, <<>>, {}, NoRow)
    <2>1. u \in Nat
      BY Rows DEF AccountsInv
    <2>2. q \in SomeRequest
      BY <2>1, IdleOK DEF Asked, SomeRequest, Operation, Step, Idle
    <2>3. CopyOK(q, DOMAIN users, byHand, Forced)
      BY DEF Asked, CopyOK
    <2> QED BY <1>0, <1>2, <2>2, <2>3, KeepsRows
  <1> QED BY <1>1, <1>2 DEF Admit

LEMMA AddUserStep ==
  ASSUME AccountsInv, NEW r \in Requests, AddUser(r)
  PROVE  AccountsInv'
  <1> DEFINE n == Len(users)
             a == req[r].email
  <1>t. /\ n \in Nat /\ DOMAIN users = 1..n /\ req[r] \in SomeRequest /\ a \in Seq(Word)
        /\ users \in Seq(SomeRow)
    BY Rows DEF AccountsInv, Typed, SomeRequest
  <1>a. req[r].step = "add" /\ req[r].op = "create" /\ Len(a) = 1 /\ req[r].sets = {}
    BY DEF AddUser, AccountsInv, CopiesOK, CopyOK
  <1>b. byHand' = byHand /\ byPatch' = byPatch /\ Forced' = Forced /\ UNCHANGED history
    BY DEF AddUser, history, Forced
  <1>1. CASE users' = Append(users, NewRow(a)) /\ Ends(r)
    <2>1. NewRow(a) \in SomeRow
      BY <1>t DEF NewRow, SomeRow
    <2>2. /\ users' \in Seq(SomeRow) /\ Len(users') = n + 1
          /\ \A u \in 1..n : users'[u] = users[u]
          /\ users'[n + 1] = NewRow(a)
      BY <1>1, <1>t, <2>1, AppendProperties
    <2>3. DOMAIN users' = 1..(n + 1) /\ DOMAIN users \subseteq DOMAIN users'
      BY <1>t, <2>2
    <2>4. byHand \subseteq DOMAIN users /\ byPatch \subseteq DOMAIN users
      BY DEF AccountsInv, Typed
    <2>5. /\ users'[n + 1].active /\ users'[n + 1].visible /\ users'[n + 1].here /\ Len(users'[n + 1].email) = 1
      BY <1>a, <2>2 DEF NewRow
    <2>6. \A u \in DOMAIN users' : u \in DOMAIN users \/ u = n + 1
      BY <1>t, <2>3
    <2> HIDE DEF n, a
    <2>7. \A u \in DOMAIN users : users'[u] = users[u]
      BY <1>t, <2>2
    <2>8. HaveAddress'
      <3>1. Len(users'[n + 1].email) > 0
        BY <2>5
      <3> QED BY <2>6, <2>7, <3>1 DEF AccountsInv, HaveAddress
    <2>8a. AreHere'
      BY <1>b, <2>5, <2>6, <2>7 DEF AccountsInv, AreHere
    <2>9. DeletedGivesUpAddress'
      BY <1>b, <2>5, <2>6, <2>7 DEF AccountsInv, DeletedGivesUpAddress
    <2>10. OwnerStaysIn'
      BY <1>b, <2>3, <2>7 DEF AccountsInv, OwnerStaysIn, InUse
    <2>11. byHand' \subseteq DOMAIN users' /\ byPatch' \subseteq DOMAIN users'
      BY <1>b, <2>3, <2>4
    <2> QED BY <1>1, <1>b, <2>2, <2>3, <2>8, <2>8a, <2>9, <2>10, <2>11, EndsOK
  <1>2. CASE UNCHANGED users /\ Ends(r)
    BY <1>2, <1>b, IdleOK, KeepsRows DEF Ends
  <1>3. ASSUME NEW u \in DOMAIN users, users[u].email = a, ~users[u].visible, UNCHANGED users,
               req' = [req EXCEPT ![r] = [@ EXCEPT !.user = u, !.row = users[u], !.step = "save"]]
        PROVE  AccountsInv'
    <2> DEFINE q == [req[r] EXCEPT !.user = u, !.row = users[u], !.step = "save"]
    <2>1. u \in Nat /\ users[u] \in SomeRow
      BY <1>t, Rows DEF AccountsInv
    <2>2. q \in SomeRequest
      BY <1>t, <2>1 DEF SomeRequest, Step
    <2>3. q.step = "save" /\ q.user = u /\ q.row = users[u] /\ q.op = "create"
          /\ q.sets = {} /\ q.email = a
      BY <1>t, <1>a DEF SomeRequest
    <2>4. u \in byHand
      BY <1>3, <1>a DEF AccountsInv, DeletedGivesUpAddress
    <2>5. req' = [req EXCEPT ![r] = q]
      BY <1>3
    <2> HIDE DEF q
    <2>6. CopyOK(q, DOMAIN users, byHand, Forced)
      BY <1>3, <1>a, <2>2, <2>3, <2>4, FreshCopy
    <2> QED BY <1>3, <1>b, <2>2, <2>5, <2>6, KeepsRows
  <1> QED BY <1>1, <1>2, <1>3 DEF AddUser

LEMMA LoadStep ==
  ASSUME AccountsInv, NEW r \in Requests, Load(r)
  PROVE  AccountsInv'
  <1> DEFINE u == req[r].user
             q == [req[r] EXCEPT !.row = users[u], !.step = "save"]
  <1>1. /\ req[r] \in SomeRequest /\ req[r].step = "load" /\ req[r].op = "reactivate"
        /\ req[r].sets = {} /\ (req[r].email # <<>> => Len(req[r].email) = 1)
    BY Rows DEF Load, AccountsInv, CopiesOK, CopyOK
  <1>2. UNCHANGED <<users, history>>
    BY DEF Load
  <1>3. CASE Finds("reactivate", u)
    <2>1. u \in DOMAIN users /\ u # Owner
      BY <1>3 DEF Finds, Protected
    <2>2. q \in SomeRequest
      BY <1>1, <2>1, Rows DEF AccountsInv, SomeRequest, Step
    <2>3. q.step = "save" /\ q.user = u /\ q.row = users[u] /\ q.op = "reactivate"
          /\ q.sets = {} /\ q.email = req[r].email
      BY <1>1 DEF SomeRequest
    <2>4. req' = [req EXCEPT ![r] = q]
      BY <1>1, <1>3 DEF Load
    <2> HIDE DEF q
    <2>5. CopyOK(q, DOMAIN users, byHand, Forced)
      BY <1>1, <2>1, <2>2, <2>3, FreshCopy
    <2> QED BY <1>2, <2>2, <2>4, <2>5, KeepsRows
  <1>4. CASE ~Finds("reactivate", u)
    BY <1>1, <1>2, <1>4, IdleOK, KeepsRows DEF Load, Ends
  <1> QED BY <1>3, <1>4

LEMMA BeginStep ==
  ASSUME AccountsInv, NEW r \in Requests, Begin(r)
  PROVE  AccountsInv'
  <1>0. PICK op \in Ops : \E sets \in Settings(op) : \E u \in DOMAIN users, a \in Addresses(sets) :
          /\ ~Counts(op) /\ Finds(op, u)
          /\ req' = [req EXCEPT ![r] = Asked(op, "save", u, a, sets \ {"email"}, users[u])]
    BY DEF Begin
  <1>1. PICK sets \in Settings(op) : \E u \in DOMAIN users, a \in Addresses(sets) :
          /\ ~Counts(op) /\ Finds(op, u)
          /\ req' = [req EXCEPT ![r] = Asked(op, "save", u, a, sets \ {"email"}, users[u])]
    BY <1>0
  <1>2. PICK u \in DOMAIN users, a \in Addresses(sets) :
          /\ ~Counts(op) /\ Finds(op, u)
          /\ req' = [req EXCEPT ![r] = Asked(op, "save", u, a, sets \ {"email"}, users[u])]
    BY <1>1
  <1> DEFINE q == Asked(op, "save", u, a, sets \ {"email"}, users[u])
  <1>3. a \in Seq(Word) /\ (a # <<>> => Len(a) = 1)
    BY OneWord, EmptySeq DEF Addresses
  <1>4. /\ sets \ {"email"} \in SUBSET Setting
        /\ op = "patch" => sets \ {"email"} \subseteq OfPatch
        /\ op \notin {"patch", "supportPatch"} => sets \ {"email"} = {}
    BY OpsAssumption DEF Settings, OfPatch, Setting
  <1>5. q \in SomeRequest
    BY <1>3, <1>4, Rows, OpsAssumption DEF AccountsInv, Asked, SomeRequest, Step
  <1>6. /\ q.step = "save" /\ q.user = u /\ q.row = users[u] /\ q.op = op /\ q.email = a
        /\ q.sets = sets \ {"email"}
    BY DEF Asked
  <1>7. UNCHANGED <<users, history>> /\ req' = [req EXCEPT ![r] = q]
    BY <1>2 DEF Begin
  <1> HIDE DEF q
  <1>8. /\ op \in {"deactivate", "reactivate", "delete"} => u # Owner
        /\ op # "create"
        /\ op \in {"update", "patch"} => users[u].visible
    BY <1>2 DEF Finds, Protected, Counts, Unfiltered, Support
  <1>9. CopyOK(q, DOMAIN users, byHand, Forced)
    BY <1>3, <1>4, <1>5, <1>6, <1>8, FreshCopy
  <1> QED BY <1>5, <1>7, <1>9, KeepsRows

LEMMA SaveStep ==
  ASSUME AccountsInv, NEW r \in Requests, Save(r)
  PROVE  AccountsInv'
  <1> DEFINE q == req[r]
             u == q.user
  <1>1. /\ q \in SomeRequest /\ q.step = "save" /\ CopyOK(q, DOMAIN users, byHand, Forced) /\ Ends(r)
        /\ Typed /\ q.op \in Operation /\ q.row.email \in Seq(Word)
    BY Rows DEF Save, AccountsInv, CopiesOK, SomeRequest, SomeRow
  <1>2. u \in DOMAIN users
    BY <1>1 DEF CopyOK
  <1>3. CASE UNCHANGED <<users, history>>
    BY <1>1, <1>3, IdleOK, KeepsRows DEF Ends
  <1>4. ASSUME NEW day \in 1..MaxDay, users' = [users EXCEPT ![u] = Merged(q, day)], Remembers(q)
        PROVE  AccountsInv'
    <2> DEFINE m == Merged(q, day)
    <2>1. /\ m \in SomeRow
          /\ q.op \in {"deactivate", "reactivate"} => m.email = users[u].email /\ m.visible = users[u].visible
          /\ q.op \in {"deactivate", "reactivate", "delete"} => m.here = users[u].here
          /\ q.op = "delete" => m.email = Append(q.row.email, day) /\ ~m.visible
          /\ q.op \in {"update", "patch", "complete", "supportPatch"} =>
               m.email = q.row.email \/ (m.email = q.email /\ q.email # <<>>)
          /\ q.op = "complete" => m.email = q.row.email
          /\ q.op \in {"update", "patch", "complete"} /\ q.sets \subseteq OfPatch => m.visible = q.row.visible
          /\ q.op \in {"update", "patch", "complete"} /\ q.sets = {} =>
               m.active = q.row.active /\ m.here = q.row.here
          /\ q.op = "create" => m.email = q.row.email /\ m.visible /\ m.active /\ m.here
          /\ q.op = "supportReactivate" => m.email = users[u].email
      BY <1>1, <1>2, MergedFacts
    <2> HIDE DEF m
    <2>2. /\ users' = [users EXCEPT ![u] = m]
          /\ users' \in Seq(SomeRow) /\ DOMAIN users' = DOMAIN users
          /\ \A v \in DOMAIN users : users'[v] = IF v = u THEN m ELSE users[v]
      <3>1. users' = [users EXCEPT ![u] = m]
        BY <1>4 DEF m
      <3>2. users \in Seq(SomeRow) /\ u \in 1..Len(users)
        BY <1>1, <1>2, Rows DEF Typed
      <3>3. users' \in Seq(SomeRow)
        BY <3>1, <3>2, <2>1, ExceptSeq
      <3> QED BY <3>1, <3>2, <3>3
    <2>3. /\ byHand \subseteq byHand' /\ byHand' \subseteq DOMAIN users
          /\ byPatch \subseteq byPatch' /\ byPatch' \subseteq DOMAIN users
          /\ q.op \in Support => u \in byHand'
          /\ q.op = "patch" /\ q.sets # {} => u \in byPatch'
      BY <1>1, <1>2, <1>4 DEF Typed, Remembers
    <2>3a. Forced \subseteq Forced' /\ byHand \subseteq Forced /\ byHand' \subseteq Forced'
      BY <2>3 DEF Forced
    <2>4. q.op = "delete" => Len(m.email) = Len(q.row.email) + 1
      BY <1>1, <2>1, OneMoreWord
    <2>5. /\ Len(q.row.email) \in Nat /\ Len(q.row.email) > 0 /\ Len(users[u].email) > 0
          /\ q.email # <<>> => Len(q.email) = 1
      BY <1>1, <1>2 DEF CopyOK, AccountsInv, HaveAddress
    <2>s. /\ q.op \in {"update", "patch", "complete"} => q.sets \subseteq OfPatch
          /\ q.op \in {"update", "patch", "complete"} /\ u \notin Forced' => q.sets = {}
          /\ u \notin Forced' => q.op \notin Support /\ q.op # "create"
          /\ u \notin byHand' => q.op \notin Support /\ q.op # "create"
      BY <1>1, <2>3, <2>3a DEF CopyOK, Forced
    <2> HIDE DEF q, u
    <2>6. Len(m.email) > 0
      <3>1. CASE q.op \in {"deactivate", "reactivate", "supportReactivate"}
        BY <2>1, <2>5, <3>1
      <3>2. CASE q.op = "delete"
        BY <2>4, <2>5, <3>2
      <3>3. CASE q.op \in {"update", "patch", "complete", "supportPatch"}
        <4>1. CASE m.email = q.row.email
          BY <2>5, <4>1
        <4>2. CASE m.email = q.email /\ q.email # <<>>
          <5>1. Len(m.email) = 1
            BY <2>5, <4>2
          <5> QED BY <5>1
        <4> QED BY <2>1, <3>3, <4>1, <4>2
      <3>4. CASE q.op = "create"
        BY <2>1, <2>5, <3>4
      <3>5. q.op \in Operation
        BY <1>1
      <3> QED BY <3>1, <3>2, <3>3, <3>4, <3>5 DEF Operation
    <2>7. HaveAddress'
      BY <2>2, <2>6 DEF AccountsInv, HaveAddress
    <2>8. u \notin byHand' => (m.visible <=> Len(m.email) = 1)
      <3> SUFFICES ASSUME u \notin byHand' PROVE m.visible <=> Len(m.email) = 1
        OBVIOUS
      <3>1. q.op \notin Support /\ u \notin byHand /\ q.op # "create"
        BY <2>3, <2>s
      <3>2. users[u].visible <=> Len(users[u].email) = 1
        BY <1>2, <3>1 DEF AccountsInv, DeletedGivesUpAddress
      <3>3. /\ q.row.visible <=> Len(q.row.email) = 1
            /\ q.op \in {"update", "patch"} => q.row.visible
        BY <1>1, <3>1 DEF CopyOK, u
      <3>4. CASE q.op \in {"deactivate", "reactivate"}
        BY <2>1, <3>2, <3>4
      <3>5. CASE q.op = "delete"
        BY <2>1, <2>4, <2>5, <3>5
      <3>6. CASE q.op \in {"update", "patch"}
        <4>1. m.visible
          BY <2>1, <2>s, <3>3, <3>6
        <4>2. m.email = q.row.email \/ (m.email = q.email /\ q.email # <<>>)
          BY <2>1, <3>6
        <4>3. Len(m.email) = 1
          BY <2>5, <3>3, <3>6, <4>2
        <4> QED BY <4>1, <4>3
      <3>7. CASE q.op = "complete"
        BY <2>1, <2>s, <3>3, <3>7
      <3> QED BY <1>1, <3>1, <3>4, <3>5, <3>6, <3>7 DEF Operation, Support
    <2>9. DeletedGivesUpAddress'
      BY <2>2, <2>3, <2>8 DEF AccountsInv, DeletedGivesUpAddress
    <2>h. u \notin Forced' => m.here
      <3> SUFFICES ASSUME u \notin Forced' PROVE m.here
        OBVIOUS
      <3>1. q.op \notin Support /\ u \notin Forced /\ q.op # "create"
        BY <2>3a, <2>s
      <3>2. users[u].here /\ q.row.here
        BY <1>1, <1>2, <3>1 DEF AccountsInv, AreHere, CopyOK, u
      <3> QED BY <1>1, <2>1, <2>s, <3>1, <3>2 DEF Operation, Support
    <2>9a. AreHere'
      BY <2>2, <2>3a, <2>h DEF AccountsInv, AreHere
    <2>10. OwnerStaysIn'
      <3> SUFFICES ASSUME Owner \notin Forced' PROVE Owner \in InUse'
        BY DEF OwnerStaysIn
      <3>1. Owner \notin Forced /\ Owner \in DOMAIN users /\ users[Owner].active /\ users[Owner].visible
            /\ users[Owner].here
        BY <2>3a DEF AccountsInv, OwnerStaysIn, InUse
      <3>2. CASE u # Owner
        BY <2>2, <3>1, <3>2 DEF InUse
      <3>3. CASE u = Owner
        <4>1. q.op \in {"update", "patch", "complete"} /\ q.row.active /\ q.row.visible
          BY <1>1, <2>s, <3>1, <3>3 DEF CopyOK, u, Operation, Support
        <4>2. m.active /\ m.visible /\ m.here
          BY <2>1, <2>s, <2>h, <3>3, <4>1
        <4> QED BY <2>2, <3>1, <3>3, <4>2 DEF InUse
      <3> QED BY <3>2, <3>3
    <2> QED BY <1>1, <2>2, <2>3, <2>7, <2>9, <2>9a, <2>10, EndsOK
  <1>5. \/ UNCHANGED <<users, history>>
        \/ \E day \in 1..MaxDay :
             users' = [users EXCEPT ![u] = Merged(q, day)] /\ Remembers(q)
    BY DEF Save
  <1> QED BY <1>3, <1>4, <1>5

LEMMA AccountsStep == AccountsInv /\ [Next]_vars => AccountsInv'
  <1> SUFFICES ASSUME AccountsInv, [Next]_vars PROVE AccountsInv'
    OBVIOUS
  <1>1. CASE UNCHANGED vars
    BY <1>1 DEF vars, history, AccountsInv, Typed, HaveAddress, AreHere, CopiesOK, Forced,
                DeletedGivesUpAddress, OwnerStaysIn, InUse
  <1>2. ASSUME NEW r \in Requests, Fails(r) PROVE AccountsInv'
    BY <1>2, IdleOK, KeepsRows DEF Fails, Ends
  <1> QED
    BY <1>1, <1>2, AdmitStep, AddUserStep, LoadStep, BeginStep, SaveStep DEF Next

\* A deleted user has given up its address, and a user that can be seen has not:
\* no interleaving of updates, PATCHes and deletes separates the two columns.
THEOREM DeletedCorrect == Spec => []DeletedGivesUpAddress
  <1>1. AccountsInv => DeletedGivesUpAddress
    BY DEF AccountsInv
  <1> QED BY <1>1, AccountsInit, AccountsStep, PTL DEF Spec

\* The owner is shut out by nobody but support and a PATCH of its own flags: not by
\* the handlers that refuse owners, nor by a copy of its row that somebody saves.
THEOREM OwnerCorrect == Spec => []OwnerStaysIn
  <1>1. AccountsInv => OwnerStaysIn
    BY DEF AccountsInv
  <1> QED BY <1>1, AccountsInit, AccountsStep, PTL DEF Spec

----------------------------------------------------------------------------
(* Types in full: what addresses and copies look like.                     *)

\* One word is an address, and a day more makes another while it is not too long.
LEMMA AddressFacts ==
  /\ \A e \in Email : <<e>> \in Address
  /\ \A a \in Address, day \in 1..MaxDay :
       /\ Len(a) \in Nat /\ Len(a) > 0 /\ a # <<>>
       /\ Len(Append(a, day)) <= MaxTags + 1 => Append(a, day) \in Address
  <1> DEFINE Days(n) == [1..n -> 1..MaxDay]
  <1>0. MaxTags \in Nat /\ 0 \in 0..MaxTags
    BY BoundsAssumption
  <1>1. \A a : a \in Address <=> \E e \in Email, n \in 0..MaxTags : \E d \in Days(n) : a = <<e>> \o d
    <2>1. \A a : a \in Address <=>
            \E e \in Email : \E d \in UNION {Days(n) : n \in 0..MaxTags} : a = <<e>> \o d
      BY DEF Address
    <2>2. \A d : d \in UNION {Days(n) : n \in 0..MaxTags} <=> \E n \in 0..MaxTags : d \in Days(n)
      OBVIOUS
    <2> HIDE DEF Days
    <2> QED BY <2>1, <2>2
  <1>2. \A n \in Nat : \A d \in Days(n) :
          d \in Seq(1..MaxDay) /\ Len(d) = n
    <2>1. SUFFICES ASSUME NEW n \in Nat, NEW d \in Days(n)
                   PROVE  d \in Seq(1..MaxDay) /\ Len(d) = n
      OBVIOUS
    <2>2. d \in Seq(1..MaxDay)
      BY SeqDef
    <2> QED BY <2>2
  <1>3. ASSUME NEW e \in Email PROVE <<e>> \in Address
    <2>1. <<>> \in Days(0) /\ <<e>> \o <<>> = <<e>>
      BY EmptySeq
    <2> HIDE DEF Days
    <2> QED BY <1>0, <1>1, <2>1
  <1>4. ASSUME NEW a \in Address, NEW day \in 1..MaxDay
        PROVE  /\ Len(a) \in Nat /\ Len(a) > 0 /\ a # <<>>
               /\ Len(Append(a, day)) <= MaxTags + 1 => Append(a, day) \in Address
    <2>0. PICK e \in Email, n \in 0..MaxTags : \E d \in Days(n) : a = <<e>> \o d
      BY <1>1
    <2>1. PICK d \in Days(n) : a = <<e>> \o d
      BY <2>0
    <2>2. n \in Nat
      BY <1>0
    <2>3. d \in Seq(1..MaxDay) /\ Len(d) = n
      BY <1>2, <2>2
    <2> DEFINE S == Email \cup (1..MaxDay)
    <2>4. d \in Seq(S) /\ <<e>> \in Seq(S) /\ Len(<<e>>) = 1 /\ day \in S
      BY <2>3
    <2>5. a \in Seq(S) /\ Len(a) = 1 + n
      BY <2>1, <2>3, <2>4, ConcatProperties
    <2>6. Len(Append(a, day)) = n + 2 /\ Append(a, day) = <<e>> \o Append(d, day)
      BY <2>1, <2>2, <2>3, <2>4, <2>5, AppendProperties
    <2>7. Append(d, day) \in Days(n + 1)
      <3>1. Append(d, day) \in Seq(1..MaxDay) /\ Len(Append(d, day)) = n + 1
        BY <2>2, <2>3, AppendProperties
      <3> QED BY <3>1, LenProperties
    <2>8. Len(Append(a, day)) <= MaxTags + 1 => n + 1 \in 0..MaxTags
      BY <1>0, <2>2, <2>6
    <2> HIDE DEF Days
    <2>9. Len(Append(a, day)) <= MaxTags + 1 => Append(a, day) \in Address
      BY <1>1, <2>6, <2>7, <2>8
    <2>10. a # <<>>
      BY <2>2, <2>5
    <2> QED BY <2>2, <2>5, <2>9, <2>10
  <1> QED BY <1>3, <1>4

LEMMA RowsOfType ==
  ASSUME TypeOK
  PROVE  /\ DOMAIN users = 1..Len(users) /\ Len(users) \in Nat
         /\ \A u \in DOMAIN users : users[u] \in Row
         /\ \A r \in Requests : req[r] \in Request
  <1>1. users \in Seq(Row) /\ \A r \in Requests : req[r] \in Request
    BY DEF TypeOK
  <1> QED BY <1>1, ElementOfSeq, LenProperties

\* What a request that goes on has: an address where it needs one, and a copy.
LEMMA HeldOfType ==
  ASSUME TypeOK, AccountsInv, NEW r \in Requests
  PROVE  /\ req[r].step = "add" => req[r].email \in Address
         /\ req[r].step = "save" => /\ req[r].user \in DOMAIN users
                                    /\ req[r].row \in Row
  <1>1. CopyOK(req[r], DOMAIN users, byHand, Forced) /\ req[r] \in Request
    BY RowsOfType DEF AccountsInv, CopiesOK
  <1>2. Len(<<>>) = 0 /\ \A e : Len(e) = 1 => e # <<>>
    OBVIOUS
  <1>3. req[r].email \in Address \cup {<<>>} /\ req[r].row \in Row \cup {NoRow}
    BY <1>1 DEF Request
  <1>4. req[r].step = "add" => req[r].email \in Address
    <2>1. req[r].step = "add" => Len(req[r].email) = 1
      BY <1>1 DEF CopyOK
    <2> QED BY <1>2, <1>3, <2>1, Zenon
  <1>5. req[r].step = "save" => req[r].user \in DOMAIN users /\ req[r].row \in Row
    <2>1. req[r].step = "save" => req[r].user \in DOMAIN users /\ Len(req[r].row.email) > 0
      BY <1>1 DEF CopyOK
    <2>2. Len(NoRow.email) = 0
      BY <1>2 DEF NoRow
    <2> QED BY <1>3, <2>1, <2>2
  <1> QED BY <1>4, <1>5

LEMMA IdleOfType == Idle \in Request
  BY DEF Idle, Request, Operation, Step

\* A request that takes a copy of a row.
LEMMA CopyOfType ==
  ASSUME NEW q \in Request, NEW u \in Nat, NEW w \in Row
  PROVE  [q EXCEPT !.user = u, !.row = w, !.step = "save"] \in Request
  <1> DEFINE A == Address \cup {<<>>}
             R == Row \cup {NoRow}
  <1>1. Request = [op : Operation, step : Step, user : Nat, email : A, sets : SUBSET Setting, row : R]
    BY DEF Request
  <1>2. w \in R /\ "save" \in Step
    BY DEF Step
  <1> HIDE DEF A, R
  <1> QED BY <1>1, <1>2

\* A save writes a row.
LEMMA MergedOfType ==
  ASSUME TypeOK, NEW q \in Request, q.row \in Row, q.user \in DOMAIN users,
         NEW day \in 1..MaxDay, Len(Merged(q, day).email) <= MaxTags + 1
  PROVE  Merged(q, day) \in Row
  <1> DEFINE c == Changed(q, day)
             m == Merged(q, day)
  <1>1. /\ q.op \in Operation /\ q.row.email \in Address /\ q.row.active \in BOOLEAN
        /\ q.row.visible \in BOOLEAN /\ q.row.here \in BOOLEAN
        /\ q.email # <<>> => q.email \in Address
    BY DEF Request, Row
  <1>2. /\ m.email = IF "email" \in Columns(q.op) THEN c.email ELSE users[q.user].email
        /\ m.active = IF "active" \in Columns(q.op) THEN c.active ELSE users[q.user].active
        /\ m.visible = IF "visible" \in Columns(q.op) THEN c.visible ELSE users[q.user].visible
        /\ m.here = IF "here" \in Columns(q.op) THEN c.here ELSE users[q.user].here
        /\ m = [email |-> m.email, active |-> m.active, visible |-> m.visible, here |-> m.here]
    BY DEF Merged, Column
  <1>3. users[q.user] \in Row
    BY RowsOfType
  <1>4. c.active \in BOOLEAN /\ c.visible \in BOOLEAN /\ c.here \in BOOLEAN
    <2>1. CASE q.op \in {"update", "patch", "supportPatch"}
      <3>1. c = Patched(q)
        BY <2>1 DEF Changed
      <3>2. Patched(q).active \in BOOLEAN /\ Patched(q).visible \in BOOLEAN /\ Patched(q).here \in BOOLEAN
        BY <1>1 DEF Patched
      <3> QED BY <3>1, <3>2
    <2>2. CASE q.op \notin {"update", "patch", "supportPatch"}
      BY <1>1, <2>2 DEF Changed, NewRow, Row, Operation
    <2> QED BY <2>1, <2>2
  <1>5. \/ q.op = "delete" /\ c.email = Append(q.row.email, day)
        \/ c.email = q.email /\ q.email # <<>>
        \/ c.email = q.row.email
    <2>1. CASE q.op \in {"update", "patch", "supportPatch"}
      BY <2>1 DEF Changed, Patched
    <2>2. CASE q.op \notin {"update", "patch", "supportPatch"}
      BY <1>1, <2>2 DEF Changed, NewRow, Row, Operation
    <2> QED BY <2>1, <2>2
  <1>6. q.op = "delete" => m.email = c.email
    BY <1>2 DEF Columns
  <1> HIDE DEF m, c
  <1>7. Len(m.email) <= MaxTags + 1
    BY DEF m
  <1>8. m.email \in Address
    <2>1. CASE q.op = "delete" /\ c.email = Append(q.row.email, day)
      BY <1>1, <1>6, <1>7, <2>1, AddressFacts
    <2>2. CASE c.email = q.email /\ q.email # <<>>
      BY <1>1, <1>2, <1>3, <2>2 DEF Row
    <2>3. CASE c.email = q.row.email
      BY <1>1, <1>2, <1>3, <2>3 DEF Row
    <2> QED BY <1>5, <2>1, <2>2, <2>3
  <1>9. m.active \in BOOLEAN /\ m.visible \in BOOLEAN /\ m.here \in BOOLEAN
    BY <1>2, <1>3, <1>4 DEF Row
  <1> QED BY <1>2, <1>8, <1>9 DEF Row, m

LEMMA TypeInit == Init => TypeOK
  <1> SUFFICES ASSUME Init PROVE TypeOK
    OBVIOUS
  <1>1. PICK e \in Email : users = <<NewRow(<<e>>)>>
    BY DEF Init
  <1>2. NewRow(<<e>>) \in Row
    BY AddressFacts DEF NewRow, Row
  <1>3. users \in Seq(Row) /\ req \in [Requests -> Request] /\ byHand = {} /\ byPatch = {}
    BY <1>1, <1>2, IdleOfType DEF Init
  <1> QED BY <1>3 DEF TypeOK

LEMMA TypeStep == TypeOK /\ AccountsInv /\ [Next]_vars => TypeOK'
  <1> SUFFICES ASSUME TypeOK, AccountsInv, [Next]_vars PROVE TypeOK'
    OBVIOUS
  <1>t. /\ users \in Seq(Row) /\ req \in [Requests -> Request] /\ byHand \subseteq DOMAIN users
        /\ byPatch \subseteq DOMAIN users /\ DOMAIN users = 1..Len(users) /\ Len(users) \in Nat
        /\ \A u \in DOMAIN users : users[u] \in Row
    BY RowsOfType DEF TypeOK
  <1>i. ASSUME NEW r \in Requests, NEW q \in Request, req' = [req EXCEPT ![r] = q],
               UNCHANGED <<users, history>>
        PROVE  TypeOK'
    BY <1>t, <1>i DEF TypeOK, history
  <1>1. CASE UNCHANGED vars
    BY <1>1 DEF vars, history, TypeOK
  <1>2. ASSUME NEW r \in Requests, Admit(r) PROVE TypeOK'
    <2>1. \A e \in Email : Asked("create", "add", 0, <<e>>, {}, NoRow) \in Request
      BY AddressFacts DEF Asked, Request, Operation, Step
    <2>2. \A u \in DOMAIN users : Asked("reactivate", "load", u, <<>>, {}, NoRow) \in Request
      BY <1>t DEF Asked, Request, Operation, Step
    <2>3. \E q \in Request : req' = [req EXCEPT ![r] = q]
      BY <1>2, <2>1, <2>2 DEF Admit
    <2>4. UNCHANGED <<users, history>>
      BY <1>2 DEF Admit
    <2> QED BY <1>i, <2>3, <2>4
  <1>3. ASSUME NEW r \in Requests, AddUser(r) PROVE TypeOK'
    <2>1. req[r].step = "add" /\ req[r] \in Request /\ req[r].email \in Address /\ byHand' = byHand
          /\ byPatch' = byPatch /\ UNCHANGED history
      BY <1>3, HeldOfType, RowsOfType DEF AddUser, history
    <2>2. CASE users' = Append(users, NewRow(req[r].email)) /\ Ends(r)
      <3>1. NewRow(req[r].email) \in Row
        BY <2>1 DEF NewRow, Row
      <3>2. users' \in Seq(Row) /\ Len(users') = Len(users) + 1
        BY <1>t, <2>2, <3>1, AppendProperties
      <3>3. DOMAIN users \subseteq DOMAIN users'
        BY <1>t, <3>2, LenProperties
      <3> QED BY <1>t, <2>1, <2>2, <3>2, <3>3, IdleOfType DEF TypeOK, Ends
    <2>3. CASE UNCHANGED users /\ Ends(r)
      BY <1>i, <2>1, <2>3, IdleOfType DEF Ends
    <2>4. ASSUME NEW u \in DOMAIN users, UNCHANGED users,
                 req' = [req EXCEPT ![r] = [@ EXCEPT !.user = u, !.row = users[u], !.step = "save"]]
          PROVE  TypeOK'
      <3>1. [req[r] EXCEPT !.user = u, !.row = users[u], !.step = "save"] \in Request
        <4>1. u \in Nat /\ users[u] \in Row
          BY <1>t
        <4> QED BY <2>1, <4>1, CopyOfType
      <3> QED BY <1>i, <2>1, <2>4, <3>1
    <2> QED BY <1>3, <2>2, <2>3, <2>4 DEF AddUser
  <1>4. ASSUME NEW r \in Requests, Load(r) PROVE TypeOK'
    <2>1. req[r] \in Request /\ UNCHANGED <<users, history>>
      BY <1>4, RowsOfType DEF Load
    <2>2. CASE Finds(req[r].op, req[r].user)
      <3>1. [req[r] EXCEPT !.row = users[req[r].user], !.step = "save"] \in Request
        BY <1>t, <2>1, <2>2 DEF Finds, Request, Step
      <3> QED BY <1>i, <1>4, <2>1, <2>2, <3>1 DEF Load
    <2>3. CASE ~Finds(req[r].op, req[r].user)
      BY <1>i, <1>4, <2>1, <2>3, IdleOfType DEF Load, Ends
    <2> QED BY <2>2, <2>3
  <1>5. ASSUME NEW r \in Requests, Begin(r) PROVE TypeOK'
    <2>1. \A op \in Ops : \A sets \in Settings(op) : \A u \in DOMAIN users, a \in Addresses(sets) :
            Asked(op, "save", u, a, sets \ {"email"}, users[u]) \in Request
      <3> SUFFICES ASSUME NEW op \in Ops, NEW sets \in Settings(op), NEW u \in DOMAIN users,
                          NEW a \in Addresses(sets)
                   PROVE  Asked(op, "save", u, a, sets \ {"email"}, users[u]) \in Request
        OBVIOUS
      <3>1. sets \ {"email"} \in SUBSET Setting
        BY OpsAssumption DEF Settings, Setting
      <3>2. a \in Address \cup {<<>>}
        BY AddressFacts DEF Addresses
      <3> QED BY <1>t, <3>1, <3>2, OpsAssumption DEF Asked, Request, Step
    <2>2. \E q \in Request : req' = [req EXCEPT ![r] = q]
      BY <1>5, <2>1 DEF Begin
    <2>3. UNCHANGED <<users, history>>
      BY <1>5 DEF Begin
    <2> QED BY <1>i, <2>2, <2>3
  <1>6. ASSUME NEW r \in Requests, Save(r) PROVE TypeOK'
    <2> DEFINE q == req[r]
    <2>1. /\ q \in Request /\ q.step = "save" /\ Ends(r)
          /\ q.user \in DOMAIN users /\ q.row \in Row
      BY <1>6, HeldOfType, RowsOfType DEF Save
    <2>2. CASE UNCHANGED <<users, history>>
      BY <1>i, <2>1, <2>2, IdleOfType DEF Ends
    <2>3. ASSUME NEW day \in 1..MaxDay, Len(Merged(q, day).email) <= MaxTags + 1,
                 users' = [users EXCEPT ![q.user] = Merged(q, day)], Remembers(q)
          PROVE  TypeOK'
      <3>1. Merged(q, day) \in Row
        BY <2>1, <2>3, MergedOfType
      <3>2. users' \in Seq(Row) /\ DOMAIN users' = DOMAIN users
        BY <1>t, <2>1, <2>3, <3>1, ExceptSeq
      <3>3. byHand' \subseteq DOMAIN users /\ byPatch' \subseteq DOMAIN users
        BY <1>t, <2>1, <2>3 DEF Remembers
      <3>4. req' \in [Requests -> Request]
        BY <1>t, <2>1, IdleOfType DEF Ends
      <3> QED BY <3>2, <3>3, <3>4 DEF TypeOK
    <2> QED BY <1>6, <2>2, <2>3 DEF Save
  <1>7. ASSUME NEW r \in Requests, Fails(r) PROVE TypeOK'
    BY <1>i, <1>7, IdleOfType DEF Fails, Ends
  <1> QED BY <1>1, <1>2, <1>3, <1>4, <1>5, <1>6, <1>7 DEF Next

\* However requests interleave, and whatever copies they save, a row has an address
\* followed by the days of its deletions, and a request that goes on has what its
\* handler takes it to have: CreateUser an address, a save a row that was loaded.
THEOREM TypeCorrect == Spec => []TypeOK
  <1> QED BY TypeInit, TypeStep, AccountsInit, AccountsStep, PTL DEF Spec

----------------------------------------------------------------------------
(* The limit.                                                              *)

\* Who has a seat.
LEMMA SeatFacts ==
  ASSUME AccountsInv
  PROVE  \A u : u \in Seats <=> /\ u \notin Forced
                                /\ \/ u \in InUse
                                   \/ \E x \in Requests : Seating(req[x]) /\ req[x].user = u
  <1> SUFFICES ASSUME NEW u
               PROVE  u \in Seats <=> /\ u \notin Forced
                                     /\ \/ u \in InUse
                                        \/ \E x \in Requests : Seating(req[x]) /\ req[x].user = u
    OBVIOUS
  <1>1. ASSUME NEW x \in Requests
        PROVE  (/\ req[x].step = "save" /\ req[x].sets = {}
                /\ Columns(req[x].op) = Column
                /\ LET row == Changed(req[x], 1) IN row.active /\ row.visible /\ row.here)
               <=> Seating(req[x])
    <2> DEFINE q == req[x]
               c == Changed(q, 1)
    <2>1. /\ q \in SomeRequest /\ q.op \in Operation /\ q.row \in SomeRow
          /\ q.step = "save" /\ q.op = "create" => q.sets = {}
      BY Rows DEF SomeRequest, AccountsInv, CopiesOK, CopyOK
    <2> HIDE DEF q
    <2>2. Columns(q.op) = Column
            <=> q.op \in {"create", "update", "patch", "complete", "supportPatch"}
      BY <2>1 DEF Columns, Operation, Column
    <2>3. q.op = "create" => c.active /\ c.visible /\ c.here
      BY <2>1 DEF Changed, NewRow
    <2>4. ASSUME q.op \in {"update", "patch", "complete", "supportPatch"}, q.sets = {}
          PROVE  c.active = q.row.active /\ c.visible = q.row.visible /\ c.here = q.row.here
      <3>1. /\ Patched(q).active = q.row.active /\ Patched(q).visible = q.row.visible
            /\ Patched(q).here = q.row.here
        BY <2>1, <2>4 DEF Patched, SomeRow
      <3>2. c = Patched(q) \/ c = q.row
        BY <2>1, <2>4 DEF Changed
      <3> QED BY <3>1, <3>2
    <2> HIDE DEF c
    <2>5. (/\ q.step = "save" /\ q.sets = {}
           /\ Columns(q.op) = Column
           /\ c.active /\ c.visible /\ c.here)
          <=> Seating(q)
      BY <2>1, <2>2, <2>3, <2>4 DEF Seating
    <2> QED BY <2>5 DEF q, c
  <1>2. Seated = InUse \cup {q.user : q \in {req[r] : r \in {x \in Requests : Seating(req[x])}}}
    BY <1>1 DEF Seated
  <1> QED BY <1>2 DEF Seats

\* Seats are rows, and there are finitely many of them and of requests.
LEMMA Finite ==
  AccountsInv =>
    /\ IsFiniteSet(Seats) /\ Cardinality(Seats) \in Nat
    /\ IsFiniteSet(InUse) /\ Cardinality(InUse) \in Nat
    /\ IsFiniteSet(Admitted) /\ Cardinality(Admitted) \in Nat
    /\ Admitted \subseteq Requests
    /\ Cardinality(Requests) \in Nat /\ Cardinality(Requests) > 0
  <1> SUFFICES ASSUME AccountsInv
               PROVE  /\ IsFiniteSet(Seats) /\ Cardinality(Seats) \in Nat
                      /\ IsFiniteSet(InUse) /\ Cardinality(InUse) \in Nat
                      /\ IsFiniteSet(Admitted) /\ Cardinality(Admitted) \in Nat
                      /\ Admitted \subseteq Requests
                      /\ Cardinality(Requests) \in Nat /\ Cardinality(Requests) > 0
    OBVIOUS
  <1>1. IsFiniteSet(DOMAIN users)
    <2>1. Len(users) \in Nat /\ DOMAIN users = 1..Len(users)
      BY Rows DEF AccountsInv
    <2> QED BY <2>1, FS_Interval
  <1>2. InUse \in SUBSET DOMAIN users
    BY DEF InUse
  <1>3. Seats \in SUBSET DOMAIN users
    <2>1. ASSUME NEW x \in Requests, Seating(req[x]) PROVE req[x].user \in DOMAIN users
      BY <2>1 DEF Seating, AccountsInv, CopiesOK, CopyOK
    <2>2. \A u \in Seats : u \in DOMAIN users
      BY <1>2, <2>1, SeatFacts
    <2> QED BY <2>2
  <1>4. Admitted \in SUBSET Requests
    BY DEF Admitted
  <1>5. IsFiniteSet(InUse) /\ IsFiniteSet(Seats) /\ IsFiniteSet(Admitted)
    BY <1>1, <1>2, <1>3, <1>4, RequestsAssumption, FS_Subset
  <1>6. Cardinality(Requests) \in Nat /\ Cardinality(Requests) > 0
    BY RequestsAssumption, FS_CardinalityType, FS_EmptySet
  <1> QED BY <1>4, <1>5, <1>6, FS_CardinalityType

\* A request that is not admitted seats at most one user beside those in use, and
\* one that is admitted seats none.
LEMMA SeatsBound ==
  AccountsInv => Cardinality(Seats) + Cardinality(Admitted) <= Cardinality(InUse) + Cardinality(Requests)
  <1> SUFFICES ASSUME AccountsInv
               PROVE  Cardinality(Seats) + Cardinality(Admitted)
                        <= Cardinality(InUse) + Cardinality(Requests)
    OBVIOUS
  <1> DEFINE P == {x \in Requests : Seating(req[x]) /\ req[x].user \notin Forced}
             I == {req[x].user : x \in P}
             f == [x \in P |-> req[x].user]
             R == Requests \ Admitted
  <1>f. /\ IsFiniteSet(Seats) /\ Cardinality(Seats) \in Nat
        /\ IsFiniteSet(InUse) /\ Cardinality(InUse) \in Nat
        /\ IsFiniteSet(Admitted) /\ Cardinality(Admitted) \in Nat
        /\ Admitted \subseteq Requests
        /\ IsFiniteSet(Requests) /\ Cardinality(Requests) \in Nat
    BY Finite, RequestsAssumption
  <1>1. P \in SUBSET R
    <2>1. \A x \in P : req[x].op # "create"
      BY DEF AccountsInv, CopiesOK, CopyOK, Seating, Forced
    <2> QED BY <2>1 DEF Admitted, Seating
  <1>2. IsFiniteSet(R) /\ Cardinality(R) = Cardinality(Requests) - Cardinality(Admitted)
    <2>1. Requests \cap Admitted = Admitted
      BY <1>f
    <2> QED BY <1>f, <2>1, FS_Difference
  <1>3. IsFiniteSet(P) /\ Cardinality(P) <= Cardinality(R)
    <2> HIDE DEF P, R
    <2> QED BY <1>1, <1>2, FS_Subset
  <1>4. f \in Surjection(P, I)
    BY DEF Surjection
  <1>5. IsFiniteSet(I) /\ Cardinality(I) <= Cardinality(P)
    <2> HIDE DEF P, I, f
    <2> QED BY <1>3, <1>4, FS_Surjection
  <1>6. Seats \in SUBSET (InUse \cup I)
    <2>1. \A u \in Seats : u \in InUse \/ u \in I
      BY SeatFacts
    <2> QED BY <2>1
  <1> HIDE DEF P, I, f, R
  <1>7. /\ IsFiniteSet(InUse \cup I)
        /\ Cardinality(InUse \cup I) = Cardinality(InUse) + Cardinality(I) - Cardinality(InUse \cap I)
    BY <1>f, <1>5, FS_Union
  <1>8. Cardinality(InUse \cap I) \in Nat
    <2>1. InUse \cap I \in SUBSET InUse
      OBVIOUS
    <2> QED BY <1>f, <2>1, FS_Subset, FS_CardinalityType
  <1>9. Cardinality(Seats) <= Cardinality(InUse \cup I)
    BY <1>6, <1>7, FS_Subset
  <1>10. /\ Cardinality(I) \in Nat /\ Cardinality(P) \in Nat /\ Cardinality(R) \in Nat
         /\ Cardinality(InUse \cup I) \in Nat
    BY <1>2, <1>3, <1>5, <1>7, FS_CardinalityType
  <1> QED BY <1>f, <1>2, <1>3, <1>5, <1>7, <1>8, <1>9, <1>10

LEMMA SeatsByName == AccountsInv => SeatsAre
  BY SeatFacts DEF SeatsAre

\* The same of the next state.
LEMMA SeatFactsNext ==
  ASSUME AccountsInv', NEW u
  PROVE  u \in Seats' <=> /\ u \notin Forced'
                         /\ \/ u \in InUse'
                            \/ \E x \in Requests : Seating(req'[x]) /\ req'[x].user = u
  <1>1. (AccountsInv => SeatsAre)'
    BY SeatsByName, PTL
  <1> QED BY <1>1 DEF SeatsAre, Seating

LEMMA FiniteNext ==
  ASSUME AccountsInv'
  PROVE  Cardinality(Seats') \in Nat /\ Cardinality(Admitted') \in Nat
  <1>1. (AccountsInv => Cardinality(Seats) \in Nat /\ Cardinality(Admitted) \in Nat)'
    BY Finite, PTL
  <1> QED BY <1>1

LEMMA SeatsBoundNext ==
  ASSUME AccountsInv'
  PROVE  Cardinality(Seats') + Cardinality(Admitted') <= Cardinality(InUse') + Cardinality(Requests)
  <1>1. (AccountsInv => Cardinality(Seats) + Cardinality(Admitted) <= Cardinality(InUse) + Cardinality(Requests))'
    BY SeatsBound, PTL
  <1> QED BY <1>1

\* A step that seats no one and admits no one keeps the bound.
LEMMA NoMoreSeats ==
  ASSUME AccountsInv, AccountsInv', OvershootIsBounded,
         Seats' \subseteq Seats, Admitted' \subseteq Admitted
  PROVE  OvershootIsBounded'
  <1>1. /\ IsFiniteSet(Seats) /\ Cardinality(Seats) \in Nat
        /\ IsFiniteSet(Admitted) /\ Cardinality(Admitted) \in Nat
        /\ Cardinality(Requests) \in Nat
    BY Finite
  <1>2. IsFiniteSet(Seats') /\ Cardinality(Seats') <= Cardinality(Seats)
    BY <1>1, FS_Subset
  <1>3. IsFiniteSet(Admitted') /\ Cardinality(Admitted') <= Cardinality(Admitted)
    BY <1>1, FS_Subset
  <1>4. Cardinality(Seats') \in Nat /\ Cardinality(Admitted') \in Nat
    BY <1>2, <1>3, FS_CardinalityType
  <1>5. Cardinality(Seats) + Cardinality(Admitted) <= MaxUserCount + Cardinality(Requests) - 1
    BY DEF OvershootIsBounded, Seats
  <1>6. Cardinality(Seats') + Cardinality(Admitted') <= MaxUserCount + Cardinality(Requests) - 1
    BY <1>1, <1>2, <1>3, <1>4, <1>5, BoundsAssumption
  <1> QED BY <1>6 DEF OvershootIsBounded, Seats

\* Nor does the end of a request that was admitted, if it seats one user.
LEMMA OneSeatForOneAdmitted ==
  ASSUME AccountsInv, AccountsInv', OvershootIsBounded,
         NEW u, Seats' \subseteq Seats \cup {u},
         NEW r \in Admitted, Admitted' \subseteq Admitted \ {r}
  PROVE  OvershootIsBounded'
  <1>1. /\ IsFiniteSet(Seats) /\ Cardinality(Seats) \in Nat
        /\ IsFiniteSet(Admitted) /\ Cardinality(Admitted) \in Nat
        /\ Cardinality(Requests) \in Nat
    BY Finite
  <1>2. IsFiniteSet(Seats \cup {u}) /\ Cardinality(Seats \cup {u}) <= Cardinality(Seats) + 1
    <2>1. IsFiniteSet(Seats \cup {u}) /\ Cardinality(Seats \cup {u}) \in {Cardinality(Seats), Cardinality(Seats) + 1}
      BY <1>1, FS_AddElement
    <2> QED BY <1>1, <2>1
  <1>3. IsFiniteSet(Admitted \ {r}) /\ Cardinality(Admitted \ {r}) = Cardinality(Admitted) - 1
    BY <1>1, FS_RemoveElement
  <1>4. IsFiniteSet(Seats') /\ Cardinality(Seats') <= Cardinality(Seats \cup {u})
    BY <1>2, FS_Subset
  <1>5. IsFiniteSet(Admitted') /\ Cardinality(Admitted') <= Cardinality(Admitted \ {r})
    BY <1>3, FS_Subset
  <1>6. /\ Cardinality(Seats') \in Nat /\ Cardinality(Admitted') \in Nat
        /\ Cardinality(Seats \cup {u}) \in Nat /\ Cardinality(Admitted \ {r}) \in Nat
    BY <1>2, <1>3, <1>4, <1>5, FS_CardinalityType
  <1>7. Cardinality(Seats) + Cardinality(Admitted) <= MaxUserCount + Cardinality(Requests) - 1
    BY DEF OvershootIsBounded, Seats
  <1>8. Cardinality(Seats') + Cardinality(Admitted') <= MaxUserCount + Cardinality(Requests) - 1
    BY <1>1, <1>2, <1>3, <1>4, <1>5, <1>6, <1>7, BoundsAssumption
  <1> QED BY <1>8 DEF OvershootIsBounded, Seats

\* A step of one request that changes no row.
LEMMA OneRequestSeats ==
  ASSUME AccountsInv, AccountsInv', OvershootIsBounded, UNCHANGED <<users, history>>,
         NEW r \in Requests, NEW q, req' = [req EXCEPT ![r] = q],
         Seating(q) => q.user \in InUse \cup Forced,
         q.op \in {"create", "reactivate"} /\ q.step \in {"add", "load", "save"} => r \in Admitted
  PROVE  OvershootIsBounded'
  <1>1. \A x \in Requests : req'[x] = IF x = r THEN q ELSE req[x]
    BY DEF AccountsInv, Typed
  <1>2. Admitted' \subseteq Admitted
    BY <1>1 DEF Admitted
  <1>3. InUse' = InUse /\ Forced' = Forced
    BY DEF InUse, Forced, history
  <1>4. ASSUME NEW u \in Seats' PROVE u \in Seats
    <2>1. u \notin Forced /\ (u \in InUse \/ \E x \in Requests : Seating(req'[x]) /\ req'[x].user = u)
      BY <1>3, <1>4, SeatFactsNext
    <2>2. u \in InUse \/ \E x \in Requests : Seating(req[x]) /\ req[x].user = u
      BY <1>1, <2>1
    <2> QED BY <2>1, <2>2, SeatFacts
  <1> QED BY <1>2, <1>4, NoMoreSeats

\* A save seats only whom it could be seen to seat, or whom it reactivates.
LEMMA SeatsOfSave ==
  ASSUME AccountsInv, AccountsInv', OvershootIsBounded, NEW r \in Requests, Save(r)
  PROVE  OvershootIsBounded'
  <1> DEFINE q == req[r]
             u == q.user
  <1>1. /\ q \in SomeRequest /\ q.step = "save" /\ CopyOK(q, DOMAIN users, byHand, Forced)
        /\ Typed /\ q.op \in Operation
    BY Rows DEF Save, AccountsInv, CopiesOK, SomeRequest
  <1>2. u \in DOMAIN users
    BY <1>1 DEF CopyOK
  <1>3. \A x \in Requests : req'[x] = IF x = r THEN Idle ELSE req[x]
    BY DEF Save, Ends, AccountsInv, Typed
  <1>4. /\ Admitted' \subseteq Admitted \ {r}
        /\ q.op = "reactivate" => r \in Admitted
    BY <1>1, <1>3 DEF Admitted, Idle
  <1>5. ~Seating(Idle)
    BY DEF Idle, Seating
  <1>6. CASE UNCHANGED <<users, history>>
    <2>1. req' = [req EXCEPT ![r] = Idle] /\ Idle.step = "idle"
      BY DEF Save, Ends, Idle
    <2> QED BY <1>5, <1>6, <2>1, OneRequestSeats
  <1>f. ASSUME Remembers(q)
        PROVE  /\ Forced \subseteq Forced'
               /\ u \notin Forced' => q.op \notin Support /\ (q.op = "patch" => q.sets = {})
    BY <1>f DEF Remembers, Forced
  <1>7. ASSUME NEW day \in 1..MaxDay, users' = [users EXCEPT ![u] = Merged(q, day)], Remembers(q)
        PROVE  OvershootIsBounded'
    <2> DEFINE m == Merged(q, day)
    <2>1. /\ q.op = "deactivate" => ~m.active
          /\ q.op = "delete" => ~m.visible
          /\ q.op \in {"update", "patch", "complete"} /\ q.sets = {} =>
               m.visible = q.row.visible /\ m.active = q.row.active /\ m.here = q.row.here
      BY <1>1, <1>2, MergedFacts
    <2>2. /\ DOMAIN users' = DOMAIN users
          /\ \A v \in DOMAIN users : users'[v] = IF v = u THEN m ELSE users[v]
      BY <1>7
    <2>3. InUse' \subseteq InUse \cup {u}
      BY <2>2 DEF InUse
    <2>4. ASSUME NEW v \in Seats' PROVE v \in Seats \cup {u}
      <3>1. v \notin Forced /\ (v \in InUse' \/ \E x \in Requests : Seating(req'[x]) /\ req'[x].user = v)
        BY <1>f, <1>7, <2>4, SeatFactsNext
      <3>2. v = u \/ v \in InUse \/ \E x \in Requests : Seating(req[x]) /\ req[x].user = v
        BY <1>3, <1>5, <2>3, <3>1
      <3> QED BY <3>1, <3>2, SeatFacts
    <2>5. CASE q.op = "reactivate"
      <3>1. Seats' \subseteq Seats \cup {u}
        BY <2>4
      <3> HIDE DEF u, q
      <3> QED BY <1>4, <2>5, <3>1, OneSeatForOneAdmitted
    <2>6. CASE q.op # "reactivate"
      <3>1. u \in Seats' => u \in Seats
        <4> SUFFICES ASSUME u \in Seats' PROVE u \in Seats
          OBVIOUS
        <4>1. /\ u \notin Forced'
              /\ u \in InUse' \/ \E x \in Requests : Seating(req'[x]) /\ req'[x].user = u
          BY SeatFactsNext
        <4>2. u \notin Forced /\ q.op \notin Support /\ (q.op = "patch" => q.sets = {})
          BY <1>f, <1>7, <4>1
        <4>3. CASE \E x \in Requests : Seating(req'[x]) /\ req'[x].user = u
          BY <1>3, <1>5, <4>2, <4>3, SeatFacts
        <4>4. CASE u \in InUse'
          <5>1. m.active /\ m.visible /\ m.here
            BY <2>2, <4>4 DEF InUse
          <5>2. q.op # "create"
            BY <1>1, <4>2 DEF CopyOK, Forced
          <5>3. q.op \in {"update", "patch", "complete"} /\ q.sets = {}
            BY <1>1, <2>1, <2>6, <4>2, <5>1, <5>2 DEF Operation, Support, CopyOK
          <5>4. Seating(q)
            BY <1>1, <2>1, <5>1, <5>3 DEF Seating
          <5> QED BY <4>2, <5>4, SeatFacts
        <4> QED BY <4>1, <4>3, <4>4
      <3>2. Seats' \subseteq Seats
        BY <2>4, <3>1
      <3> QED BY <1>4, <3>2, NoMoreSeats
    <2> QED BY <2>5, <2>6
  <1>8. \/ UNCHANGED <<users, history>>
        \/ \E day \in 1..MaxDay :
             users' = [users EXCEPT ![u] = Merged(q, day)] /\ Remembers(q)
    BY DEF Save
  <1> QED BY <1>6, <1>7, <1>8

LEMMA OvershootInit == Init => OvershootIsBounded
  <1> SUFFICES ASSUME Init PROVE OvershootIsBounded
    OBVIOUS
  <1>1. AccountsInv
    BY AccountsInit
  <1>2. Seats \in SUBSET {1}
    <2>1. DOMAIN users = {1}
      <3>1. PICK e \in Email : users = <<NewRow(<<e>>)>>
        BY DEF Init
      <3> QED BY <3>1
    <2>2. \A x \in Requests : ~Seating(req[x])
      BY DEF Init, Idle, Seating
    <2>3. \A u \in Seats : u \in InUse
      BY <1>1, <2>2, SeatFacts
    <2> QED BY <2>1, <2>3 DEF InUse
  <1>3. Admitted = {}
    BY DEF Init, Idle, Admitted
  <1>4. Cardinality(Seats) <= 1 /\ Cardinality(Seats) \in Nat
    <2>1. IsFiniteSet({1}) /\ Cardinality({1}) = 1
      BY FS_Singleton
    <2>2. IsFiniteSet(Seats) /\ Cardinality(Seats) <= Cardinality({1})
      BY <1>2, <2>1, FS_Subset
    <2> QED BY <2>1, <2>2, FS_CardinalityType
  <1>5. Cardinality(Admitted) = 0
    BY <1>3, FS_EmptySet
  <1>6. Cardinality(Requests) \in Nat /\ Cardinality(Requests) > 0
    BY <1>1, Finite
  <1>7. MaxUserCount \in Nat /\ MaxUserCount > 0
    BY BoundsAssumption
  <1>8. Cardinality(Seats) + Cardinality(Admitted) <= MaxUserCount + Cardinality(Requests) - 1
    BY <1>4, <1>5, <1>6, <1>7
  <1> QED BY <1>8 DEF OvershootIsBounded, Seats

LEMMA OvershootStep ==
  AccountsInv /\ AccountsInv' /\ OvershootIsBounded /\ [Next]_vars => OvershootIsBounded'
  <1> SUFFICES ASSUME AccountsInv, AccountsInv', OvershootIsBounded, [Next]_vars
               PROVE  OvershootIsBounded'
    OBVIOUS
  <1>t. \A r \in Requests : req[r] \in SomeRequest
    BY Rows DEF AccountsInv
  <1>1. CASE UNCHANGED vars
    BY <1>1 DEF vars, history, OvershootIsBounded, Seated, InUse, Admitted, Forced
  <1>2. ASSUME NEW r \in Requests, Ends(r), UNCHANGED <<users, history>>
        PROVE  OvershootIsBounded'
    <2>1. ~Seating(Idle) /\ Idle.step = "idle"
      BY DEF Idle, Seating
    <2> QED BY <1>2, <2>1, OneRequestSeats DEF Ends
  <1>3. ASSUME NEW r \in Requests, Admit(r) PROVE OvershootIsBounded'
    <2>1. Cardinality(InUse) < MaxUserCount /\ InUse' = InUse
      BY <1>3 DEF Admit, InUse
    <2>2. Cardinality(Seats') + Cardinality(Admitted') <= Cardinality(InUse') + Cardinality(Requests)
      BY SeatsBoundNext
    <2>3. /\ Cardinality(InUse) \in Nat /\ Cardinality(Requests) \in Nat
      BY Finite
    <2>4. Cardinality(Seats') \in Nat /\ Cardinality(Admitted') \in Nat
      BY FiniteNext
    <2>5. MaxUserCount \in Nat
      BY BoundsAssumption
    <2>6. Cardinality(Seats') + Cardinality(Admitted') <= MaxUserCount + Cardinality(Requests) - 1
      BY <2>1, <2>2, <2>3, <2>4, <2>5
    <2> QED BY <2>6 DEF OvershootIsBounded, Seats
  <1>4. ASSUME NEW r \in Requests, AddUser(r) PROVE OvershootIsBounded'
    <2> DEFINE n == Len(users)
    <2>1. req[r].step = "add" /\ req[r].op = "create" /\ r \in Admitted /\ req[r].sets = {}
          /\ Forced' = Forced /\ UNCHANGED history
      BY <1>4 DEF AddUser, AccountsInv, CopiesOK, CopyOK, Admitted, Forced, history
    <2>2. CASE users' = Append(users, NewRow(req[r].email)) /\ Ends(r)
      <3>1. \A x \in Requests : req'[x] = IF x = r THEN Idle ELSE req[x]
        BY <2>2 DEF Ends, AccountsInv, Typed
      <3>2. Admitted' \subseteq Admitted \ {r}
        BY <3>1 DEF Admitted, Idle
      <3>3. InUse' \subseteq InUse \cup {n + 1}
        <4>1. n \in Nat /\ DOMAIN users = 1..n /\ users \in Seq(SomeRow)
          BY Rows DEF AccountsInv, Typed
        <4>2. DOMAIN users' = 1..(n + 1) /\ \A u \in 1..n : users'[u] = users[u]
          BY <2>2, <4>1
        <4>3. \A u \in 1..(n + 1) : u \in 1..n \/ u = n + 1
          BY <4>1
        <4> QED BY <4>1, <4>2, <4>3 DEF InUse
      <3> HIDE DEF n
      <3>4. Seats' \subseteq Seats \cup {n + 1}
        <4>1. \A u \in Seats' : /\ u \notin Forced
                                /\ u \in InUse' \/ \E x \in Requests : Seating(req'[x]) /\ req'[x].user = u
          BY <2>1, SeatFactsNext
        <4>2. ~Seating(Idle)
          BY DEF Idle, Seating
        <4>3. \A u \in Seats' : u \in Seats \/ u = n + 1
          BY <3>1, <3>3, <4>1, <4>2, SeatFacts
        <4> QED BY <4>3
      <3> QED BY <2>1, <3>2, <3>4, OneSeatForOneAdmitted
    <2>3. CASE UNCHANGED users /\ Ends(r)
      BY <1>2, <2>1, <2>3
    <2>4. ASSUME NEW u \in DOMAIN users, users[u].email = req[r].email, ~users[u].visible, UNCHANGED users,
                 req' = [req EXCEPT ![r] = [@ EXCEPT !.user = u, !.row = users[u], !.step = "save"]]
          PROVE  OvershootIsBounded'
      <3> DEFINE q == [req[r] EXCEPT !.user = u, !.row = users[u], !.step = "save"]
      <3>1. q.user = u
        BY <1>t DEF SomeRequest
      <3>2. u \in Forced
        <4>1. Len(users[u].email) = 1
          BY <2>1, <2>4 DEF AccountsInv, CopiesOK, CopyOK
        <4> QED BY <2>4, <4>1 DEF AccountsInv, DeletedGivesUpAddress, Forced
      <3>3. req' = [req EXCEPT ![r] = q]
        BY <2>4
      <3> HIDE DEF q
      <3> QED BY <2>1, <2>4, <3>1, <3>2, <3>3, OneRequestSeats
    <2> QED BY <1>4, <2>2, <2>3, <2>4 DEF AddUser
  <1>5. ASSUME NEW r \in Requests, Load(r) PROVE OvershootIsBounded'
    <2> DEFINE q == [req[r] EXCEPT !.row = users[req[r].user], !.step = "save"]
    <2>1. req[r].step = "load" /\ req[r].op = "reactivate" /\ UNCHANGED <<users, history>>
      BY <1>5 DEF Load, AccountsInv, CopiesOK, CopyOK
    <2>2. q.op = "reactivate"
      BY <1>t, <2>1 DEF SomeRequest
    <2>3. r \in Admitted
      BY <2>1 DEF Admitted
    <2>4. req' = [req EXCEPT ![r] = q] \/ Ends(r)
      BY <1>5, <2>1 DEF Load
    <2> HIDE DEF q
    <2>5. ~Seating(q)
      BY <2>2 DEF Seating
    <2> QED BY <1>2, <2>1, <2>3, <2>4, <2>5, OneRequestSeats
  <1>6. ASSUME NEW r \in Requests, Begin(r) PROVE OvershootIsBounded'
    <2>1. PICK op \in Ops : \E sets \in Settings(op) : \E u \in DOMAIN users, a \in Addresses(sets) :
            ~Counts(op) /\ req' = [req EXCEPT ![r] = Asked(op, "save", u, a, sets \ {"email"}, users[u])]
      BY <1>6 DEF Begin
    <2>2. PICK sets \in Settings(op) : \E u \in DOMAIN users, a \in Addresses(sets) :
            ~Counts(op) /\ req' = [req EXCEPT ![r] = Asked(op, "save", u, a, sets \ {"email"}, users[u])]
      BY <2>1
    <2>3. PICK u \in DOMAIN users, a \in Addresses(sets) :
            ~Counts(op) /\ req' = [req EXCEPT ![r] = Asked(op, "save", u, a, sets \ {"email"}, users[u])]
      BY <2>2
    <2> DEFINE q == Asked(op, "save", u, a, sets \ {"email"}, users[u])
    <2>4. q.user = u /\ q.row = users[u] /\ q.op = op
      BY DEF Asked
    <2>5. UNCHANGED <<users, history>> /\ req' = [req EXCEPT ![r] = q]
      BY <1>6, <2>3 DEF Begin
    <2> HIDE DEF q
    <2>6. op \notin {"create", "reactivate"}
      BY <2>3 DEF Counts
    <2>7. Seating(q) => u \in InUse
      BY <2>4, <2>6 DEF Seating, InUse
    <2> QED BY <2>4, <2>5, <2>6, <2>7, OneRequestSeats
  <1>7. ASSUME NEW r \in Requests, Save(r) PROVE OvershootIsBounded'
    BY <1>7, SeatsOfSave
  <1>8. ASSUME NEW r \in Requests, Fails(r) PROVE OvershootIsBounded'
    BY <1>2, <1>8 DEF Fails
  <1> QED
    BY <1>1, <1>3, <1>4, <1>5, <1>6, <1>7, <1>8 DEF Next

\* However requests interleave, and whatever they revive with stale copies, the
\* users and those about to be added pass the limit by at most the requests that
\* were in flight beside the last one admitted; rows that support or a PATCH of flags
\* has written do not count.
THEOREM OvershootCorrect == Spec => []OvershootIsBounded
  <1>1. Init => AccountsInv /\ OvershootIsBounded
    BY AccountsInit, OvershootInit
  <1>2. AccountsInv /\ OvershootIsBounded /\ [Next]_vars => AccountsInv' /\ OvershootIsBounded'
    BY AccountsStep, OvershootStep
  <1> QED BY <1>1, <1>2, PTL DEF Spec
=============================================================================
