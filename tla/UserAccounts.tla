---------------------------- MODULE UserAccounts ----------------------------
(***************************************************************************)
(* The users of one tenant (AuthService): UsersController, AccountController, *)
(* the two writes of SupportUsersController, and InvitationController.Complete *)
(* as one more writer of the row.                                          *)
(*                                                                         *)
(* A request loads a row, changes its copy and saves it.  What the save     *)
(* writes is what Entity Framework has marked: the changed columns, or every *)
(* column where the handler sets the state of the whole entity to Modified. *)
(* Nothing else joins two requests: there is no row version and no transaction. *)
(*                                                                         *)
(* Row 1 is the owner, whom some handlers refuse to touch.  Roles, names and *)
(* passwords are left out.  A PATCH can move a row to another tenant; what is *)
(* done with it there is followed as far as nothing there is counted.      *)
(***************************************************************************)
EXTENDS Integers, Sequences, FiniteSets

CONSTANTS
  Email,         \* addresses
  Foreign,       \* those that users of other tenants have
  Requests,      \* requests in flight at a time
  Ops,           \* the operations of this instance
  Bundles,       \* what a PATCH may bring at once
  MaxUserCount,  \* Tenant.MaxUserCount
  MaxRows,       \* bound on the rows of Users
  MaxDay,        \* bound on the days on which users are deleted
  MaxTags,       \* bound on how often an address is marked as old
  MaxByHand      \* bound on the rows that support, or a PATCH of flags, writes

Operation == {"create", "update", "patch", "complete", "deactivate", "reactivate",
              "delete", "supportPatch", "supportReactivate"}

\* What a PATCH may set beside the address: IsActive, IsVisible, TenantId.
Setting == {"on", "off", "show", "hide", "tenant"}

ASSUME EmailAssumption == Foreign \subseteq Email /\ Email \ Foreign # {}
ASSUME OpsAssumption == Ops \subseteq Operation /\ Bundles \subseteq SUBSET (Setting \cup {"email"})
ASSUME RequestsAssumption == IsFiniteSet(Requests) /\ Requests # {}
ASSUME BoundsAssumption ==
  /\ {MaxUserCount, MaxRows, MaxDay, MaxTags} \subseteq Nat \ {0}
  /\ MaxByHand \in Nat

VARIABLES
  users,  \* the rows, the Id being the index
  req,    \* the requests
  byHand, \* history: the rows that support has written
  byPatch \* history: those whose IsActive or TenantId a PATCH has set

history == <<byHand, byPatch>>
vars == <<users, req, history>>

Owner == 1

\* An address is followed by the days on which its user was deleted.
Address == {<<e>> \o d : e \in Email, d \in UNION {[1..n -> 1..MaxDay] : n \in 0..MaxTags}}

Column == {"email", "active", "visible", "here"}

\* "here": the TenantId is that of this tenant.
Row == [email : Address, active : BOOLEAN, visible : BOOLEAN, here : BOOLEAN]

NoRow == [email |-> <<>>, active |-> FALSE, visible |-> FALSE, here |-> FALSE]

NewRow(a) == [email |-> a, active |-> TRUE, visible |-> TRUE, here |-> TRUE]

Step == {"idle", "add", "load", "save"}

\* "email" and "sets" are what the request brings, "row" is the copy it has loaded.
Request == [op : Operation, step : Step, user : Nat, email : Address \cup {<<>>},
            sets : SUBSET Setting, row : Row \cup {NoRow}]

Idle == [op |-> "create", step |-> "idle", user |-> 0, email |-> <<>>, sets |-> {},
         row |-> NoRow]

TypeOK ==
  /\ users \in Seq(Row)
  /\ req \in [Requests -> Request]
  /\ byHand \subseteq DOMAIN users /\ byPatch \subseteq DOMAIN users

----------------------------------------------------------------------------
(* What each operation finds, changes and writes                           *)

\* Support and the holder of an invitation pass the filter on IsVisible.
Support == {"supportPatch", "supportReactivate"}
Unfiltered == Support \cup {"complete"}

\* Variant: whoever is named may be deleted.
ProtectedFromDeactivation(op) == IF op \in {"deactivate", "reactivate"} THEN {Owner} ELSE {}

Protected(op) == IF op \in {"deactivate", "reactivate", "delete"} THEN {Owner} ELSE {}

\* A reactivation is counted in the tenant it is of, the others may be made there.
Finds(op, u) ==
  /\ u \in DOMAIN users
  /\ users[u].visible \/ op \in Unfiltered
  /\ users[u].here \/ op # "reactivate"
  /\ u \notin Protected(op)

\* Variant: an update writes the columns it changed only.
ColumnsOfChange(op) ==
  CASE op \in {"deactivate", "reactivate"} -> {"active"}
    [] op = "delete"                       -> {"visible", "email"}
    [] op = "supportReactivate"            -> {"active", "visible"}
    [] op = "update"                       -> {"email"}
    [] OTHER                               -> Column

\* The columns of the UPDATE.
Columns(op) ==
  CASE op \in {"deactivate", "reactivate"} -> {"active"}
    [] op = "delete"                       -> {"visible", "email"}
    [] op = "supportReactivate"            -> {"active", "visible"}
    [] OTHER                               -> Column

\* The copy with what a profile or a PATCH brings: any column but the password,
\* and IsVisible only from support.
Patched(q) ==
  [email   |-> IF q.email = <<>> THEN q.row.email ELSE q.email,
   active  |-> (q.row.active \/ "on" \in q.sets) /\ "off" \notin q.sets,
   visible |-> (q.row.visible \/ "show" \in q.sets) /\ "hide" \notin q.sets,
   here    |-> q.row.here # ("tenant" \in q.sets)]

\* The loaded copy as the handler changes it on a day.
Changed(q, day) ==
  CASE q.op \in {"update", "patch", "supportPatch"} -> Patched(q)
    [] q.op = "complete"          -> q.row
    [] q.op = "deactivate"        -> [q.row EXCEPT !.active = FALSE]
    [] q.op = "reactivate"        -> [q.row EXCEPT !.active = TRUE]
    [] q.op = "delete"            -> [q.row EXCEPT !.visible = FALSE, !.email = Append(@, day)]
    [] q.op = "supportReactivate" -> [q.row EXCEPT !.visible = TRUE, !.active = TRUE]
    [] q.op = "create"            -> NewRow(q.row.email)

Merged(q, day) ==
  [c \in Column |->
     IF c \in Columns(q.op) THEN Changed(q, day)[c] ELSE users[q.user][c]]

\* The unique index on Email, with u the row that is written.
IndexAllows(u, a) ==
  /\ \A v \in DOMAIN users \ {u} : users[v].email # a
  /\ a \notin {<<e>> : e \in Foreign}

InUse == {u \in DOMAIN users : users[u].active /\ users[u].visible /\ users[u].here}

----------------------------------------------------------------------------

Init ==
  /\ \E e \in Email \ Foreign : users = <<NewRow(<<e>>)>>
  /\ req = [r \in Requests |-> Idle]
  /\ byHand = {} /\ byPatch = {}

Goes(r, s) == req' = [req EXCEPT ![r] = [@ EXCEPT !.step = s]]

Ends(r) == req' = [req EXCEPT ![r] = Idle]

\* GetUserUsageStatusAsync comes first.
Counts(op) == op \in {"create", "reactivate"}

Asked(op, s, u, a, sets, row) ==
  [op |-> op, step |-> s, user |-> u, email |-> a, sets |-> sets, row |-> row]

\* Variant: the users are not counted before a reactivation.
AdmitUncounted(r) ==
  /\ req[r].step = "idle"
  /\ \/ /\ "create" \in Ops /\ Cardinality(InUse) < MaxUserCount
        /\ \E e \in Email : req' = [req EXCEPT ![r] = Asked("create", "add", 0, <<e>>, {}, NoRow)]
     \/ /\ "reactivate" \in Ops
        /\ \E u \in DOMAIN users :
             req' = [req EXCEPT ![r] = Asked("reactivate", "load", u, <<>>, {}, NoRow)]
  /\ UNCHANGED <<users, history>>

\* The users are counted, then TenantService is asked for the maximum: what
\* follows the comparison relies on a count that is old by then.  (At the limit
\* the request ends with Conflict and nothing has changed.)
Admit(r) ==
  /\ req[r].step = "idle"
  /\ Cardinality(InUse) < MaxUserCount
  /\ \/ /\ "create" \in Ops
        /\ \E e \in Email : req' = [req EXCEPT ![r] = Asked("create", "add", 0, <<e>>, {}, NoRow)]
     \/ /\ "reactivate" \in Ops
        /\ \E u \in DOMAIN users :
             req' = [req EXCEPT ![r] = Asked("reactivate", "load", u, <<>>, {}, NoRow)]
  /\ UNCHANGED <<users, history>>

\* What may be brought: by who changes a profile an address or nothing, by a PATCH
\* any columns.
Settings(op) ==
  CASE op = "update"       -> {{}, {"email"}}
    [] op = "patch"        -> Bundles \cap SUBSET {"email", "on", "off", "tenant"}
    [] op = "supportPatch" -> Bundles
    [] OTHER               -> {{}}

Addresses(sets) == IF "email" \in sets THEN {<<e>> : e \in Email} ELSE {<<>>}

\* CreateUser looks for the address among the users of the tenant, deleted ones
\* included.  A deleted one is revived; a new one is inserted, or refused by the
\* index, which also decides when the address was taken after the look-up.
AddUser(r) ==
  LET a == req[r].email
      having == {u \in DOMAIN users : users[u].email = a /\ users[u].here} IN
  /\ req[r].step = "add"
  /\ \/ /\ having = {} /\ IndexAllows(0, a)
        /\ Len(users) < MaxRows
        /\ users' = Append(users, NewRow(a))
        /\ Ends(r)
     \/ /\ having = {} /\ ~IndexAllows(0, a)
        /\ Ends(r) /\ UNCHANGED users
     \/ /\ \E u \in having : users[u].visible
        /\ Ends(r) /\ UNCHANGED users
     \/ \E u \in having :
          /\ ~users[u].visible
          /\ req' = [req EXCEPT ![r] = [@ EXCEPT !.user = u, !.row = users[u], !.step = "save"]]
          /\ UNCHANGED users
  /\ UNCHANGED history

Load(r) ==
  LET q == req[r] IN
  /\ q.step = "load"
  /\ IF Finds(q.op, q.user)
     THEN req' = [req EXCEPT ![r] = [@ EXCEPT !.row = users[q.user], !.step = "save"]]
     ELSE Ends(r)
  /\ UNCHANGED <<users, history>>

\* The other operations begin with the load.
Begin(r) ==
  /\ req[r].step = "idle"
  /\ \E op \in Ops : \E sets \in Settings(op) : \E u \in DOMAIN users, a \in Addresses(sets) :
       /\ ~Counts(op)
       /\ Finds(op, u)
       /\ req' = [req EXCEPT ![r] = Asked(op, "save", u, a, sets \ {"email"}, users[u])]
  /\ UNCHANGED <<users, history>>

\* Written past the guards: by support, or with a flag that a PATCH brings.
Forced == byHand \cup byPatch

\* The history of what is saved.
Remembers(q) ==
  /\ byHand' = IF q.op \in Support THEN byHand \cup {q.user} ELSE byHand
  /\ byPatch' = IF q.op = "patch" /\ q.sets # {} THEN byPatch \cup {q.user} ELSE byPatch
  /\ Cardinality(Forced') <= MaxByHand

Save(r) ==
  LET q == req[r] IN
  /\ q.step = "save"
  /\ \E day \in 1..MaxDay :
       LET row == Merged(q, day) IN
       /\ Len(row.email) <= MaxTags + 1
       /\ IF IndexAllows(q.user, row.email)
          THEN /\ users' = [users EXCEPT ![q.user] = row]
               /\ Remembers(q)
          ELSE UNCHANGED <<users, history>>
  /\ Ends(r)

\* A call or a save fails, or the connection is lost before it is reached.
Fails(r) ==
  /\ req[r].step # "idle"
  /\ Ends(r)
  /\ UNCHANGED <<users, history>>

Next ==
  \/ \E r \in Requests : Admit(r) \/ AddUser(r) \/ Load(r) \/ Begin(r) \/ Save(r) \/ Fails(r)

Spec == Init /\ [][Next]_vars

----------------------------------------------------------------------------
(* Properties                                                              *)

\* Users in use, or that a request is about to save as such from its copy.
Seated ==
  InUse \cup {q.user : q \in {req[r] : r \in {x \in Requests :
                 /\ req[x].step = "save" /\ req[x].sets = {}
                 /\ Columns(req[x].op) = Column
                 /\ LET row == Changed(req[x], 1) IN row.active /\ row.visible /\ row.here}}}

\* Requests that have passed the comparison with the maximum.
Admitted == {r \in Requests : req[r].op \in {"create", "reactivate"}
                              /\ req[r].step \in {"add", "load", "save"}}

\* However requests interleave, and whatever they revive with stale copies, the
\* users and those about to be added pass the limit by at most the requests that
\* were in flight beside the last one admitted.  What support or a PATCH of IsActive
\* or TenantId has written does not count: neither counts the users.
OvershootIsBounded ==
  Cardinality(Seated \ Forced) + Cardinality(Admitted)
    <= MaxUserCount + Cardinality(Requests) - 1

\* A deleted user has given up its address, and a user that can be seen has not:
\* no interleaving of updates, PATCHes and deletes separates the two columns.
DeletedGivesUpAddress ==
  \A u \in DOMAIN users \ byHand : users[u].visible <=> Len(users[u].email) = 1

\* The owner is shut out by nobody but support and a PATCH of its own flags: not by
\* the handlers that refuse owners, nor by a copy of its row that somebody saves.
OwnerStaysIn == Owner \notin Forced => Owner \in InUse
=============================================================================
