------------------------------- MODULE Tables -------------------------------
(***************************************************************************)
(* The pages on which owners and support keep rows: genres, series, the    *)
(* users of an account, tenants, the books of all tenants, integrations.   *)
(* Each page shows a list it has loaded, sends changes without waiting for *)
(* one another, and brings the list up to date in one of three ways: by    *)
(* loading it again, by changing the row it holds once the answer is in,   *)
(* or by changing it before it asks.  Lists and answers come in any order. *)
(*                                                                         *)
(* A row is a name and a flag: isActive, or for a book not isRestricted.   *)
(***************************************************************************)
EXTENDS Naturals, Sequences, SequencesExt

CONSTANTS
  Rows,         \* ids of rows
  MaxLoads,     \* bound on the lists under way at once
  MaxWrites,    \* bound on the changes under way at once
  MaxCalls      \* bound on the lists and changes together

TablesAssumption == {MaxLoads, MaxWrites, MaxCalls} \subseteq Nat \ {0}

VARIABLES
  page,         \* the page that is open
  saved,        \* the rows as the service has them
  shown,        \* the rows as the page has them
  inactiveToo,  \* showInactiveUsers
  listed,       \* a list has come
  loads,        \* the lists under way, in the order they were asked for
  writes,       \* the changes under way
  dialog,       \* the change that waits to be confirmed
  stale         \* history: the rows the page shows out of date, or may come to,
                \* with no list to be read that would put them right

view == <<shown, inactiveToo, listed>>
vars == <<page, saved, view, loads, writes, dialog, stale>>

Pages == {"genres", "series", "users", "tenants", "books", "integrations"}

\* The pages that load the list again after a change.
Reloading == {"genres", "series", "users"}

Row == [name : 0..2, on : BOOLEAN]
Gone == [name |-> 0, on |-> FALSE]
Table == [Rows -> Row]

\* The rows that differ in what a page can change.
RowsOf(p) ==
  CASE p \in {"genres", "series"} -> {row \in Row : row.on = (row.name # 0)}
    [] p = "users" -> {row \in Row : row.name # 0 \/ ~row.on}
    [] p = "integrations" -> {[name |-> 1, on |-> TRUE], Gone}
    [] OTHER -> [name : {1}, on : BOOLEAN]

Ops == {"rename", "switch", "delete", "create", "folder"}

\* to: what of the row is changed, the rest is as in Gone.  mine: the change
\* has hold of a row object that it will change, and the table still holds it.
Write == [op : Ops, row : Rows, to : Row, mine : BOOLEAN,
          step : {"checking", "sent", "saved"}]

NoDialog == <<>>

TypeOK ==
  /\ page \in Pages
  /\ saved \in Table /\ shown \in Table
  /\ inactiveToo \in BOOLEAN /\ listed \in BOOLEAN
  /\ loads \in Seq([read : BOOLEAN, list : Table])
  /\ writes \in Seq(Write)
  /\ dialog = NoDialog \/ dialog \in Write
  /\ stale \subseteq Rows

Nothing == [r \in Rows |-> Gone]

Unread == [read |-> FALSE, list |-> Nothing]

Init ==
  /\ page \in Pages
  /\ saved \in [Rows -> RowsOf(page)]
  /\ shown = Nothing /\ inactiveToo = FALSE /\ listed = FALSE
  /\ loads = IF page = "users" THEN <<>> ELSE <<Unread>>
  /\ writes = <<>> /\ dialog = NoDialog /\ stale = {}

----------------------------------------------------------------------------
(* Calls                                                                   *)

\* A list that is asked for now brings what is saved, if it is the last to come.
SendLoad ==
  /\ Len(loads) < MaxLoads
  /\ loads' = Append(loads, Unread)
  /\ stale' = {}

\* The list that will come last, if any, has been read already.
NoneToRead == loads = <<>> \/ Last(loads).read

Stale(r, left) == stale' = IF left THEN stale \union {r} ELSE stale

\* Where the answers set the row, two changes that ask for different values leave
\* it as the answer that comes last has it.
Send(w) ==
  /\ Len(writes) < MaxWrites
  /\ writes' = Append(writes, w)
  /\ Stale(w.row, /\ page \notin Reloading
                  /\ \E i \in DOMAIN writes : writes[i].row = w.row /\ writes[i].to # w.to)

Change(op, r, name, on) ==
  [op |-> op, row |-> r, to |-> [name |-> name, on |-> on],
   mine |-> op = "switch" /\ page \notin Reloading, step |-> "sent"]

Ask(w) == dialog' = w

\* GlobalLoadingService covers the page while a list of tenants loads and
\* while a user is created; a dialog covers it too.
Covered ==
  \/ dialog # NoDialog
  \/ page = "tenants" /\ loads # <<>>
  \/ page = "users" /\ \E i \in DOMAIN writes : writes[i].op = "create"

\* The owner or support does something with row r of page p.
On(p, r) == page = p /\ ~Covered /\ shown[r] # Gone

----------------------------------------------------------------------------
(* The services                                                            *)

ReadList(i) ==
  /\ ~loads[i].read
  /\ loads' = [loads EXCEPT ![i] = [read |-> TRUE, list |-> saved]]
  /\ UNCHANGED <<page, saved, view, writes, dialog, stale>>

\* The switch of a book inverts the row that CatalogService reads, whatever value
\* it is sent; the others set the value.
Turned(w) == IF page = "books" THEN ~saved[w.row].on ELSE w.to.on

Applied(w) ==
  CASE w.op = "rename" -> [saved EXCEPT ![w.row].name = w.to.name]
    [] w.op = "switch" -> [saved EXCEPT ![w.row].on = Turned(w)]
    [] w.op = "delete" -> [saved EXCEPT ![w.row] = Gone]
    [] w.op = "create" -> [saved EXCEPT ![w.row] = w.to]
    [] OTHER -> saved

\* The answer will not bring the row up to date: a list read before the change is
\* still to come, or has come and the row object the answer will set is no longer
\* shown, or what is saved is not what was asked for.
Missed(w) ==
  /\ page \notin Reloading /\ NoneToRead
  /\ loads = <<>> => w.op = "switch" /\ (~w.mine \/ Turned(w) # w.to.on)

SaveChange(i) ==
  /\ writes[i].step = "sent"
  /\ (writes[i].op = "create") = (saved[writes[i].row] = Gone)
  /\ saved' = Applied(writes[i])
  /\ writes' = [writes EXCEPT ![i].step = "saved"]
  /\ Stale(writes[i].row, Missed(writes[i]))
  /\ UNCHANGED <<page, view, loads, dialog>>

\* Another owner, or another of support, changes a row.
ChangedElsewhere(r) ==
  /\ saved[r] # Gone
  /\ \E row \in RowsOf(page) \ {Gone, saved[r]} : saved' = [saved EXCEPT ![r] = row]
  /\ Stale(r, NoneToRead)
  /\ UNCHANGED <<page, view, loads, writes, dialog>>

\* What the page shows before it asks: the fields of a user, and the switch of
\* a tenant or of a book, which stays where the click has put it.
ShownFirst(w) == IF page = "users" THEN w.op = "rename" ELSE w.op = "switch"

\* A change is refused.  The page says so, and takes nothing back.
Refused(i) ==
  /\ writes[i].step = "sent"
  /\ writes' = RemoveAt(writes, i)
  /\ Stale(writes[i].row, ShownFirst(writes[i]) /\ loads = <<>>)
  /\ UNCHANGED <<page, saved, view, loads, dialog>>

AnswerLost(i) ==
  /\ writes[i].step = "saved"
  /\ writes' = RemoveAt(writes, i)
  /\ Stale(writes[i].row, NoneToRead)
  /\ UNCHANGED <<page, saved, view, loads, dialog>>

\* The list asked for last does not come, or one asked for earlier comes after it.
Overtaken(i) == stale' = IF i = Len(loads) THEN Rows ELSE stale

ListLost(i) ==
  /\ loads' = RemoveAt(loads, i) /\ Overtaken(i)
  /\ UNCHANGED <<page, saved, view, writes, dialog>>

----------------------------------------------------------------------------
(* Lists arrive                                                            *)

\* Users that are not active are left out unless asked for.
View(list) ==
  [r \in Rows |-> IF page = "users" /\ ~inactiveToo /\ ~list[r].on THEN Gone ELSE list[r]]

\* The list replaces the rows the page holds.
Arrives(i) ==
  /\ loads[i].read
  /\ shown' = View(loads[i].list) /\ listed' = TRUE
  /\ loads' = RemoveAt(loads, i)
  /\ writes' = [j \in DOMAIN writes |-> [writes[j] EXCEPT !.mine = FALSE]]
  /\ dialog' = IF dialog = NoDialog THEN dialog ELSE [dialog EXCEPT !.mine = FALSE]
  /\ IF Len(loads) = 1 THEN UNCHANGED stale ELSE Overtaken(i)
  /\ UNCHANGED <<page, saved, inactiveToo>>

GenresListed(i) == page = "genres" /\ Arrives(i)
SeriesListed(i) == page = "series" /\ Arrives(i)
UsersListed(i) == page = "users" /\ Arrives(i)
TenantsListed(i) == page = "tenants" /\ Arrives(i)
BooksListed(i) == page = "books" /\ Arrives(i)
IntegrationsListed(i) == page = "integrations" /\ Arrives(i)

\* Users are asked for once their age categories are known, and again with
\* each profile.
CategoriesListed ==
  /\ page = "users" /\ SendLoad
  /\ UNCHANGED <<page, saved, view, writes, dialog>>

\* The table keeps its rows until the list comes.
ToggleInactiveUsers ==
  /\ page = "users" /\ ~Covered /\ SendLoad
  /\ inactiveToo' = ~inactiveToo
  /\ UNCHANGED <<page, saved, shown, listed, writes, dialog>>

----------------------------------------------------------------------------
(* Changes are sent                                                        *)

SendsOnly(w) == Send(w) /\ UNCHANGED <<page, saved, view, loads, dialog>>
AsksOnly(w) == Ask(w) /\ UNCHANGED <<page, saved, view, loads, writes, stale>>

Renamed(r, n) == Change("rename", r, n, FALSE)
Switched(r) == Change("switch", r, 0, ~shown[r].on)
Deleted(r) == Change("delete", r, 0, FALSE)
Created(r, n) == Change("create", r, n, TRUE)

\* A row nobody has yet.
New(r) == saved[r] = Gone /\ \A i \in DOMAIN writes : writes[i].row # r

SaveGenreEdit(r, n) == On("genres", r) /\ SendsOnly(Renamed(r, n))
SaveSeriesEdit(r, n) == On("series", r) /\ SendsOnly(Renamed(r, n))

CreateGenre(r, n) == page = "genres" /\ ~Covered /\ New(r) /\ SendsOnly(Created(r, n))
CreateSeries(r, n) == page = "series" /\ ~Covered /\ New(r) /\ SendsOnly(Created(r, n))
AddUser(r, n) == page = "users" /\ ~Covered /\ New(r) /\ SendsOnly(Created(r, n))

DeleteGenre(r) == On("genres", r) /\ AsksOnly(Deleted(r))
DeleteSeries(r) == On("series", r) /\ AsksOnly(Deleted(r))
RemoveIntegration(r) == On("integrations", r) /\ AsksOnly(Deleted(r))

ToggleUserStatus(r) == On("users", r) /\ AsksOnly(Switched(r))
ToggleTenant(r) == On("tenants", r) /\ AsksOnly(Switched(r))
ToggleRestricted(r) == On("books", r) /\ SendsOnly(Switched(r))

\* Only users that are not active can be deleted.
DeleteUser(r) == On("users", r) /\ ~shown[r].on /\ AsksOnly(Deleted(r))

\* The field of a user changes on the page before it is asked for.
ApplyUpdate(r, n) ==
  /\ On("users", r) /\ Send(Renamed(r, n))
  /\ shown' = [shown EXCEPT ![r].name = n]
  /\ UNCHANGED <<page, saved, inactiveToo, listed, loads, dialog>>

\* Unless it is the address, which is checked first.
CheckEmail(r, n) ==
  On("users", r) /\ SendsOnly([Renamed(r, n) EXCEPT !.step = "checking", !.mine = TRUE])

\* The address is free, or the check has failed, which counts as free.
EmailFree(i) ==
  LET w == writes[i]
  IN  /\ w.step = "checking"
      /\ shown' = IF w.mine THEN [shown EXCEPT ![w.row].name = w.to.name] ELSE shown
      /\ writes' = [writes EXCEPT ![i].step = "sent", ![i].mine = FALSE]
      /\ UNCHANGED <<page, saved, inactiveToo, listed, loads, dialog, stale>>

EmailTaken(i) ==
  /\ writes[i].step = "checking"
  /\ writes' = RemoveAt(writes, i)
  /\ UNCHANGED <<page, saved, view, loads, dialog, stale>>

\* A folder picked in its own dialog is added to the integration.
AddFolder(r) == On("integrations", r) /\ SendsOnly(Change("folder", r, 0, FALSE))

Confirm ==
  /\ dialog # NoDialog
  /\ Send(dialog) /\ dialog' = NoDialog
  /\ UNCHANGED <<page, saved, view, loads>>

Dismiss ==
  /\ dialog # NoDialog /\ page # "tenants" /\ dialog' = NoDialog
  /\ UNCHANGED <<page, saved, view, loads, writes, stale>>

\* The list of tenants is loaded again, to put the switch back.
DismissTenant ==
  /\ dialog # NoDialog /\ page = "tenants" /\ dialog' = NoDialog
  /\ SendLoad
  /\ UNCHANGED <<page, saved, view, writes>>

----------------------------------------------------------------------------
(* Changes are answered                                                    *)

\* The answer to change i, of page p, is in.
Answered(i, p, ops) ==
  /\ page = p /\ writes[i].step = "saved" /\ writes[i].op \in ops
  /\ writes' = RemoveAt(writes, i)
  /\ UNCHANGED <<page, saved, inactiveToo, listed, dialog>>

Reload == SendLoad /\ UNCHANGED shown

GenreSaved(i) == Answered(i, "genres", {"rename"}) /\ Reload
SeriesSaved(i) == Answered(i, "series", {"rename"}) /\ Reload

\* The row is put in at once as well.
Pushed(i) ==
  /\ shown' = [shown EXCEPT ![writes[i].row] = writes[i].to]
  /\ SendLoad

\* Mutant: the new row is put in, and the list is not loaded again.
GenreCreatedOnly(i) ==
  /\ Answered(i, "genres", {"create"})
  /\ shown' = [shown EXCEPT ![writes[i].row] = writes[i].to]
  /\ UNCHANGED <<loads, stale>>

GenreCreated(i) == Answered(i, "genres", {"create"}) /\ Pushed(i)
SeriesCreated(i) == Answered(i, "series", {"create"}) /\ Pushed(i)

GenreDeleted(i) == Answered(i, "genres", {"delete"}) /\ Reload
SeriesDeleted(i) == Answered(i, "series", {"delete"}) /\ Reload

UserAdded(i) == Answered(i, "users", {"create"}) /\ Reload
UserStatusChanged(i) == Answered(i, "users", {"switch"}) /\ Reload
UserDeleted(i) == Answered(i, "users", {"delete"}) /\ Reload
UserUpdated(i) == Answered(i, "users", {"rename"}) /\ Reload

\* The row is changed, if the table still holds it.
Patched(i) ==
  /\ shown' = IF writes[i].mine THEN [shown EXCEPT ![writes[i].row].on = writes[i].to.on]
              ELSE shown
  /\ UNCHANGED <<loads, stale>>

TenantToggled(i) == Answered(i, "tenants", {"switch"}) /\ Patched(i)
BookToggled(i) == Answered(i, "books", {"switch"}) /\ Patched(i)

IntegrationRemoved(i) ==
  /\ Answered(i, "integrations", {"delete"})
  /\ shown' = [shown EXCEPT ![writes[i].row] = Gone]
  /\ UNCHANGED <<loads, stale>>

\* The dialog closes and the integrations are loaded again.
FolderAdded(i) == Answered(i, "integrations", {"folder"}) /\ Reload

----------------------------------------------------------------------------
Listed(i) ==
  \/ GenresListed(i) \/ SeriesListed(i) \/ UsersListed(i)
  \/ TenantsListed(i) \/ BooksListed(i) \/ IntegrationsListed(i)

Sends(r) ==
  \/ \E n \in 1..2 : \/ SaveGenreEdit(r, n) \/ SaveSeriesEdit(r, n)
                     \/ CreateGenre(r, n) \/ CreateSeries(r, n)
                     \/ AddUser(r, n) \/ ApplyUpdate(r, n) \/ CheckEmail(r, n)
  \/ DeleteGenre(r) \/ DeleteSeries(r) \/ RemoveIntegration(r) \/ DeleteUser(r)
  \/ ToggleUserStatus(r) \/ ToggleTenant(r) \/ ToggleRestricted(r) \/ AddFolder(r)

Answers(i) ==
  \/ GenreSaved(i) \/ GenreCreated(i) \/ GenreDeleted(i)
  \/ SeriesSaved(i) \/ SeriesCreated(i) \/ SeriesDeleted(i)
  \/ UserAdded(i) \/ UserStatusChanged(i) \/ UserDeleted(i) \/ UserUpdated(i)
  \/ TenantToggled(i) \/ BookToggled(i) \/ IntegrationRemoved(i) \/ FolderAdded(i)

Next ==
  /\ \/ \E i \in DOMAIN loads : ReadList(i) \/ Listed(i) \/ ListLost(i)
     \/ \E i \in DOMAIN writes : \/ SaveChange(i) \/ Refused(i) \/ AnswerLost(i)
                                 \/ EmailFree(i) \/ EmailTaken(i) \/ Answers(i)
     \/ \E r \in Rows : Sends(r) \/ ChangedElsewhere(r)
     \/ CategoriesListed \/ ToggleInactiveUsers
     \/ Confirm \/ Dismiss \/ DismissTenant
  /\ Len(loads') + Len(writes') <= MaxCalls

Spec == Init /\ [][Next]_vars

----------------------------------------------------------------------------
(* Properties                                                              *)

\* Once nothing is under way a page shows a row as it is saved, whatever lists and
\* changes were under way together, unless, since a list was asked for last, the
\* row was changed elsewhere, an answer or that list was lost or overtaken, or a
\* refused change had been shown; or, on a page that sets the row it holds, a
\* change was saved after the list was read, or when the list had replaced the
\* row object its answer will set, or the book was turned another way than asked,
\* or two changes asked for different values at once.
ShownIsSaved ==
  listed /\ loads = <<>> /\ writes = <<>> =>
    \A r \in Rows \ stale : shown[r] = View(saved)[r]
=============================================================================
