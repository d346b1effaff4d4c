--------------------------- MODULE GenresAndSeries ---------------------------
(***************************************************************************)
(* The genres, or the series, of a tenant and the books filed under them   *)
(* (CatalogService).                                                       *)
(*                                                                         *)
(* Both tables are soft-deleted and hide inactive rows behind a query      *)
(* filter; their controllers differ in which queries ignore it and in what *)
(* is saved.  "kind" says which of the two a behaviour is about.           *)
(*                                                                         *)
(* Each request looks, then saves; the name check, the check that a row is *)
(* not in use and the save are not one transaction.  A book is filed under *)
(* a row by the two pages of the book form, each a request of its own, or  *)
(* by the import, which shows the book only when its file is attached; it  *)
(* is filed again by every request that saves the whole row of a book it   *)
(* has loaded, to name its file or to turn its restriction.                *)
(* Names differ after sanitising, trimming and lowering the case.          *)
(***************************************************************************)
EXTENDS Naturals, Sequences, FiniteSets

CONSTANTS
  Requests,  \* requests, book forms and imports in progress at a time
  Name,
  MaxRows,   \* bound on the rows of the table
  MaxBooks   \* bound on the rows of Books

ASSUME RequestsAssumption == IsFiniteSet(Requests) /\ Requests # {}
ASSUME BoundsAssumption == MaxRows \in Nat /\ MaxBooks \in Nat

VARIABLES
  kind,   \* "genre" or "series"
  rows,   \* the table, the Id being the index
  books,  \* the rows of Books
  req,    \* what is in progress
  raced   \* history: which overlaps have been seen

vars == <<kind, rows, books, req, raced>>

Row == [name : Name, active : BOOLEAN]

\* "row" is 0 for a SeriesId that is null.
Book == [row : Nat, active : BOOLEAN]

Operation == {"none", "add", "rename", "delete", "form", "remove", "patch", "import"}

Step == {"idle", "insert", "saveRow", "look", "saveBook", "addBook", "attach"}

\* "row" is what the request is about or the book will be filed under, "book" the
\* book with 0 for a new one, "copy" the row as loaded and changed, "draft" the book.
Request == [op : Operation, step : Step, page : 0..2, row : Nat, book : Nat,
            copy : SUBSET Row, draft : SUBSET Book]

Idle == [op |-> "none", step |-> "idle", page |-> 0, row |-> 0, book |-> 0,
         copy |-> {}, draft |-> {}]

TypeOK ==
  /\ kind \in {"genre", "series"}
  /\ rows \in Seq(Row)
  /\ books \in Seq(Book) /\ \A b \in DOMAIN books : books[b].row <= Len(rows)
  /\ req \in [Requests -> Request]
  /\ raced \subseteq {"names", "use"}

At(c, s) == req[c].step = s

Goes(c, q) == req' = [req EXCEPT ![c] = q]

Ends(c) == Goes(c, Idle)

\* What the query filter lets through.
Shown == {i \in DOMAIN rows : rows[i].active}

Named(n) == {i \in DOMAIN rows : rows[i].name = n}

\* No series is one of the choices of a form.
Choices == IF kind = "series" THEN Shown \cup {0} ELSE Shown

Init ==
  /\ kind \in {"genre", "series"}
  /\ rows = <<>>
  /\ books = <<>>
  /\ req = [c \in Requests |-> Idle]
  /\ raced = {}

----------------------------------------------------------------------------
(* GenreController, SeriesController                                       *)

\* AddGenre ignores the filter and finds deleted rows; CreateSeries does not.
FoundByAdd(n) == IF kind = "genre" THEN Named(n) ELSE Named(n) \cap Shown

\* A new row, the revival of a deleted one, or Conflict.
LookToAdd(c, n, found, next) ==
  \/ /\ found = {}
     /\ Goes(c, [next EXCEPT !.step = "insert", !.copy = {[name |-> n, active |-> TRUE]}])
  \/ \E i \in found \ Shown :
       Goes(c, [next EXCEPT !.step = "saveRow", !.row = i,
                            !.copy = {[rows[i] EXCEPT !.active = TRUE]}])

BeginAdd(c) ==
  /\ At(c, "idle")
  /\ \E n \in Name : LookToAdd(c, n, FoundByAdd(n), [Idle EXCEPT !.op = "add"])
  /\ UNCHANGED <<kind, rows, books>>

\* Variant: only the row that is renamed is looked at.
TakenHere(i, n) == rows[i].name = n

\* PutGenre takes the row itself for a duplicate; neither sees deleted rows.
Taken(i, n) == (Named(n) \cap Shown) \ (IF kind = "series" THEN {i} ELSE {}) # {}

BeginRename(c) ==
  /\ At(c, "idle")
  /\ \E i \in Shown, n \in Name :
       /\ ~Taken(i, n)
       /\ Goes(c, [Idle EXCEPT !.op = "rename", !.step = "saveRow", !.row = i,
                               !.copy = {[rows[i] EXCEPT !.name = n]}])
  /\ UNCHANGED <<kind, rows, books>>

\* Variant: a book that is shown does not stop the deletion.
InUseByHidden(i) == \E b \in DOMAIN books : books[b].row = i /\ ~books[b].active

\* The books that Include loads are those the filter shows.
InUse(i) == \E b \in DOMAIN books : books[b].row = i /\ books[b].active

BeginDelete(c) ==
  /\ At(c, "idle")
  /\ \E i \in Shown :
       /\ ~InUse(i)
       /\ Goes(c, [Idle EXCEPT !.op = "delete", !.step = "saveRow", !.row = i,
                               !.copy = {[rows[i] EXCEPT !.active = FALSE]}])
  /\ UNCHANGED <<kind, rows, books>>

\* What follows for an import whose series is known.
Filed(c, i) ==
  IF req[c].op = "import"
  THEN Goes(c, [Idle EXCEPT !.op = "import", !.step = "addBook", !.row = i])
  ELSE Ends(c)

Insert(c) ==
  /\ At(c, "insert")
  /\ Len(rows) < MaxRows
  /\ \E r \in req[c].copy : rows' = Append(rows, r)
  /\ Filed(c, Len(rows) + 1)
  /\ UNCHANGED <<kind, books>>

\* PutGenre leaves it to Entity Framework to see that the name has changed; all
\* others write the whole row.
Saved(q, r) ==
  IF q.op = "rename" /\ kind = "genre" THEN [rows[q.row] EXCEPT !.name = r.name] ELSE r

SaveRow(c) ==
  /\ At(c, "saveRow")
  /\ \E r \in req[c].copy : rows' = [rows EXCEPT ![req[c].row] = Saved(req[c], r)]
  /\ Filed(c, req[c].row)
  /\ UNCHANGED <<kind, books>>

ChangeRows(c) == BeginAdd(c) \/ BeginRename(c) \/ BeginDelete(c) \/ Insert(c) \/ SaveRow(c)

----------------------------------------------------------------------------
(* BookFormComponent with PostBook and PutBook; DeleteBook                 *)

\* Genre is required and filtered, so a book whose genre is hidden is not found;
\* a series is optional.
Openable(b) == books[b].active /\ (kind = "genre" => books[b].row \in Shown)

\* The form lists what is shown; the series of a book stays selected if hidden.
OpenForm(c) ==
  /\ At(c, "idle")
  /\ \E b \in {0} \cup {b \in DOMAIN books : Openable(b)} :
     \E i \in Choices \cup (IF b = 0 THEN {} ELSE {books[b].row}) :
       Goes(c, [Idle EXCEPT !.op = "form", !.step = "look", !.page = 1, !.row = i, !.book = b])
  /\ UNCHANGED <<kind, rows, books>>

\* The first page has no series, so its request takes the book out of its own.
OnPage(c) == IF kind = "series" /\ req[c].page = 1 THEN 0 ELSE req[c].row

\* PostBook looks for the genre, PutBook for that of the book as it was.
LookAtBook(c) ==
  /\ At(c, "look")
  /\ IF req[c].book = 0 THEN kind = "genre" => req[c].row \in Shown ELSE Openable(req[c].book)
  /\ Goes(c, [req[c] EXCEPT !.step = "saveBook", !.draft = {[row |-> OnPage(c), active |-> TRUE]}])
  /\ UNCHANGED <<kind, rows, books>>

\* DeleteBook does not include the genre.
BeginRemove(c) ==
  /\ At(c, "idle")
  /\ \E b \in DOMAIN books :
       /\ books[b].active
       /\ Goes(c, [Idle EXCEPT !.op = "remove", !.step = "saveBook", !.book = b,
                               !.draft = {[books[b] EXCEPT !.active = FALSE]}])
  /\ UNCHANGED <<kind, rows, books>>

\* The PATCHes that set the FileId or invert IsRestricted mark the whole row: what
\* they change is left out here, what they loaded is saved.  Those of support and of
\* FileService ignore the filter.
BeginPatch(c) ==
  /\ At(c, "idle")
  /\ \E b \in DOMAIN books :
       Goes(c, [Idle EXCEPT !.op = "patch", !.step = "saveBook", !.book = b, !.draft = {books[b]},
                            !.row = IF books[b].active THEN books[b].row ELSE 0])
  /\ UNCHANGED <<kind, rows, books>>

\* The first page is followed by the second, on the book it has saved.
PageSaved(c, b) ==
  IF req[c].page = 1
  THEN Goes(c, [req[c] EXCEPT !.step = "look", !.page = 2, !.book = b, !.draft = {}])
  ELSE Ends(c)

AddBook(c) ==
  /\ At(c, "saveBook") /\ req[c].book = 0
  /\ Len(books) < MaxBooks
  /\ \E d \in req[c].draft : books' = Append(books, d)
  /\ PageSaved(c, Len(books) + 1)
  /\ UNCHANGED <<kind, rows>>

SaveBook(c) ==
  /\ At(c, "saveBook") /\ req[c].book # 0
  /\ \E d \in req[c].draft : books' = [books EXCEPT ![req[c].book] = d]
  /\ PageSaved(c, req[c].book)
  /\ UNCHANGED <<kind, rows>>

ChangeBooks(c) ==
  OpenForm(c) \/ LookAtBook(c) \/ BeginRemove(c) \/ BeginPatch(c) \/ AddBook(c) \/ SaveBook(c)

----------------------------------------------------------------------------
(* StartBulkImport, ImportBook with ParseSeries, AttachFile                *)

\* The genre is chosen on the page of the import and never looked at again; the
\* series is that of the file, and ParseSeries ignores the filter.
BeginImport(c) ==
  /\ At(c, "idle")
  /\ LET import == [Idle EXCEPT !.op = "import"] IN
     \/ \E i \in Choices : Goes(c, [import EXCEPT !.step = "addBook", !.row = i])
     \/ kind = "series" /\ \E n \in Name : LookToAdd(c, n, Named(n), import)
  /\ UNCHANGED <<kind, rows, books>>

ImportBook(c) ==
  /\ At(c, "addBook")
  /\ Len(books) < MaxBooks
  /\ books' = Append(books, [row |-> req[c].row, active |-> FALSE])
  /\ Goes(c, [req[c] EXCEPT !.step = "attach", !.book = Len(books) + 1])
  /\ UNCHANGED <<kind, rows>>

AttachFile(c) ==
  /\ At(c, "attach")
  /\ books' = [books EXCEPT ![req[c].book].active = TRUE]
  /\ Ends(c)
  /\ UNCHANGED <<kind, rows>>

Import(c) == BeginImport(c) \/ ImportBook(c) \/ AttachFile(c)

----------------------------------------------------------------------------

\* Refused or failed, or the form is left.
Fails(c) ==
  /\ ~At(c, "idle")
  /\ Ends(c)
  /\ UNCHANGED <<kind, rows, books>>

ChangesNames(c) == At(c, "insert") \/ At(c, "saveRow")

Files(c) == req[c].op \in {"form", "patch", "import"}

\* Two requests that change names, or the deletion of a row and a form, a PATCH or an
\* import that files a book under it, are in progress at once.
Overlaps ==
  {o \in {"names", "use"} : \E c, d \in Requests :
     /\ c # d
     /\ o = "names" => ChangesNames(c) /\ ChangesNames(d)
     /\ o = "use"   => req[c].op = "delete" /\ Files(d) /\ req[d].row = req[c].row}

Next ==
  /\ \E c \in Requests : ChangeRows(c) \/ ChangeBooks(c) \/ Import(c) \/ Fails(c)
  /\ raced' = raced \cup Overlaps'

Spec == Init /\ [][Next]_vars

----------------------------------------------------------------------------
(* Properties                                                              *)

\* A book that is shown is filed under a row that is shown, unless the row was
\* deleted while a form or an import was about to use it, or while a PATCH held a
\* copy of a book from the time when it was filed there.
FiledUnderShown ==
  "use" \notin raced =>
    \A b \in DOMAIN books : books[b].active /\ books[b].row # 0 => books[b].row \in Shown

Unique == \A i, j \in Shown : rows[i].name = rows[j].name => i = j

\* The checks of names do their work: two rows that are shown come to share a name
\* only when two requests overlap or when a deleted row is revived.
TwiceByRevival ==
  [][Unique /\ ~Unique'
       => \/ "names" \in raced'
          \/ \E c \in Requests : req[c].op \in {"add", "import"} /\ SaveRow(c)]_vars
=============================================================================
