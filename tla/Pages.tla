------------------------------- MODULE Pages -------------------------------
(***************************************************************************)
(* The pages of the client that keep lists and forms.  The router shows    *)
(* one page and makes its component anew each time: a behaviour is one     *)
(* visit to one of them, whose variables change while those of the others  *)
(* stay as they are when nobody is there.                                  *)
(***************************************************************************)
EXTENDS Naturals, Sequences

CONSTANTS
  Books, Title, PageSize,                              \* Library
  Files, Genres, Ages, DefaultAge, MaxLists, MaxJobs,  \* ImportPage
  Values, Kept, MaxBooks, MaxSaves, MaxOthers,         \* BookForm
  Rows, MaxLoads, MaxWrites, MaxCalls                  \* Tables

VARIABLES
  open,         \* the page that is shown
  available, list, filteredBooks, query, nextPage, asking, history,
  integrations, selected, valid, common, files, newFiles, pickers, lists, start, dto, jobs, failed,
  route, catalog, bookId, form, step, fetches, saves, names, overlay, stray, seen,
  page, saved, shown, inactiveToo, listed, loads, writes, dialog, stale

L == INSTANCE Library
I == INSTANCE ImportPage
F == INSTANCE BookForm
T == INSTANCE Tables

ASSUME PagesAssumption ==
  L!LibraryAssumption /\ I!ImportPageAssumption /\ F!BookFormAssumption /\ T!TablesAssumption

libraryVars == <<available, list, filteredBooks, query, nextPage, asking, history>>
importVars == <<integrations, selected, valid, common, files, newFiles, pickers,
                lists, start, dto, jobs, failed>>
formVars == <<route, catalog, bookId, form, step, fetches, saves, names,
              overlay, stray, seen>>
tableVars == <<page, saved, shown, inactiveToo, listed, loads, writes, dialog, stale>>

vars == <<open, libraryVars, importVars, formVars, tableVars>>

----------------------------------------------------------------------------
(* A page that is not shown                                                *)

NoLibrary ==
  /\ available = {} /\ list = <<>> /\ filteredBooks = <<>> /\ query = L!NoQuery
  /\ nextPage = 1 /\ asking = "loaded"
  /\ history = [start |-> {}, added |-> FALSE, removed |-> FALSE]

NoImportPage ==
  /\ integrations = 0 /\ selected = FALSE /\ valid = FALSE
  /\ common = I!NoChoice /\ files = I!NoRows /\ newFiles = {}
  /\ pickers = 0 /\ lists = 0 /\ start = "none" /\ dto = I!NoImport
  /\ jobs = 0 /\ failed = FALSE

NoBookForm ==
  /\ route = 0 /\ catalog = <<>> /\ bookId = 0 /\ form = F!Blank /\ step = 1
  /\ fetches = <<>> /\ saves = <<>> /\ names = <<>>
  /\ overlay = FALSE /\ stray = FALSE
  /\ seen = [last |-> "none", doubtful |-> FALSE]

NoTable ==
  /\ page = "genres" /\ saved = T!Nothing /\ shown = T!Nothing
  /\ inactiveToo = FALSE /\ listed = FALSE
  /\ loads = <<>> /\ writes = <<>> /\ dialog = T!NoDialog /\ stale = {}

----------------------------------------------------------------------------
Init ==
  \/ open = "books" /\ L!Init /\ NoImportPage /\ NoBookForm /\ NoTable
  \/ open = "bulk-import" /\ I!Init /\ NoLibrary /\ NoBookForm /\ NoTable
  \/ open = "create" /\ F!Init /\ NoLibrary /\ NoImportPage /\ NoTable
  \/ open = "table" /\ T!Init /\ NoLibrary /\ NoImportPage /\ NoBookForm

Next ==
  \/ open = "books" /\ L!Next /\ UNCHANGED <<open, importVars, formVars, tableVars>>
  \/ open = "bulk-import" /\ I!Next /\ UNCHANGED <<open, libraryVars, formVars, tableVars>>
  \/ open = "create" /\ F!Next /\ UNCHANGED <<open, libraryVars, importVars, tableVars>>
  \/ open = "table" /\ T!Next /\ UNCHANGED <<open, libraryVars, importVars, formVars>>

Spec == Init /\ [][Next]_vars /\ L!Fairness

----------------------------------------------------------------------------
(* Properties                                                              *)

\* However the pages of the list overlap with what is added meanwhile, a list
\* that ended without an error holds every book there was when it began
\* (Library.NothingIsHidden: loadBooks and the Skip and Take of GetBooks).
NothingIsHidden == open = "books" => L!NothingIsHidden

\* The list shows each book that matches the search once, by title if nothing
\* changed meanwhile (Library.ShownOnceInOrder: loadBooks and filterBooks).
ShownOnceInOrder == open = "books" => L!ShownOnceInOrder

\* The list stops asking for pages, whatever is added and taken away while it
\* does (Library.ListingEnds: the ways out of loadBooks).
ListingEnds == L!ListingEnds

\* A job gets the files, genres and ages the rows showed when the import was
\* confirmed, and when it was started if nothing was being picked or listed
\* (ImportPage.ImportsWhatRowsShow: submit and StartBulkImport).
ImportsWhatRowsShow == open = "bulk-import" => I!ImportsWhatRowsShow

\* The files of a folder are not sent twice on one visit unless a start failed
\* (ImportPage.OneJobPerVisit: resetForm).
OneJobPerVisit == open = "bulk-import" => I!OneJobPerVisit

\* The form makes one book, and none when it edits (BookForm.OneBookPerForm:
\* the overlay of saveStep1).
OneBookPerForm == open = "create" => F!OneBookPerForm

\* After a save that was answered the catalog has what the service makes of what
\* the form shows, after step 1 without the fields of step 2
\* (BookForm.SavedAsShown: saveStep1, saveStep2, PostBook and PutBook).
SavedAsShown == open = "create" => F!SavedAsShown

\* Once nothing is under way a table shows each row as it is saved, unless one of
\* the causes that Tables.ShownIsSaved lists has left it out of date (how each page
\* brings its list up to date after a change).
ShownIsSaved == open = "table" => T!ShownIsSaved
=============================================================================
