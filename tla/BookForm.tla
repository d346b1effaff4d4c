------------------------------ MODULE BookForm ------------------------------
(***************************************************************************)
(* The form that creates a book or edits one.  Its stepper moves on at     *)
(* once, whatever becomes of the call that saves a step; step 1 sends only *)
(* the required fields, step 2 all of them, and CatalogService writes every *)
(* field of the row with what it makes of what it is sent.  When a book is *)
(* edited its row comes late, and again with each profile, over what has   *)
(* been typed.                                                             *)
(*                                                                         *)
(* required stands for title, genre and age; found for author, ISBN and    *)
(* year, which Open Library may fill; own for series, description and      *)
(* location.  0 is blank.                                                  *)
(***************************************************************************)
EXTENDS Naturals, Sequences, SequencesExt

CONSTANTS
  Values,       \* what a field can hold besides 0
  Kept,         \* what the catalog keeps of what a field holds: text is
                \* sanitised, an implausible ISBN dropped, a year sent as a date
  MaxBooks,     \* bound on the books the form makes
  MaxSaves,     \* bound on the saves under way at once
  MaxOthers     \* bound on the fetches, and on the names, under way at once

Field == Values \union {0}

BookFormAssumption ==
  /\ Values \subseteq Nat \ {0} /\ {MaxBooks, MaxSaves, MaxOthers} \subseteq Nat
  /\ Kept \in [Field -> Field] /\ Kept[0] = 0

VARIABLES
  route,        \* the id in the address, 0 to create a book
  catalog,      \* the books of CatalogService, by id
  bookId,       \* the book the form saves to, 0 when it knows none
  form,         \* what the fields show
  step,         \* the step the stepper is at
  fetches,      \* calls of ngOnInit and loadBook, in any order
  saves,        \* calls of saveStep1 and saveStep2
  names,        \* calls of saveGenre and saveSeries
  overlay,      \* GlobalLoadingService._isVisible
  stray,        \* a call of the page before is still under way
  seen          \* history, for the properties only

calls == <<fetches, saves, names>>
vars == <<route, catalog, bookId, form, step, calls, overlay, stray, seen>>

Fields == [required : Field, found : Field, own : Field]
Blank == [required |-> 0, found |-> 0, own |-> 0]

\* A check of the book's rights, or a load of its row once it has been read.
Fetch == [stage : {"check", "load", "read"}, row : Fields]

Save == [kind : {"post", "put"}, id : Nat, row : Fields, done : BOOLEAN]

Name == [field : {"required", "own"}, value : Values]

\* last: the save sent last, if no field has changed since.  doubtful: a save
\* failed, or a stray answer took the overlay off it, or it made a book while
\* one was to be edited.
Seen == [last : {"none", "post", "put1", "put2"}, doubtful : BOOLEAN]

Doubtful == [last |-> "none", doubtful |-> TRUE]

TypeOK ==
  /\ route \in 0..1 /\ catalog \in Seq(Fields) /\ bookId \in 0..Len(catalog)
  /\ form \in Fields /\ step \in 1..3
  /\ fetches \in Seq(Fetch) /\ saves \in Seq(Save) /\ names \in Seq(Name)
  /\ overlay \in BOOLEAN /\ stray \in BOOLEAN /\ seen \in Seen

Init ==
  /\ route \in 0..1
  /\ catalog \in IF route = 0 THEN {<<>>} ELSE [1..1 -> [required : Values, found : Field, own : Field]]
  /\ bookId = 0 /\ form = Blank /\ step = 1
  /\ fetches = <<>> /\ saves = <<>> /\ names = <<>>
  /\ stray \in BOOLEAN /\ overlay \in {FALSE, stray}
  /\ seen = [last |-> "none", doubtful |-> FALSE]

Touched(h) == [h EXCEPT !.last = "none"]

----------------------------------------------------------------------------
(* The overlay                                                             *)

Show == overlay' = TRUE
Hide == overlay' = FALSE

\* The page before has several calls under way when it is left, and each answer
\* hides the overlay.
StrayAnswer ==
  /\ stray /\ stray' = FALSE /\ Hide
  /\ seen' = IF saves = <<>> THEN seen ELSE Doubtful
  /\ UNCHANGED <<route, catalog, bookId, form, step, calls>>

----------------------------------------------------------------------------
(* A book that is edited is fetched                                        *)

\* The profile is there, or there again.
ProfileEmits ==
  /\ route # 0 /\ Len(fetches) < MaxOthers
  /\ fetches' = Append(fetches, [stage |-> "check", row |-> Blank])
  /\ UNCHANGED <<route, catalog, bookId, form, step, saves, names, overlay, stray, seen>>

\* The owner may edit it.
MayEdit(i) ==
  /\ fetches[i].stage = "check" /\ bookId' = route
  /\ fetches' = [fetches EXCEPT ![i].stage = "load"]
  /\ UNCHANGED <<route, catalog, form, step, saves, names, overlay, stray, seen>>

ReadBook(i) ==
  /\ fetches[i].stage = "load"
  /\ fetches' = [fetches EXCEPT ![i] = [stage |-> "read", row |-> catalog[route]]]
  /\ UNCHANGED <<route, catalog, bookId, form, step, saves, names, overlay, stray, seen>>

LoadBook(i) ==
  /\ fetches[i].stage = "read"
  /\ fetches' = RemoveAt(fetches, i)
  /\ bookId' = route /\ form' = fetches[i].row
  /\ seen' = Touched(seen)
  /\ UNCHANGED <<route, catalog, step, saves, names, overlay, stray>>

FetchFails(i) ==
  /\ fetches' = RemoveAt(fetches, i)
  /\ UNCHANGED <<route, catalog, bookId, form, step, saves, names, overlay, stray, seen>>

----------------------------------------------------------------------------
(* Typing                                                                  *)

Type(field, v) ==
  /\ ~overlay /\ step = (IF field = "required" THEN 1 ELSE 2)
  /\ form[field] # v
  /\ form' = [form EXCEPT ![field] = v]
  /\ seen' = Touched(seen)
  /\ UNCHANGED <<route, catalog, bookId, step, calls, overlay, stray>>

\* A new genre or series is made, without an overlay, and then chosen.
SaveName(field, v) ==
  /\ field # "found" /\ ~overlay /\ step = (IF field = "required" THEN 1 ELSE 2)
  /\ Len(names) < MaxOthers
  /\ names' = Append(names, [field |-> field, value |-> v])
  /\ UNCHANGED <<route, catalog, bookId, form, step, fetches, saves, overlay, stray, seen>>

NameSaved(i) ==
  /\ names' = RemoveAt(names, i)
  /\ form' = [form EXCEPT ![names[i].field] = names[i].value]
  /\ seen' = Touched(seen)
  /\ UNCHANGED <<route, catalog, bookId, step, fetches, saves, overlay, stray>>

NameFails(i) ==
  /\ names' = RemoveAt(names, i)
  /\ UNCHANGED <<route, catalog, bookId, form, step, fetches, saves, overlay, stray, seen>>

\* A step's header or its Back button; a step is open once step 1 is filled.
Go(n) ==
  /\ ~overlay /\ n # step /\ (n = 1 \/ form.required # 0)
  /\ step' = n
  /\ UNCHANGED <<route, catalog, bookId, form, calls, overlay, stray, seen>>

----------------------------------------------------------------------------
(* Saving                                                                  *)

\* A step is saved, and the stepper moves on.
Send(kind, row, last) ==
  /\ Len(saves) < MaxSaves
  /\ saves' = Append(saves, [kind |-> kind, id |-> bookId, row |-> row, done |-> FALSE])
  /\ Show /\ step' = step + 1
  /\ seen' = IF seen.doubtful \/ (kind = "post" /\ route # 0) THEN Doubtful
             ELSE [seen EXCEPT !.last = last]
  /\ UNCHANGED <<route, catalog, bookId, form, fetches, names, stray>>

Required == [form EXCEPT !.found = 0, !.own = 0]

\* Mutant: a step is saved without the overlay.
SaveStep1Uncovered ==
  /\ ~overlay /\ step = 1 /\ form.required # 0 /\ Len(saves) < MaxSaves
  /\ saves' = Append(saves, [kind |-> IF bookId = 0 THEN "post" ELSE "put",
                             id |-> bookId, row |-> Required, done |-> FALSE])
  /\ step' = 2
  /\ seen' = Touched(seen)
  /\ UNCHANGED <<route, catalog, bookId, form, fetches, names, overlay, stray>>

SaveStep1 ==
  /\ ~overlay /\ step = 1 /\ form.required # 0
  /\ IF bookId = 0 THEN Send("post", Required, "post") ELSE Send("put", Required, "put1")

SaveStep2 ==
  /\ ~overlay /\ step = 2 /\ bookId # 0
  /\ Send("put", form, "put2")

\* The form does not know a book: nothing is sent, and nobody is told.
SaveNothing ==
  /\ ~overlay /\ step = 2 /\ bookId = 0
  /\ step' = 3
  /\ UNCHANGED <<route, catalog, bookId, form, calls, overlay, stray, seen>>

\* What the service makes of a row it is sent.
KeptOf(row) ==
  [required |-> Kept[row.required], found |-> Kept[row.found], own |-> Kept[row.own]]

\* Blank fields may be filled from Open Library.
Enriched(row) ==
  {[row EXCEPT !.found = v] : v \in IF row.found = 0 THEN Field ELSE {row.found}}

PostBook(i) ==
  /\ saves[i].kind = "post" /\ ~saves[i].done /\ Len(catalog) < MaxBooks
  /\ \E row \in Enriched(KeptOf(saves[i].row)) :
       /\ catalog' = Append(catalog, row)
       /\ saves' = [saves EXCEPT ![i].done = TRUE, ![i].row = row, ![i].id = Len(catalog) + 1]
  /\ UNCHANGED <<route, bookId, form, step, fetches, names, overlay, stray, seen>>

\* Mutant: a field that is not sent keeps its value.
PutGiven(i) ==
  /\ saves[i].kind = "put" /\ ~saves[i].done
  /\ catalog' = [catalog EXCEPT ![saves[i].id] =
                   [KeptOf(saves[i].row) EXCEPT !.own = IF @ = 0 THEN catalog[saves[i].id].own ELSE @]]
  /\ saves' = [saves EXCEPT ![i].done = TRUE, ![i].row = Blank]
  /\ UNCHANGED <<route, bookId, form, step, fetches, names, overlay, stray, seen>>

\* Every field is written, those the form has not sent as null.  The answer has
\* no content.
PutBook(i) ==
  /\ saves[i].kind = "put" /\ ~saves[i].done
  /\ catalog' = [catalog EXCEPT ![saves[i].id] = KeptOf(saves[i].row)]
  /\ saves' = [saves EXCEPT ![i].done = TRUE, ![i].row = Blank]
  /\ UNCHANGED <<route, bookId, form, step, fetches, names, overlay, stray, seen>>

\* The form takes the id of the new book, and its author, ISBN and year over
\* those it has.
Posted(i) ==
  /\ saves[i].kind = "post" /\ saves[i].done
  /\ bookId' = saves[i].id /\ form' = [form EXCEPT !.found = saves[i].row.found]
  /\ saves' = RemoveAt(saves, i) /\ Hide
  /\ UNCHANGED <<route, catalog, step, fetches, names, stray, seen>>

PutDone(i) ==
  /\ saves[i].kind = "put" /\ saves[i].done
  /\ saves' = RemoveAt(saves, i) /\ Hide
  /\ UNCHANGED <<route, catalog, bookId, form, step, fetches, names, stray, seen>>

\* A save fails, or its answer is lost: an alert, and the stepper stays on.
SaveFails(i) ==
  /\ saves' = RemoveAt(saves, i) /\ Hide
  /\ seen' = Doubtful
  /\ UNCHANGED <<route, catalog, bookId, form, step, fetches, names, stray>>

----------------------------------------------------------------------------
\* Nothing is claimed after a doubtful save, so no behaviour is followed
\* beyond one.
Next ==
  /\ ~seen.doubtful
  /\ \/ StrayAnswer \/ ProfileEmits
     \/ \E i \in DOMAIN fetches : MayEdit(i) \/ ReadBook(i) \/ LoadBook(i) \/ FetchFails(i)
     \/ \E field \in DOMAIN form, v \in Field : Type(field, v) \/ (v # 0 /\ SaveName(field, v))
     \/ \E i \in DOMAIN names : NameSaved(i) \/ NameFails(i)
     \/ \E n \in 1..3 : Go(n)
     \/ SaveStep1 \/ SaveStep2 \/ SaveNothing
     \/ \E i \in DOMAIN saves : \/ PostBook(i) \/ PutBook(i)
                                \/ Posted(i) \/ PutDone(i) \/ SaveFails(i)

Spec == Init /\ [][Next]_vars

----------------------------------------------------------------------------
(* Properties                                                              *)

Made == Len(catalog) - route

\* The form makes one book, and none when it edits: the overlay keeps step 1
\* from being saved again before the id of the new book is known.  It fails
\* if an answer is lost, if an answer of the page before takes the overlay
\* down, or if a book is edited before its rights have been checked.
OneBookPerForm ==
  ~seen.doubtful => Made <= 1 - route

\* Once a save is answered and no field has been changed since, the catalog
\* holds, after step 2, what the service makes of what the form shows.  After
\* step 1 it holds that of the required fields only: the author, ISBN and year
\* are those of Open Library, which the form of a new book then shows and one
\* that edits loses, and the own fields are blank, whatever the form shows;
\* they are written with step 2.  It says nothing once a save was doubtful.
SavedAsShown ==
  saves = <<>> =>
    /\ seen.last = "post" => catalog[bookId] = [KeptOf(Required) EXCEPT !.found = form.found]
    /\ seen.last = "put1" => catalog[bookId] = KeptOf(Required)
    /\ seen.last = "put2" => catalog[bookId] = KeptOf(form)
=============================================================================
