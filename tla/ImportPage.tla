---------------------------- MODULE ImportPage ----------------------------
(***************************************************************************)
(* The owner's page for bulk imports.  Folders are picked in Google's      *)
(* picker and their files listed, each with a genre and an age category of *)
(* its own that follow the ones chosen for all until they are set apart;   *)
(* the import sends the common choice and the rows that differ from it.    *)
(* Integrations, genres, ages and lists of files arrive in any order, and  *)
(* the picker comes up when its token and its script are there, whatever   *)
(* the owner has opened meanwhile.                                         *)
(***************************************************************************)
EXTENDS Naturals, FiniteSets, Functions

CONSTANTS
  Files,        \* what the picked folders hold
  Genres,       \* ids; the least is genres[0]
  Ages,         \* ids
  DefaultAge,   \* 3 in the code
  MaxLists,     \* bound on the pickers and lists of files under way at once
  MaxJobs       \* bound on the jobs that are made

ImportPageAssumption ==
  /\ Genres \subseteq Nat \ {0} /\ Genres # {}
  /\ Ages \subseteq Nat \ {0} /\ DefaultAge \in Ages
  /\ {MaxLists, MaxJobs} \subseteq Nat

VARIABLES
  integrations, \* how many integrations the account has; the page knows them
  selected,     \* selectedIntegrationId is set
  valid,        \* form.valid: integrationId is set in the form
  common,       \* globalGenreId and globalAgeCategoryId
  files,        \* files: the rows of the table
  newFiles,     \* newFiles: the ids that will be imported
  pickers,      \* pickers that are up, or wait for their token or script
  lists,        \* lists of files under way
  start,        \* how far the import is
  dto,          \* what is sent, or what the owner agreed to before it is
  jobs,         \* the jobs FileService has made
  failed        \* history: a start was answered with an error, or not at all

table == <<common, files, newFiles>>
account == <<integrations, selected>>
picking == <<pickers, lists>>
vars == <<account, valid, table, picking, start, dto, jobs, failed>>

\* 0: undefined, or not chosen.
Choice == [genre : Genres \union {0}, age : Ages \union {0}]
NoChoice == [genre |-> 0, age |-> 0]

\* The rows of a list of files; no rows is the empty function.
Tables == UNION {[S -> Choice] : S \in SUBSET Files}
NoRows == [f \in {} |-> NoChoice]

\* agreed and shown, for the properties: the rows when Start Import was pressed
\* and when it was confirmed.  settled: nothing was being picked or listed then.
Import == [ids : SUBSET Files, common : Choice, overrides : Tables,
           agreed : Tables, shown : Tables, settled : BOOLEAN]
NoImport == [ids |-> {}, common |-> NoChoice, overrides |-> NoRows,
             agreed |-> NoRows, shown |-> NoRows, settled |-> FALSE]

TypeOK ==
  /\ integrations \in 0..2 /\ selected \in BOOLEAN /\ valid \in BOOLEAN
  /\ common \in Choice /\ files \in Tables /\ newFiles \subseteq Files
  /\ pickers \in Nat /\ lists \in Nat /\ pickers + lists <= MaxLists
  /\ start \in {"none", "dialog", "sent", "made"} /\ dto \in Import
  /\ jobs \in 0..MaxJobs /\ failed \in BOOLEAN

Init ==
  /\ integrations \in 0..2 /\ selected = FALSE /\ valid = FALSE
  /\ common = NoChoice /\ files = NoRows /\ newFiles = {}
  /\ pickers = 0 /\ lists = 0 /\ start = "none" /\ dto = NoImport
  /\ jobs = 0 /\ failed = FALSE

----------------------------------------------------------------------------
(* What the page loads.  A call that fails leaves things as they are.      *)

\* An integration is chosen only if it is the only one; the page has no
\* control that chooses another.
IntegrationsListed ==
  /\ integrations = 1 /\ ~selected
  /\ selected' = TRUE /\ valid' = TRUE
  /\ UNCHANGED <<integrations, table, picking, start, dto, jobs, failed>>

GenresListed ==
  /\ common.genre = 0
  /\ common' = [common EXCEPT !.genre = CHOOSE g \in Genres : \A h \in Genres : g <= h]
  /\ UNCHANGED <<account, valid, files, newFiles, picking, start, dto, jobs, failed>>

AgesListed ==
  /\ common.age = 0 /\ common' = [common EXCEPT !.age = DefaultAge]
  /\ UNCHANGED <<account, valid, files, newFiles, picking, start, dto, jobs, failed>>

\* A dialog, or the overlay while the import is set up, covers the page.
Covered == start # "none"

\* The button of the picker: its token is asked for, and its script.
OpenPicker ==
  /\ selected /\ ~Covered /\ pickers + lists < MaxLists
  /\ pickers' = pickers + 1
  /\ UNCHANGED <<account, valid, table, lists, start, dto, jobs, failed>>

\* A folder is picked, over whatever the page shows, and added to the
\* integration; its files are asked for.
PickFolder ==
  /\ pickers > 0 /\ pickers' = pickers - 1
  /\ lists' = lists + 1
  /\ UNCHANGED <<account, valid, table, start, dto, jobs, failed>>

\* No token, no script, or nothing is picked.
PickNothing ==
  /\ pickers > 0 /\ pickers' = pickers - 1
  /\ UNCHANGED <<account, valid, table, lists, start, dto, jobs, failed>>

\* The files of all folders, with the choices of this moment.
FilesListed(S) ==
  /\ lists > 0 /\ lists' = lists - 1
  /\ files' = [f \in S |-> common] /\ newFiles' = S
  /\ UNCHANGED <<account, valid, common, pickers, start, dto, jobs, failed>>

ListFails ==
  /\ lists > 0 /\ lists' = lists - 1
  /\ UNCHANGED <<account, valid, table, pickers, start, dto, jobs, failed>>

----------------------------------------------------------------------------
(* Choices.  The controls are in the table, which is there with its rows.  *)

FileRows == DOMAIN files

Choosable == ~Covered /\ FileRows # {}

\* Rows without a genre, or with the old one, take the new one.
ApplyGlobalGenre(g) ==
  /\ Choosable /\ common.genre # 0 /\ g # common.genre
  /\ common' = [common EXCEPT !.genre = g]
  /\ files' = [f \in FileRows |-> IF files[f].genre \in {0, common.genre}
                              THEN [files[f] EXCEPT !.genre = g] ELSE files[f]]
  /\ UNCHANGED <<account, valid, newFiles, picking, start, dto, jobs, failed>>

ApplyGlobalAge(a) ==
  /\ Choosable /\ common.age # 0 /\ a # common.age
  /\ common' = [common EXCEPT !.age = a]
  /\ files' = [f \in FileRows |-> IF files[f].age \in {0, common.age}
                              THEN [files[f] EXCEPT !.age = a] ELSE files[f]]
  /\ UNCHANGED <<account, valid, newFiles, picking, start, dto, jobs, failed>>

\* Only what has been loaded can be chosen.
OverrideGenre(f, g) ==
  /\ Choosable /\ common.genre # 0
  /\ files' = [files EXCEPT ![f].genre = g]
  /\ UNCHANGED <<account, valid, common, newFiles, picking, start, dto, jobs, failed>>

OverrideAge(f, a) ==
  /\ Choosable /\ common.age # 0
  /\ files' = [files EXCEPT ![f].age = a]
  /\ UNCHANGED <<account, valid, common, newFiles, picking, start, dto, jobs, failed>>

----------------------------------------------------------------------------
(* The import                                                              *)

\* Start Import, which is disabled unless the form is valid.  The owner sees
\* the rows and is asked to confirm.
Submit ==
  /\ ~Covered /\ valid /\ newFiles # {} /\ FileRows # {}
  /\ start' = "dialog"
  /\ dto' = [NoImport EXCEPT !.agreed = files, !.settled = (pickers + lists = 0)]
  /\ UNCHANGED <<account, valid, table, picking, jobs, failed>>

Decline ==
  /\ start = "dialog" /\ start' = "none" /\ dto' = NoImport
  /\ UNCHANGED <<account, valid, table, picking, jobs, failed>>

\* Mutant: only rows that differ in both choices are sent.
OverriddenInBoth == {f \in FileRows : files[f].genre # common.genre /\ files[f].age # common.age}

Overridden == {f \in FileRows : files[f].genre # common.genre \/ files[f].age # common.age}

Confirm ==
  /\ start = "dialog" /\ jobs < MaxJobs
  /\ start' = "sent"
  /\ dto' = [dto EXCEPT !.ids = newFiles, !.common = common,
                        !.overrides = Restrict(files, Overridden), !.shown = files]
  /\ UNCHANGED <<account, valid, table, picking, jobs, failed>>

\* StartBulkImport: what is undefined in a row is taken from the common choice.
Given(c, default) ==
  [genre |-> IF c.genre = 0 THEN default.genre ELSE c.genre,
   age |-> IF c.age = 0 THEN default.age ELSE c.age]

Imported(f) ==
  IF f \in DOMAIN dto.overrides THEN Given(dto.overrides[f], dto.common) ELSE dto.common

MakeJob ==
  /\ start = "sent" /\ start' = "made" /\ jobs' = jobs + 1
  /\ UNCHANGED <<account, valid, table, picking, dto, failed>>

\* Mutant: the form is left as it is.
StartedUnreset ==
  /\ start = "made" /\ start' = "none" /\ dto' = NoImport
  /\ files' = NoRows
  /\ UNCHANGED <<account, valid, common, newFiles, picking, jobs, failed>>

\* The form is reset: it has no integration any more, and nothing sets one
\* until the page is opened again.  newFiles keeps its ids.
Started ==
  /\ start = "made" /\ start' = "none" /\ dto' = NoImport
  /\ valid' = FALSE /\ files' = NoRows
  /\ UNCHANGED <<account, common, newFiles, picking, jobs, failed>>

\* An error before the job was made or after it, or an answer that is lost.
StartFails ==
  /\ start \in {"sent", "made"} /\ start' = "none" /\ dto' = NoImport
  /\ failed' = TRUE
  /\ UNCHANGED <<account, valid, table, picking, jobs>>

----------------------------------------------------------------------------
Next ==
  \/ IntegrationsListed \/ GenresListed \/ AgesListed
  \/ OpenPicker \/ PickFolder \/ PickNothing \/ ListFails \/ \E S \in SUBSET Files : FilesListed(S)
  \/ \E g \in Genres : ApplyGlobalGenre(g) \/ \E f \in FileRows : OverrideGenre(f, g)
  \/ \E a \in Ages : ApplyGlobalAge(a) \/ \E f \in FileRows : OverrideAge(f, a)
  \/ Submit \/ Decline \/ Confirm \/ MakeJob \/ Started \/ StartFails

Spec == Init /\ [][Next]_vars

----------------------------------------------------------------------------
(* Properties                                                              *)

\* A job has the files of the rows, each with the genre and the age its row
\* showed when the import was confirmed, however common and single choices were
\* mixed and whichever list came first (applyGlobalGenre, the filter of submit,
\* and what StartBulkImport does with what is undefined); a row that showed none
\* has the common choice.  And these are the rows there were when the owner
\* pressed Start Import, unless a list or a picker was under way, which may
\* come up and replace them under the dialog.
ImportsWhatRowsShow ==
  start \in {"sent", "made"} =>
    /\ dto.ids = DOMAIN dto.shown
    /\ \A f \in dto.ids : Imported(f) = Given(dto.shown[f], dto.common)
    /\ dto.settled => dto.shown = dto.agreed

\* One visit of the page makes one job unless a start has failed: after an
\* import the form has no integration (resetForm, and that only a sole
\* integration is ever set), so the files that newFiles still holds are not
\* sent again.
OneJobPerVisit == jobs > 1 => failed
=============================================================================
