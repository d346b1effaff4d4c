----------------------------- MODULE BulkImport -----------------------------
(***************************************************************************)
(* Bulk import of Google Drive files (FileService): the controller that    *)
(* stores a job and starts it in the background, the processor that works  *)
(* through its items in at most two runs, and the catalog endpoints it     *)
(* calls.  The processor works on entities that Entity Framework tracks in *)
(* memory ("mem"); the owner and a restarted service see only what         *)
(* SaveChangesAsSystemAsync has written ("db").                            *)
(*                                                                         *)
(* One job is modelled: jobs share no row, and nothing runs a job twice.   *)
(***************************************************************************)
EXTENDS Naturals, Sequences, FiniteSets

CONSTANTS
  MaxFiles,  \* bound on the number of files of the job
  Faults     \* what may go wrong in this instance, see FaultKinds

FaultKinds ==
  { "remote",      \* Drive, the token service or the catalog fails, or its reply is lost
    "insert",      \* the insert of a FileMetadata row fails
    "database",    \* another save fails
    "crash" }      \* the service stops and loses its memory

ASSUME MaxFilesAssumption == MaxFiles \in Nat \ {0}
ASSUME FaultsAssumption == Faults \subseteq FaultKinds

VARIABLES
  request,      \* StartBulkImport: "none", "jobSaved", "answered", "dead"
  httpContext,  \* IHttpContextAccessor.HttpContext is not yet null in the background task
  integration,  \* the job's GoogleIntegration is active
  proc,         \* next step of ProcessJobAsync
  run,          \* 0 before ProcessItemsAsync, then its first or second call
  item,         \* index of the item in the body of the loop
  added,        \* book of a FileMetadata left Added in the change tracker, 0 if none
  db,           \* the saved job and items
  mem,          \* the same as the processor's change tracker holds them
  books,        \* CatalogService: the rows ImportBook created, the Id being the index
  files,        \* FilesMetaData rows of the job, the Id being the index
  unanswered    \* items for which a call took effect and its reply was lost

vars == <<request, httpContext, integration, proc, run, item, added,
          db, mem, books, files, unanswered>>

NoId == 0

JobStatus == {"None", "Pending", "Running", "RetryFails",
              "Completed", "CompletedWithErrors", "Failed"}

Final == {"Completed", "CompletedWithErrors", "Failed"}

ItemStatus == {"Pending", "Success", "Failed"}

Item == [status : ItemStatus, book : Nat, file : Nat]

Job == [status : JobStatus, total : Nat, processed : Nat, items : Seq(Item)]

Book == [item : Nat, file : Nat, active : BOOLEAN]

File == [item : Nat, book : Nat]

ProcStep == {"off", "load", "lookup", "fetch", "post", "insert", "link",
             "count", "reset", "done", "dead"}

NoJob == [status |-> "None", total |-> 0, processed |-> 0, items |-> <<>>]

NewJob(n) == [status |-> "Pending", total |-> n, processed |-> 0, items |-> <<>>]

NewItem == [status |-> "Pending", book |-> NoId, file |-> NoId]

TypeOK ==
  /\ request \in {"none", "jobSaved", "answered", "dead"}
  /\ httpContext \in BOOLEAN
  /\ integration \in BOOLEAN
  /\ proc \in ProcStep
  /\ run \in 0..2
  /\ item \in 0..MaxFiles
  /\ added \in Nat
  /\ db \in Job
  /\ mem \in Job
  /\ books \in Seq(Book)
  /\ files \in Seq(File)
  /\ unanswered \subseteq 1..MaxFiles

----------------------------------------------------------------------------
(* The items of a job.                                                     *)

ItemsOf(j) == DOMAIN j.items

Having(j, s) == {i \in ItemsOf(j) : j.items[i].status = s}

All(j, s) == \A i \in ItemsOf(j) : j.items[i].status = s

\* job.Items.Where(i => i.Status == "Pending"), in the order of the list.
IsNext(i) == i \in Having(mem, "Pending") /\ \A k \in Having(mem, "Pending") : i <= k

WithStatus(j, i, s) == [j EXCEPT !.items[i] = [@ EXCEPT !.status = s]]

WithBook(j, i, b) == [j EXCEPT !.items[i] = [@ EXCEPT !.book = b]]

WithFile(j, i, f) == [j EXCEPT !.items[i] = [@ EXCEPT !.file = f]]

----------------------------------------------------------------------------
(* StartBulkImport                                                         *)

Init ==
  /\ request = "none"
  /\ httpContext = FALSE
  /\ integration \in BOOLEAN
  /\ proc = "off"
  /\ run = 0
  /\ item = 0
  /\ added = NoId
  /\ db = NoJob
  /\ mem = NoJob
  /\ books = <<>>
  /\ files = <<>>
  /\ unanswered = {}

\* The job is saved on its own, before its items.
SaveJob ==
  /\ request = "none"
  /\ request' = "jobSaved"
  /\ httpContext' = TRUE
  /\ \E n \in 1..MaxFiles : db' = NewJob(n)
  /\ UNCHANGED <<integration, proc, run, item, added, mem, books, files, unanswered>>

\* The items are saved, the processor is started and the request answered.
SaveItems ==
  /\ request = "jobSaved"
  /\ request' = "answered"
  /\ db' = [db EXCEPT !.items = [i \in 1..db.total |-> NewItem]]
  /\ proc' = "load"
  /\ UNCHANGED <<httpContext, integration, run, item, added, mem, books, files, unanswered>>

\* The second save fails: the owner gets an error, the job stays without items.
SaveItemsFails ==
  /\ "database" \in Faults
  /\ request = "jobSaved"
  /\ request' = "dead"
  /\ httpContext' = FALSE
  /\ UNCHANGED <<integration, proc, run, item, added, db, mem, books, files, unanswered>>

\* The server finishes the request and clears the HttpContext the background
\* task captured.
RequestEnds ==
  /\ request = "answered" /\ httpContext
  /\ httpContext' = FALSE
  /\ UNCHANGED <<request, integration, proc, run, item, added, db, mem, books, files, unanswered>>

\* SoftDeleteIntegration: the owner disconnects the Drive account.
DisconnectDrive ==
  /\ integration
  /\ integration' = FALSE
  /\ UNCHANGED <<request, httpContext, proc, run, item, added, db, mem, books, files, unanswered>>

----------------------------------------------------------------------------
(* ProcessJobAsync                                                         *)

\* The job and its items are loaded; a job that may run is saved as Running.
Load ==
  /\ proc = "load"
  /\ db.status \in {"Pending", "RetryFails"}
  /\ mem' = [db EXCEPT !.status = "Running"]
  /\ db' = mem'
  /\ proc' = "lookup"
  /\ UNCHANGED <<request, httpContext, integration, run, item, added, books, files, unanswered>>

LookupIntegration ==
  /\ proc = "lookup" /\ integration
  /\ proc' = "fetch"
  /\ run' = 1
  /\ UNCHANGED <<request, httpContext, integration, item, added, db, mem, books, files, unanswered>>

\* Wrong variant: the items keep their status.
FailAllJobOnly(j) == [j EXCEPT !.status = "Failed"]

FailAll(j) ==
  [j EXCEPT !.status = "Failed",
            !.items = [i \in DOMAIN j.items |->
                         IF j.items[i].status = "Pending"
                         THEN [j.items[i] EXCEPT !.status = "Failed"]
                         ELSE j.items[i]]]

\* Wrong variant: it returns without a save.
IntegrationMissingUnsaved ==
  /\ proc = "lookup" /\ ~ integration
  /\ mem' = FailAll(mem)
  /\ proc' = "done"
  /\ UNCHANGED <<request, httpContext, integration, run, item, added, db, books, files, unanswered>>

IntegrationMissing ==
  /\ proc = "lookup" /\ ~ integration
  /\ mem' = FailAll(mem)
  /\ db' = mem'
  /\ proc' = "done"
  /\ UNCHANGED <<request, httpContext, integration, run, item, added, books, files, unanswered>>

----------------------------------------------------------------------------
(* ProcessItemsAsync: the body of the loop for one pending item            *)

Fetch(i) ==
  /\ proc = "fetch" /\ IsNext(i)
  /\ item' = i

\* Metadata and content are read and the file is a sound PDF or EPUB.
FetchFile(i) ==
  /\ Fetch(i)
  /\ proc' = "post"
  /\ UNCHANGED <<request, httpContext, integration, run, added, db, mem, books, files, unanswered>>

\* The file is missing, corrupt or of another type: "continue" goes to the
\* next item past the counting and the save at the end of the body.
RejectFile(i) ==
  /\ Fetch(i)
  /\ mem' = WithStatus(mem, i, "Failed")
  /\ UNCHANGED <<request, httpContext, integration, proc, run, added, db, books, files, unanswered>>

\* A call to Drive throws, or the EPUB cannot be parsed: the handler marks the
\* item and the body goes on.
FetchThrows(i) ==
  /\ Fetch(i)
  /\ mem' = WithStatus(mem, i, "Failed")
  /\ proc' = "count"
  /\ UNCHANGED <<request, httpContext, integration, run, added, db, books, files, unanswered>>

\* ImportBook stores a book that is not active and has no file.
NewBook(i) == [item |-> i, file |-> NoId, active |-> FALSE]

PostBook ==
  /\ proc = "post"
  /\ books' = Append(books, NewBook(item))
  /\ mem' = WithBook(mem, item, Len(books'))
  /\ proc' = "insert"
  /\ UNCHANGED <<request, httpContext, integration, run, item, added, db, files, unanswered>>

\* The token or the catalog cannot be had.
PostBookFails ==
  /\ "remote" \in Faults
  /\ proc = "post"
  /\ mem' = WithStatus(mem, item, "Failed")
  /\ proc' = "count"
  /\ UNCHANGED <<request, httpContext, integration, run, item, added, db, books, files, unanswered>>

\* The book is stored and the reply is lost.
PostBookUnanswered ==
  /\ "remote" \in Faults
  /\ proc = "post"
  /\ books' = Append(books, NewBook(item))
  /\ mem' = WithStatus(mem, item, "Failed")
  /\ unanswered' = unanswered \cup {item}
  /\ proc' = "count"
  /\ UNCHANGED <<request, httpContext, integration, run, item, added, db, files>>

\* The book is stored and the reply has no content: another "continue".
PostBookEmptyReply ==
  /\ "remote" \in Faults
  /\ proc = "post"
  /\ books' = Append(books, NewBook(item))
  /\ mem' = WithStatus(mem, item, "Failed")
  /\ unanswered' = unanswered \cup {item}
  /\ proc' = "fetch"
  /\ UNCHANGED <<request, httpContext, integration, run, item, added, db, files>>

\* Wrong variant: the row names the item instead of the book.
NewFileOfItem(i, b) == [item |-> i, book |-> i]

NewFile(i, b) == [item |-> i, book |-> b]

\* The save writes the row and every other tracked change; the id of the row
\* reaches the item only afterwards, in memory.
InsertFile ==
  /\ proc = "insert"
  /\ files' = Append(files, NewFile(item, mem.items[item].book))
  /\ db' = mem
  /\ mem' = WithFile(mem, item, Len(files'))
  /\ proc' = "link"
  /\ UNCHANGED <<request, httpContext, integration, run, item, added, books, unanswered>>

\* Wrong variant: the handler goes to the next item without the save.
InsertFileFailsUnsaved ==
  /\ "insert" \in Faults
  /\ proc = "insert"
  /\ added' = mem.items[item].book
  /\ mem' = WithStatus(mem, item, "Failed")
  /\ proc' = "fetch"
  /\ UNCHANGED <<request, httpContext, integration, run, item, db, books, files, unanswered>>

\* The save throws: nothing is written, and the row stays in the tracker.
InsertFileFails ==
  /\ "insert" \in Faults
  /\ proc = "insert"
  /\ added' = mem.items[item].book
  /\ mem' = WithStatus(mem, item, "Failed")
  /\ proc' = "count"
  /\ UNCHANGED <<request, httpContext, integration, run, item, db, books, files, unanswered>>

\* AttachFile stores the file in the book and makes the book visible.
Attach(bs, b, f) ==
  [bs EXCEPT ![b] = [item |-> @.item, file |-> f, active |-> TRUE]]

\* Wrong variant: the book is made visible before it names its file.
AttachWithoutFile == [books EXCEPT ![mem.items[item].book] = [@ EXCEPT !.active = TRUE]]

AttachItem == Attach(books, mem.items[item].book, mem.items[item].file)

LinkBook ==
  /\ proc = "link"
  /\ books' = AttachItem
  /\ mem' = WithStatus(mem, item, "Success")
  /\ proc' = "count"
  /\ UNCHANGED <<request, httpContext, integration, run, item, added, db, files, unanswered>>

LinkBookFails ==
  /\ "remote" \in Faults
  /\ proc = "link"
  /\ mem' = WithStatus(mem, item, "Failed")
  /\ proc' = "count"
  /\ UNCHANGED <<request, httpContext, integration, run, item, added, db, books, files, unanswered>>

LinkBookUnanswered ==
  /\ "remote" \in Faults
  /\ proc = "link"
  /\ books' = AttachItem
  /\ mem' = WithStatus(mem, item, "Failed")
  /\ unanswered' = unanswered \cup {item}
  /\ proc' = "count"
  /\ UNCHANGED <<request, httpContext, integration, run, item, added, db, files>>

\* The end of the body: the item is counted and everything saved.  A row left
\* in the tracker is written too, while the HttpContext still gives an address.
CountItem ==
  /\ proc = "count"
  /\ added = NoId \/ httpContext
  /\ mem' = [mem EXCEPT !.processed = @ + 1]
  /\ db' = mem'
  /\ files' = IF added = NoId THEN files ELSE Append(files, NewFile(item, added))
  /\ added' = NoId
  /\ proc' = "fetch"
  /\ UNCHANGED <<request, httpContext, integration, run, item, books, unanswered>>

\* Without HttpContext the row left in the tracker has no valid address:
\* EnforceSecurityRules throws, outside the handler of the loop.
CountItemRefused ==
  /\ proc = "count"
  /\ added # NoId /\ ~ httpContext
  /\ proc' = "dead"
  /\ UNCHANGED <<request, httpContext, integration, run, item, added, db, mem, books, files, unanswered>>

----------------------------------------------------------------------------
(* ProcessJobAsync after a run over the items                              *)

RunEnds == proc = "fetch" /\ Having(mem, "Pending") = {}

Save(s) ==
  /\ mem' = [mem EXCEPT !.status = s]
  /\ db' = mem'
  /\ UNCHANGED <<request, httpContext, integration, run, item, added, books, files, unanswered>>

FirstRunEnds ==
  /\ RunEnds /\ run = 1
  /\ All(mem, "Success") \/ All(mem, "Failed")
  /\ proc' = "done"
  /\ Save(IF All(mem, "Success") THEN "Completed" ELSE "Failed")

RetryFails ==
  /\ RunEnds /\ run = 1
  /\ ~ All(mem, "Success") /\ ~ All(mem, "Failed")
  /\ proc' = "reset"
  /\ Save("RetryFails")

\* Wrong variants: nothing taken off, every item put back.
UncountedNothing(j) == j.processed

\* The failed items become pending again and one is taken off the count for
\* each, down to zero.
Uncounted(j) ==
  LET n == Cardinality(Having(j, "Failed"))
  IN  IF j.processed > n THEN j.processed - n ELSE 0

RequeuedAll(j) ==
  [j EXCEPT !.processed = Uncounted(j),
            !.items = [i \in DOMAIN j.items |-> [j.items[i] EXCEPT !.status = "Pending"]]]

Requeued(j) ==
  [j EXCEPT !.processed = Uncounted(j),
            !.items = [i \in DOMAIN j.items |->
                         IF j.items[i].status = "Failed"
                         THEN [j.items[i] EXCEPT !.status = "Pending"]
                         ELSE j.items[i]]]

ResetFailed ==
  /\ proc = "reset"
  /\ mem' = Requeued(mem)
  /\ db' = mem'
  /\ run' = 2
  /\ proc' = "fetch"
  /\ UNCHANGED <<request, httpContext, integration, item, added, books, files, unanswered>>

SecondRunEnds ==
  /\ RunEnds /\ run = 2
  /\ proc' = "done"
  /\ Save(IF All(mem, "Success") THEN "Completed" ELSE "CompletedWithErrors")

----------------------------------------------------------------------------
(* Faults of the service itself                                            *)

\* A save outside the handler of the loop throws; the exception ends the
\* task, and nobody observes it.
SaveThrows ==
  /\ "database" \in Faults
  /\ proc \in {"load", "lookup", "count", "reset"} \/ RunEnds
  /\ proc' = "dead"
  /\ UNCHANGED <<request, httpContext, integration, run, item, added, db, mem, books, files, unanswered>>

\* The service stops.  Nothing resumes a job when it starts again.
Crash ==
  /\ "crash" \in Faults
  /\ request = "jobSaved" \/ proc \notin {"off", "done", "dead"}
  /\ request' = IF request = "jobSaved" THEN "dead" ELSE request
  /\ proc' = IF proc = "off" THEN "off" ELSE "dead"
  /\ httpContext' = FALSE
  /\ UNCHANGED <<integration, run, item, added, db, mem, books, files, unanswered>>

----------------------------------------------------------------------------

ItemStep ==
  \/ \E i \in 1..MaxFiles : FetchFile(i) \/ RejectFile(i) \/ FetchThrows(i)
  \/ PostBook \/ PostBookFails \/ PostBookUnanswered \/ PostBookEmptyReply
  \/ InsertFile \/ InsertFileFails
  \/ LinkBook \/ LinkBookFails \/ LinkBookUnanswered
  \/ CountItem \/ CountItemRefused

ProcessJob ==
  \/ Load \/ LookupIntegration \/ IntegrationMissing
  \/ ItemStep
  \/ FirstRunEnds \/ RetryFails \/ ResetFailed \/ SecondRunEnds

Next ==
  \/ SaveJob \/ SaveItems \/ SaveItemsFails \/ RequestEnds
  \/ DisconnectDrive
  \/ ProcessJob
  \/ SaveThrows \/ Crash

Spec == Init /\ [][Next]_vars

(***************************************************************************)
(* The request and the background task are run by the host's thread pool;  *)
(* every call they make answers or fails within the client's timeout.      *)
(***************************************************************************)
FairSpec == Spec /\ WF_vars(SaveItems) /\ WF_vars(ProcessJob)

----------------------------------------------------------------------------
(* Properties                                                              *)

BooksOf(i) == {b \in DOMAIN books : books[b].item = i}

VisibleBooksOf(i) == {b \in BooksOf(i) : books[b].active}

(***************************************************************************)
(* An item that the owner sees as imported names a visible book of the     *)
(* catalog and a file row, and these name each other: the three rows are   *)
(* written by three calls to two services, any of which may fail.          *)
(***************************************************************************)
Readable(i, b, f) ==
  /\ b \in VisibleBooksOf(i) /\ books[b].file = f
  /\ f \in DOMAIN files /\ files[f] = [item |-> i, book |-> b]

SuccessIsReadable ==
  \A i \in Having(db, "Success") : Readable(i, db.items[i].book, db.items[i].file)

(***************************************************************************)
(* A book a reader can see has the file row that was inserted for it, and  *)
(* no second one, whatever was lost or retried on the way.                 *)
(***************************************************************************)
VisibleBookHasItsFile ==
  \A b \in DOMAIN books : books[b].active =>
     {f \in DOMAIN files : files[f].book = b} = {books[b].file}

(***************************************************************************)
(* The retry imports a file twice only if the first reply was lost.        *)
(***************************************************************************)
NoDuplicateWithoutLostReply ==
  \A i \in 1..MaxFiles \ unanswered : Cardinality(VisibleBooksOf(i)) <= 1

(***************************************************************************)
(* No item is worked on while the tracker still holds the file row of an   *)
(* earlier one, which the next save would write in passing.                *)
(***************************************************************************)
NoRowLeftInTracker ==
  proc \in {"fetch", "post", "insert", "link", "reset", "done"} => added = NoId

(***************************************************************************)
(* The owner is never shown more processed files than the job has, though  *)
(* one that is counted in the first run may be counted in the second, and  *)
(* others are taken off that were counted in neither; nor fewer than none. *)
(***************************************************************************)
CountWithinTotal == db.processed \in 0..db.total

(***************************************************************************)
(* What the owner reads of a job is a run of ImportJob.                    *)
(***************************************************************************)
Promise == INSTANCE ImportJob WITH
             status   <- db.status,
             outcome  <- [i \in DOMAIN db.items |-> db.items[i].status],
             requeued <- run = 2

ImplementsImportJob == Promise!Spec

(***************************************************************************)
(* A stored job ends, whatever Drive, the token service and the catalog    *)
(* answer or fail to answer, unless the task that runs it is gone: the     *)
(* service stopped, a save outside the handler of an item threw, or the    *)
(* items were never saved.                                                 *)
(***************************************************************************)
TaskLost == request = "dead" \/ proc = "dead"

EveryJobEnds == (db.status = "Pending") ~> (db.status \in Final \/ TaskLost)
=============================================================================
