------------------------------ MODULE BookFiles ------------------------------
(***************************************************************************)
(* One book of a tenant (CatalogService), the rows of its files            *)
(* (FileService) and the objects they name in Google Drive.                *)
(*                                                                         *)
(* A client's request runs through both services: an upload ends with the  *)
(* PATCH that the browser sends to link the new row, an activation with    *)
(* the PATCH that FileService sends, a deletion starts with that of the    *)
(* file.  Every book is loaded, then saved: the whole row where the handler *)
(* sets the state of the entity to Modified.  There is no row version.     *)
(*                                                                         *)
(* A call that is refused or fails ends its request (Fails).  What PutBook *)
(* changes besides FileId is left out; a FileId in its body is refused,    *)
(* since GET metadata is sent without a token.  The tenant has one Google  *)
(* account connected throughout.                                           *)
(***************************************************************************)
EXTENDS Naturals, Sequences, FiniteSets

CONSTANTS
  Clients,   \* requests in flight at a time
  MaxFiles   \* bound on the rows of FilesMetaData

ASSUME ClientsAssumption == IsFiniteSet(Clients) /\ Clients # {}
ASSUME MaxFilesAssumption == MaxFiles \in Nat

VARIABLES
  book,   \* the row of Books
  files,  \* the rows of FilesMetaData, the Id being the index
  drive,  \* the objects that exist, each named by the first row that has it
  req,    \* the request of each client
  sole,   \* history: the client that uploads undisturbed since it began, if any
  raced,  \* history: two requests that change files have overlapped
  stale   \* history: clients about to save a copy older than the restriction or
          \* deletion that the book is under

vars == <<book, files, drive, req, sole, raced, stale>>

\* "file" is 0 for a FileId that is null.
Book == [file : Nat, active : BOOLEAN, restricted : BOOLEAN]

NoBook == [file |-> 0, active |-> FALSE, restricted |-> FALSE]

File == [active : BOOLEAN, object : Nat]

Operation == {"upload", "edit", "supportLink", "activate", "remove", "flip",
              "attach"}

Step == {"idle", "find", "erase", "retire", "add", "duplicate", "load", "save"}

\* "file" is the row the request is about, "seen" the active row it has found,
\* "copy" the book as it has loaded and changed it, "columns" those it will write.
Request == [op : Operation, step : Step, file : Nat, seen : Nat, copy : Book,
             columns : SUBSET {"file", "active", "restricted"}]

Idle == [op |-> "edit", step |-> "idle", file |-> 0, seen |-> 0, copy |-> NoBook,
         columns |-> {}]

TypeOK ==
  /\ book \in Book /\ book.file <= Len(files)
  /\ files \in Seq(File)
  /\ drive \subseteq DOMAIN files
  /\ req \in [Clients -> Request]
  /\ sole \subseteq Clients
  /\ raced \in BOOLEAN
  /\ stale \subseteq Clients

Active == {i \in DOMAIN files : files[i].active}

\* What a query for an active row may answer, with 0 for none.
Found == IF Active = {} THEN {0} ELSE Active

At(c, s) == req[c].step = s

\* DownloadFile finds the row and the object.
Opens(i) == i \in Active /\ files[i].object \in drive

----------------------------------------------------------------------------

\* A book typed in by hand, without a file.
Handmade ==
  /\ book = [file |-> 0, active |-> TRUE, restricted |-> FALSE]
  /\ files = <<>>
  /\ drive = {}
  /\ req = [c \in Clients |-> Idle]

\* A book of the bulk import whose file row is saved and about to be attached.
Imported ==
  /\ book = NoBook
  /\ files = <<[active |-> TRUE, object |-> 1]>>
  /\ drive = {1}
  /\ \E b \in Clients :
       req = [c \in Clients |->
                IF c = b THEN [Idle EXCEPT !.op = "attach", !.step = "load", !.file = 1]
                ELSE Idle]

Init ==
  /\ Handmade \/ Imported
  /\ sole = {}
  /\ raced = FALSE
  /\ stale = {}

Begins(c, q) ==
  /\ At(c, "idle")
  /\ req' = [req EXCEPT ![c] = q]
  /\ sole' = IF q.op = "upload" THEN {c} ELSE {}

Goes(c, q) == req' = [req EXCEPT ![c] = q] /\ sole' = sole \cap {c}

Ends(c) == req' = [req EXCEPT ![c] = Idle] /\ sole' = {}

----------------------------------------------------------------------------
(* FileController.UploadFile, up to its answer                             *)

\* The checks of the file and its scan follow, none of which changes anything.
BeginUpload(c) ==
  /\ Begins(c, [Idle EXCEPT !.op = "upload", !.step = "find"])
  /\ UNCHANGED <<book, files, drive>>

FindExisting(c) ==
  /\ At(c, "find")
  /\ \E i \in Found :
       Goes(c, [req[c] EXCEPT !.step = IF i = 0 THEN "add" ELSE "erase", !.seen = i])
  /\ UNCHANGED <<book, files, drive>>

\* Drive deletes the object if there is one; else the request fails.
EraseOld(c) ==
  /\ At(c, "erase")
  /\ files[req[c].seen].object \in drive
  /\ drive' = drive \ {files[req[c].seen].object}
  /\ Goes(c, [req[c] EXCEPT !.step = "retire"])
  /\ UNCHANGED <<book, files>>

RetireOld(c) ==
  /\ At(c, "retire")
  /\ files' = [files EXCEPT ![req[c].seen].active = FALSE]
  /\ Goes(c, [req[c] EXCEPT !.step = "add", !.seen = 0])
  /\ UNCHANGED <<book, drive>>

\* Variant: the Id answered is that of the row before it.
AddAnsweringOld(c) ==
  /\ At(c, "add")
  /\ Len(files) < MaxFiles
  /\ LET n == Len(files) + 1 IN
     /\ files' = Append(files, [active |-> TRUE, object |-> n])
     /\ drive' = drive \cup {n}
     /\ Goes(c, [Idle EXCEPT !.op = "upload", !.step = "load",
                             !.file = n - 1])
  /\ UNCHANGED book

\* Drive stores the object, then the row is saved and its Id answered.
AddFile(c) ==
  /\ At(c, "add")
  /\ Len(files) < MaxFiles
  /\ LET n == Len(files) + 1 IN
     /\ files' = Append(files, [active |-> TRUE, object |-> n])
     /\ drive' = drive \cup {n}
     /\ Goes(c, [Idle EXCEPT !.op = "upload", !.step = "load", !.file = n])
  /\ UNCHANGED book

----------------------------------------------------------------------------
(* FileController.DeleteFile, SupportFileController.ActivateFile            *)

\* The browser deletes the file of a book before the book.
DeleteFile(c) ==
  /\ \E i \in Active : files' = [files EXCEPT ![i].active = FALSE]
  /\ Begins(c, [Idle EXCEPT !.op = "remove", !.step = "load"])
  /\ UNCHANGED <<book, drive>>

BeginActivate(c) ==
  /\ \E i \in DOMAIN files, j \in Found :
       Begins(c, [Idle EXCEPT !.op = "activate", !.step = "duplicate", !.file = i, !.seen = j])
  /\ UNCHANGED <<book, files, drive>>

\* Variant: the row that was active stays so.
DuplicateOnly(c) ==
  /\ At(c, "duplicate")
  /\ Len(files) < MaxFiles
  /\ files' = Append([files EXCEPT ![req[c].file].active = FALSE],
                     [files[req[c].file] EXCEPT !.active = TRUE])
  /\ Goes(c, [Idle EXCEPT !.op = "activate", !.step = "load", !.file = Len(files) + 1])
  /\ UNCHANGED <<book, drive>>

\* One save retires both rows and adds a copy, which the system PATCH then links.
Duplicate(c) ==
  /\ At(c, "duplicate")
  /\ Len(files) < MaxFiles
  /\ files' = Append([i \in DOMAIN files |->
                        [files[i] EXCEPT !.active = @ /\ i \notin {req[c].file, req[c].seen}]],
                     [files[req[c].file] EXCEPT !.active = TRUE])
  /\ Goes(c, [Idle EXCEPT !.op = "activate", !.step = "load", !.file = Len(files) + 1])
  /\ UNCHANGED <<book, drive>>

----------------------------------------------------------------------------
(* The writers of the book                                                 *)

BeginOnBook(c) ==
  /\ \/ \E op \in {"edit", "remove", "flip"} : Begins(c, [Idle EXCEPT !.op = op, !.step = "load"])
     \/ \E i \in DOMAIN files :
          Begins(c, [Idle EXCEPT !.op = "supportLink", !.step = "load", !.file = i])
  /\ UNCHANGED <<book, files, drive>>

OwnerOps == {"upload", "edit", "remove"}

\* The query filter holds for the owner only; a restricted book is refused to
\* the owner and to UpdateBookFileId of support.
Finds(op) ==
  /\ op \in OwnerOps => book.active
  /\ op \in OwnerOps \cup {"supportLink"} => ~book.restricted

\* Variant: every link shows the book, as that of the import does.
ChangedShowing(op, i) ==
  CASE op = "edit"   -> book
    [] op = "remove" -> [book EXCEPT !.active = FALSE]
    [] op = "flip"   -> [book EXCEPT !.restricted = ~@]
    [] OTHER         -> [book EXCEPT !.file = i, !.active = TRUE]

\* What the handler makes of the book it loads; the flip does not look at the
\* value it is asked for.
Changed(op, i) ==
  CASE op = "edit"   -> book
    [] op = "remove" -> [book EXCEPT !.active = FALSE]
    [] op = "flip"   -> [book EXCEPT !.restricted = ~@]
    [] op = "attach" -> [book EXCEPT !.file = i, !.active = TRUE]
    [] OTHER         -> [book EXCEPT !.file = i]

\* AttachFile alone leaves it to Entity Framework to see what has changed.
Columns(op, i) == {k \in DOMAIN book : op = "attach" => Changed(op, i)[k] # book[k]}

LoadBook(c) ==
  /\ At(c, "load")
  /\ LET op == req[c].op  i == req[c].file IN
     /\ Finds(op)
     /\ Goes(c, [req[c] EXCEPT !.step = "save", !.copy = Changed(op, i), !.columns = Columns(op, i)])
  /\ UNCHANGED <<book, files, drive>>

\* Variant: SoftDelete lets the services through.
MaySaveAsSystem(q) == q.op \in {"flip", "activate", "attach"} \/ ~q.copy.restricted

\* SoftDelete stops every save of a copy that is restricted, but for the flip.
MaySave(q) == q.op = "flip" \/ ~q.copy.restricted

SaveBook(c) ==
  /\ At(c, "save")
  /\ MaySave(req[c])
  /\ book' = [k \in DOMAIN book |->
                IF k \in req[c].columns THEN req[c].copy[k] ELSE book[k]]
  /\ Ends(c)
  /\ UNCHANGED <<files, drive>>

----------------------------------------------------------------------------

\* Refused, timed out, or the browser is gone.
Fails(c) ==
  /\ ~At(c, "idle")
  /\ Ends(c)
  /\ UNCHANGED <<book, files, drive>>

\* The owner of the account deletes the object there.
Vanish(o) ==
  /\ drive' = drive \ {o}
  /\ sole' = {}
  /\ UNCHANGED <<book, files, req>>

Upload(c) == BeginUpload(c) \/ FindExisting(c) \/ EraseOld(c) \/ RetireOld(c) \/ AddFile(c)

ChangeFiles(c) == Upload(c) \/ DeleteFile(c) \/ BeginActivate(c) \/ Duplicate(c)

ChangeBook(c) == BeginOnBook(c) \/ LoadBook(c) \/ SaveBook(c)

ChangesFiles(c) == req[c].step \in {"find", "erase", "retire", "add", "duplicate"}

Racing == \E c, d \in Clients : c # d /\ ChangesFiles(c) /\ ChangesFiles(d)

Withdrawn == (book.active /\ ~book'.active) \/ (~book.restricted /\ book'.restricted)

Next ==
  /\ \/ \E c \in Clients : ChangeFiles(c) \/ ChangeBook(c) \/ Fails(c)
     \/ \E o \in drive : Vanish(o)
  /\ raced' = (raced \/ Racing')
  /\ stale' = IF book'.active /\ ~book'.restricted THEN {}
              ELSE {c \in IF Withdrawn THEN Clients ELSE stale : At(c, "save")'}

Spec == Init /\ [][Next]_vars

----------------------------------------------------------------------------
(* Properties                                                              *)

\* Whatever state earlier failures and overlaps have left, the row that an
\* undisturbed upload links can be opened.
SoleUploadOpens ==
  \A c \in Clients :
    sole = {c} /\ req[c].op = "upload" /\ req[c].step \in {"load", "save"} => Opens(req[c].file)

\* Unless two uploads or activations overlap, a book has one active row at most,
\* however many of them fail half way.
OneActiveFile == ~raced => Cardinality(Active) <= 1

\* Once those who loaded the book before it was restricted are done, nothing but
\* the flip of support changes it.
RestrictedSettles ==
  [][book.restricted /\ stale = {}
       => UNCHANGED book \/ \E c \in Clients : req[c].op = "flip" /\ SaveBook(c)]_vars

\* Once those who loaded the book before it was deleted are done, it stays
\* deleted, but for the import that is about to show it.
DeletedSettles ==
  [][~book.active /\ stale = {} /\ (\A c \in Clients : req[c].op # "attach")
       => ~book'.active]_vars
=============================================================================
