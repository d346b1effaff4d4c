# MyBooks: a TLA+ verification project

MyBooks is a catalog for personal e-book collections: six ASP.NET Core services
(Auth, Catalog, File, Tenant, Support, Email), each with a schema of its own in
one SQL Server, and an Angular client. The services call each other over HTTP
with short-lived system tokens. There is no message broker and no distributed
transaction: whatever spans two services is a sequence of calls, and each service
writes with Entity Framework, where what a handler read may be stale by the time it
saves. The client is the other half: it chains calls, keeps what they answered, and
lets the user go on while answers are under way. That is where the difficulty of this
system lies, and what this project models.

The modules here are translated from the source. The lines each definition stands for are
in `PROJECT.json` under `map`.

## 1. The system

### Components, their state and their operations

| Component | State it keeps | Operations that change it |
|---|---|---|
| **Bulk import** (`FileService/Controllers/BulkImportController.cs`, `Services/BulkImportProcessor.cs`) | `BulkImportJobs`, `BulkImportItems`; the change tracker of a background task | start a job; two runs over its items, each reading Drive, posting a book to Catalog, inserting a file row, linking both |
| **Files of books** (`FileController`, `SupportFileController`) | `FilesMetaData`, objects in Cloudflare R2 or Drive | upload with virus scan, deactivate, reactivate, replace |
| **Google integrations** (`GoogleIntegrationController`) | `GoogleIntegrations` | connect, store tokens, choose folders, disconnect |
| **Reading progress** (`ReadingProgressController`) | `ReadingProgress` | upsert per user and file |
| **Catalog** (`BookController`, `SystemBookController`, `SupportBookController`) | `Books` with `IsActive`, `IsRestricted`, `FileId` | create, update, soft delete, import, attach file, restrict |
| **Genres, series, tags, age categories** | one table each | check whether the name exists, then insert or reactivate |
| **Open Library client** | a semaphore with two slots | look up metadata of a title |
| **Accounts and logins** (`AccountController`, `LoginController`, `UsersController`, `SupportUsersController`, `SystemUsersController`) | `Users` | register, sign in, create, update, deactivate, assign a tenant |
| **Invitations** (`InvitationController`, `InvitationService`) | `Invitations` | create and send, which replaces older ones; accept |
| **Reviewer access** (`GlobalReviewerController`) | `GlobalReviewers`, clones in `Users` | grant, revoke, switch |
| **Impersonation** (`ImpersonationController`, Support's log) | tokens, `ImpersonationLogs` | start, end |
| **System tokens** (`SystemTokenController`, `SystemTokenHelper`) | none | issue |
| **Tenants** (`SignupController`, `TenantController`, `SupportTenantController`, `SystemTenantController`) | `Tenants` | sign up across two services, update, deactivate |
| **Reports** (`ReportLogController`, `ReportAbuseController`) | `ReportLogs` | report, resolve |
| **Email** (`InviteEmailController`, `EmailSenderService`) | none | send |
| **Session of the client** (`UserService`, the guards, `AppComponent`) | two tokens in local storage, the published profile, a navigation that waits | log in and out, impersonate, switch to the reviewers' portal and back, reload, navigate |
| **Viewer** (`BookViewerComponent`) | a chain of calls, the place that is shown, the overlay of all pages | open, turn, leave; restore and post the place |
| **List of books** (`BookListComponent`) | the pages that have come, the search | ask for the next page, search |
| **Book form** (`BookFormComponent`) | the fields, the step, the id of the book | load, type, save step 1 and 2, make a genre or series |
| **Import page** (`BulkImportComponent`) | the rows with their choices, the ids to import | pick folders, choose, start, reset |
| **Tables** (genres, series, users, tenants, books of all tenants, integrations) | a list that was loaded | load, change, delete, filter |

### How they interact

* File calls Catalog to create and link books during an import; Tenant calls Auth
  to give a new owner a tenant; Auth calls Email for invitations, and Support for the
  impersonation log; Support calls Catalog and Auth when a report is handled. Every call
  carries a token from Auth that lives five minutes.
* Nothing crosses services atomically. A lost reply leaves a caller that believes
  the call failed and a callee that has done it.
* The client calls the services without waiting for one another's answers, unless the overlay
  covers the page; one flag shows and hides that overlay for all pages.
* Within a service two requests run concurrently on one database; there are no
  row versions, so a handler's check and its save are separate steps.

### What is hard

`PROJECT.json` lists under `hazards` each one with its line. In short: partial failure
of a sequence of calls over two services; retries of calls that took effect;
check-then-act on counts, names and e-mail addresses; entities tracked past a
failed save; a background task that outlives its request; flags flipped by
support, owners and imports in any order; profiles, lists and rows in the browser that
are older than what they are used for; answers that come late, in another order, or to a page
that has been left; and an overlay or a form that outlives its reason.

## 2. The modules

| Module | What it is | Stands for |
|---|---|---|
| `BulkImport` | one job: `StartBulkImport`, `ProcessJobAsync`, the catalog calls | `BulkImportController`, `BulkImportProcessor`, `SystemBookController` |
| `ImportJob` | abstract: what an owner who polls a job is promised | the DTO of `GetJobStatus` |
| `BulkImport_proofs`, `Signup_proofs`, `UserAccounts_proofs`, `Invitations_proofs`, `BookFiles_proofs`, `GenresAndSeries_proofs`, `Session_proofs`, `Pages_proofs` | theorems about the module each is named after, `Pages_proofs` also about `Viewer` | |
| `Signup` | signing up over three services, signing in | `SignupController`, `SystemUsersController`, `LoginController`, tenants |
| `Portal` | abstract: an address is free, reserved or open | |
| `UserAccounts` | the users of a tenant | `UsersController`, `AccountController`, `SupportUsersController` |
| `UserAccountsClaims` | one sentence that does not hold | |
| `Invitations` | the invitations of a user | `InvitationService`, `InvitationController`, `InviteEmailController` |
| `BookFiles` | one book, its file rows, the objects in Drive | `BookController`, `SupportBookController`, `SystemBookController`, `FileController`, `SupportFileController`, the browser's chains of calls |
| `BookFilesClaims` | one sentence that does not hold | |
| `GenresAndSeries` | genres or series, and the books filed under them | `GenreController`, `SeriesController`, `ParseSeries`, the book form |
| `Session` | one browser tab: its tokens, profile, route and calls in flight | `user.service.ts`, `app.component.ts`, the guards, login and terms pages, `ImpersonationController` |
| `SessionClaims` | one sentence that does not hold | |
| `Reader` | one account reads one book | `book-viewer.component.ts`, `loading.service.ts`, `ReadingProgressController` |
| `Viewer` | `Reader` under names that do not meet those of the pages, with its properties, for the run and the proofs | |
| `Library` | the list of books | `book-list.component.ts`, `BookController.GetBooks` |
| `BookForm` | the form that makes or edits a book | `book-form.component.ts`, `BookController` |
| `ImportPage` | the page that starts imports | `bulk-import.component.ts`, `StartBulkImport` |
| `Tables` | six pages that show rows and change them | the components under `owner/` and `support-user/`, the handlers that save what they send |
| `Pages` | `Library`, `ImportPage`, `BookForm` and `Tables` behind one router | `app.routes.ts` |
| `MC...` | symmetry, or the values of a function, for TLC | |

`Pages` composes the four page modules: the router shows one page and makes its component anew, so a
behaviour is one visit to one of them, and the variables of the others keep the values they have when
nobody is there. Otherwise no two modules share variables. Where services meet, the module holds the
state of all of them (`Signup`: users of Auth and tenants of Tenant; `BookFiles`: books of Catalog and
file rows of File; `Session`: tokens and log of the services with the tab), since the interesting states
are those in which one has moved and the other has not. An attached book of the import enters `BookFiles`
and `GenresAndSeries` in the state in which `BulkImport` leaves it; a job that `ImportPage` starts is one
that `BulkImport` begins with; a grant that lets `Session` switch is a constant there.

### How state and actions correspond to the code

**A request is a small program.** A handler that reads, calls and saves is one
action per point at which another request, a crash or a failed call can take effect:
it looks (`Load`, `LoadBook`, `BeginRename`, ...), and later saves. Checks that change
nothing are guards of the look; early returns are the negation of a guard, and end the
request without a trace. What the request holds between two actions is a record in
`req` (or `mem` for the background task of the import).

**What a save writes** is what Entity Framework has marked. `Entry(x).State = Modified` and
`Update(x)` write every column of the copy; a tracked entity whose properties were set writes
the columns that differ. The difference decides what two overlapping requests
undo, so each module says it for each handler (`Columns`, `Saved`).

**What a query finds** depends on its filter. Users, books, file rows, genres and series
have one for the tenant and the active rows; support, system and some owner handlers
ignore it (`Finds`, `Found`, `FoundByAdd`, `EmailIsSeen`).

**Calls** to another service may fail before they take effect, or take effect and lose
their answer. `BulkImport` and `Signup` have an action for each (`PostBookFails`,
`PostBookUnanswered`, `PostBookEmptyReply`), switched by the constant `Faults`.

*BulkImport.* `db` is what is saved, `mem` what the task's change tracker holds, `added` a file row
whose insert threw and which the tracker keeps. `proc` walks through `lookup`,
`fetch`, `post`, `insert`, `link`, `count` per item, `reset` between the runs. `httpContext` is
whether the request's context is still there when the task saves, which decides the
tenant a save is given. `SaveThrows` is an exception outside the item's handler:
the task is gone and the job stays as saved. `Crash` loses `mem`.

*Signup.* A request goes from `new` over `insert`, `tenant`, `helper`, `seed` to `assign`, `ok` or
`error`; a retry is another request with the same address. `logins` holds a sign-in between the read of the
user and the look-up of the tenant.

*UserAccounts.* Row 1 is the owner. An address carries the days on which its user was deleted
(`_old_yyyyMMdd`); `IndexAllows` is the unique index. A profile brings an address; a PATCH brings any column but the password,
`IsActive` and `TenantId` among them, without a count of users or a guard for the owner (`Setting`, `Patched`), and
`IsVisible` only from support. `byHand` and `byPatch` remember the rows that support, or a PATCH of
a flag, has written past those guards. A row that is moved to another tenant (`here`) is followed as long as
nothing there is counted.

*Invitations.* The three senders differ in the mail only. `LoadOld`, `SaveNew` and `Mail` are the
steps of a sender; `Take` with `Use` or `Expire` those of a token.

*BookFiles.* `drive` names objects by the row that first had them; activation copies a row, so
two rows may name one object. An upload is one request from its start to the PATCH
that the browser sends; so are a deletion of file and book, and an activation by support.

*GenresAndSeries.* `kind` is chosen at the start. A book form is one request over both of its pages, each of which
looks and saves. The first page sends no series, so between the pages the book is
in none (`OnPage`). The three PATCHes of a book's file link and the one that inverts its restriction mark every column of the copy
they loaded, so the book is filed, shown or hidden again as it was then (`BeginPatch`).

*Session.* `token` and `original` are the two keys of local storage, numbers of tokens in the order AuthService
issued them. `calls` holds what has been sent and not answered; a call carries the token that was stored when it
was sent. `user` is the profile that `UserService` publishes, `going` the route whose guards wait for one. An answer is
one action with everything its handler does, the navigation included. `Reload` forgets what the tab
had in memory; the services may still do what was asked (`DoneUnheard`). `held` is the only history
variable: whose tokens this tab has stored since it was loaded.

*Reader.* `chain[v]` is how far the calls of one opening have come, also after the page was left: nothing
cancels them. A post of a place is two steps in FileService, as its handler looks for a row before it writes one.
A place is a page as it is displayed. What is saved of it (`Position`) is the scroll position of a PDF, but of an EPUB the location the page
starts in, of 1600 characters each, which several pages may share (`LocationOf`). Locations are numbered among those a page starts in, as
epub.js maps a page to the first location from its start on, and a location to the page that holds its
start. `Restored` allows for any page of the location, and for the location before it, where `Math.floor` of a product of
doubles may come to. Before its locations are made an EPUB may report a page without one (`SettleNowhere`).
`DocumentOpened` and `DocumentFails` are what pdf.js or epub.js make of the file, and neither need happen.

*Library.* `PageAnswered` sorts and cuts the books of that moment; books of one title have no order of their own there, while
`Sorted`, the sort of the browser, keeps the one they have. It gives each book the place that counts the books up to it.

*BookForm.* `required` stands for the fields of step 1, `found` for those of step 2 that Open Library may fill and the answer to the first save
patches into the form (author, ISBN, year), `own` for the others of step 2. `Required` is what step 1 sends: the
handler writes every column, so the others are blank until step 2 is saved. `Kept` is what the service makes of a field:
text is sanitised, an implausible ISBN nulled, a year sent as the first of January. The answer to a PUT has no content, so the form
does not learn of it.

*ImportPage.* The button of the picker (`OpenPicker`) and the picked folder (`PickFolder`) are apart by two awaits, of a token and of a script, and the
picker comes up over whatever is there by then, the dialog included. `agreed` keeps what the rows showed when the owner pressed
Start Import, `shown` what they showed when it was confirmed; `Imported` is what FileService makes of what was sent.

*Tables.* One set of actions per page, over three ways to bring a list up to date: load it again, change the row that is
held when the answer is in, change it before asking. A row is a name and a flag. The services set the value they are sent, except
that the switch of a book inverts the row CatalogService reads (`Turned`). Others may change a row meanwhile
(`ChangedElsewhere`). `stale` marks, row by row, what is known to leave the page with something else than what is saved, until another
list is asked for; its conditions stand beside the actions that cause it (`Missed`, `Overtaken`, `ShownFirst`).

## 3. What the runs check

### Bulk import

* **bulk_import** (`BulkImport`, three files, all faults). `SuccessIsReadable`: an item
  shown as imported names a visible book linked to its own file row.
  `VisibleBookHasItsFile`: a visible book has exactly one file row, that of its item, whatever
  failed. `NoDuplicateWithoutLostReply`: two runs show two books of a file only when a reply was lost.
  `NoRowLeftInTracker`: no item is worked on while the row of another waits in the tracker. `CountWithinTotal`: the count
  an owner sees, taken back for the items of the second run that the first had not counted, stays between zero and the
  number of files. `ImplementsImportJob`:
  the saved job refines `ImportJob`. An owner who polls sees `Pending`, `Running`, at most one retry,
  and one end that never changes. `EveryJobEnds`: whatever Drive and the catalog do, an accepted job ends, unless its task
  was lost in a crash or to an exception outside the handler of an item.

Three files give a first, a middle and a last item, so that what one leaves in the tracker can reach
two others. No loop of the processor relates more than neighbouring items.

### Signing up and in

* **signup** (two requests, two addresses, one sign-in, all faults). `UsersServeTheirTenant`,
  `AnsweredOwnerHasPortal`, `NoOwnerInHalfMadeTenant`: two signups
  never exchange users, success is told only of one
  that opens, and nobody enters a tenant that is still being made. `ImplementsPortal`: an address goes from free to
  reserved to open and never back. `AttemptsEndInAssignment`: a failed support user or genre never
  costs the owner the tenant.

Two requests for one address are a retry or a race; with two addresses they are strangers.
The properties relate at most two requests.

### Users

* **user_accounts** (two requests, three addresses, three rows, a limit of two).
  `OvershootIsBounded`: the limit, counted before it is used, is passed by no more than the
  requests in flight beside the last, and by the rows that support or a PATCH of a flag has written. `DeletedGivesUpAddress`: a deleted user has given up
  its address and a visible one has not, however updates, PATCHes and deletions interleave. `OwnerStaysIn`: the owner stays active, visible
  and in the tenant unless support or a PATCH of a flag wrote its row.
* **user_deactivation** finds an update, loaded before a deactivation and saved after it, that
  activates the user again.

A third row lets one be added past a limit of two while another is revived; one
day and one tag let an address be deleted, re-created and refused. One row at most is written past the guards,
by a PATCH that activates or by support that hides. The other flags, the reactivation by support and `Complete`, a save of a copy like that of a
profile, are left out of the run for its size; the theorems are about all of them. A second deletion of an address on one day is refused by the
unique index: `Save` is not enabled, and `UsersController.cs:278` says nothing of it.

### Invitations

* **invitations** (two requests, four invitations). `ActiveIsBounded`: overlapping senders leave no
  more links working than there are requests. `LatestWorks`: the last link works until it is used, old, or its mail was reported as failed.
  `UsesAreBounded`: a token sets a password once, but for requests under way together. `NoneRevives`: no save of an old copy
  switches a link on again.

Four invitations are two rounds of two senders. A sender replaces the earlier links before it asks for
the new mail, so when the mail service fails the user holds none that works, fourteen days or not.

### Books and their files

* **book_files** (two requests, three file rows). `SoleUploadOpens`: after whatever earlier
  failures and overlaps, the row that an undisturbed upload links can be opened. `OneActiveFile`: unless two
  changes of files overlap, one row at most is active, however many stop half way. `RestrictedSettles`, `DeletedSettles`: once those
  that loaded the book before are done, a restricted book changes only by the flip of support, and a deleted one
  stays deleted.
* **book_files_restricted** finds a restricted book whose file row is retired: FileService does
  not ask.

Three rows are the first file, its replacement and the copy an activation makes. The flip of
support does not look at the value it is asked for, and writes a whole row that was
loaded earlier, although the comment at `CatalogDbContext.cs:149` says it flips only `IsRestricted`.

### Genres and series

* **genres_and_series** (two requests, two names, two rows, two books; both kinds).
  `FiledUnderShown`: a book that is shown is filed under a row that is shown, unless the row was deleted
  while a form or an import was about to use it, or while a PATCH held a copy of a book that was filed there. `TwiceByRevival`: two rows that are shown come to
  share a name only when two requests overlap or a deleted row is revived.

Two names and two rows are the least in which a name can be taken twice; two books let one use a
row and another leave it. A genre that is deleted while an import runs stays the genre of its books: they
are listed but not found when opened, since `Include` joins a required, filtered genre.

### The session of a tab

* **session** (a SuperAdmin, an owner, a reviewer's clone; two calls in flight, two tokens of which one may expire).
  `OpenToHeldAccount`: a guarded page is open only if the tab has held a token of an account that may
  open it. `OpensSignedIn`: no late profile lets a navigation through once the token is gone. `WaitsForAnAnswer`: a navigation whose guard asked for the profile never waits
  for an answer that nobody will send. `ImpersonationIsLogged`: while a support session goes on, its log entry is open.
* **session_swaps_back** finds a support session whose end stores the token of the impersonation again,
  against the comment at `app.component.ts:126`.

Two calls are the least that can be answered in the wrong order; two tokens are one and its successor. All four
properties are proved for every number of both (section 5). The profile is published until the next
one comes, so after a logout and another login it may still be the old one that a guard judges:
`OpenToHeldAccount` therefore speaks of all tokens held since the tab was loaded.

### Reading

* **reader** (four pages in three locations, two openings, two posts). `QuietSavesLast`: with posts one at a time there is one row, with the position
  posted last; two at once may make two. `ReopensWhereLeft`: a PDF reopens where it was left, an EPUB in the location it was left in or one
  location earlier per opening, which may be several pages. `OverlayEnds`: whichever call fails and wherever the reader
  has gone, the overlay goes away, except that it stays as long as the viewer on the page waits for a document that neither gets ready nor fails.

Two openings are the second that restores what the first has posted, and a chain that goes on beside another. Four pages of which two
share a location tell a page from a location, and a drift of one location from one of two.

### The pages

* **pages** (`Pages`): one visit to each page.
  * `Library`, four books with three titles, pages of two. `NothingIsHidden`: paging against additions hides no book. `ShownOnceInOrder`: overlapping pages
    and searches show each match once. `ListingEnds`. Three full pages cannot be had of four books, two and an empty or
    cut one can.
  * `ImportPage`, two files, two genres, two ages, two pickers or lists and two jobs at most. `ImportsWhatRowsShow`: a job gets what each row
    showed when the import was confirmed; that is what it showed at Start Import unless a picker or a list was under way then. `OneJobPerVisit`: nothing is imported twice on one visit unless a start failed. Two rows let one be set apart.
  * `BookForm`, two values of which the service keeps one, two books, two saves, one fetch and one name at a time. `OneBookPerForm`: the overlay keeps a book from being made
    twice. `SavedAsShown`: after step 2 the catalog has what the service makes of what the form shows. After step 1 it has that
    of the required fields only; what step 2 has typed already stays in the form and is not saved.
  * `Tables`, one row, two lists and two changes at once, each refused, lost or overtaken, while others change the row.
    `ShownIsSaved`: once nothing is under way a page shows each row as it is saved, unless one of the causes
    that the property names has left it out of date. Two of each are the least that can be overtaken or undo one another, and a table
    changes its rows one by one.

Behaviours of `BookForm` are followed up to the first save whose outcome the page cannot
know, since nothing is claimed from there on; how such a state is reached is in the comment of `Seen`. The overlay of the form is
the guard of its actions although it keeps off the pointer only: whoever goes through the form with the keyboard under it can save a step twice.

### Types

Each module states its `TypeOK`. No run spends a property on it: those of `BulkImport`, `BookFiles`, `GenresAndSeries`,
`Session`, `Signup`, `UserAccounts`, `Invitations`, `Reader`, `Library`, `ImportPage`, `BookForm` and `Tables` are proved.

### What the code does, and no run claims

Found while modelling, and visible in the models; each contradicts at most an expectation.

* `ProcessedFiles` of a completed job may be less than `TotalFiles`: items rejected in the first run are taken off a count
  they were never on (`BulkImportProcessor.cs:105`). After a failed insert of a file row the job stays `Running`.
* Two series, or genres, that are shown may have one name after a revival (`SeriesController.cs:57`, `GenreController.cs:68`).
* A second deletion of an address on one day is refused by the unique index (`UsersController.cs:278`). When the mail service fails, the
  user is left without a link that works.
* A book may be skipped by the list when another is removed between two pages. Counts of how often genres are used are loaded once.
* An owner can deactivate itself, move a user to another tenant and pass the limit of users, each by one PATCH (`UsersController.cs:115`),
  although `DeactivateUser` refuses owners (`UsersController.cs:236`) and `ReactivateUser` counts (`UsersController.cs:249`).
* A book whose file is linked, or whose restriction is turned, from a copy loaded before it was refiled or removed is filed and shown as before
  (`BookController.cs:412`).
* On the import page nothing chooses among two integrations, and after an import the form is never valid again. An
  import that is started before genres or ages have come sends 0. The picker may come up over the dialog, and the job then gets
  files that the owner has not agreed to.
* Editing a book before its rights were checked makes a second one. Step 1 of a book that is there blanks its optional
  fields until step 2. A late load or answer writes over what was typed. Step 3 says the book was saved also when
  step 2 had none to save.
* A switch of a tenant or a book, and a field of a user, stay as clicked when the service refuses. A book that is switched twice before an
  answer, or that another of support has switched, is shown opposite to what is saved (`CatalogDbContext.cs:151`).
* A broken document may leave the overlay up until the reader goes elsewhere with the browser (`book-viewer.component.ts:280`).

### Deadlock

`BookFiles` and `GenresAndSeries` are checked for it: a request can always end or fail. The others
reach states in which the program has nothing left to do (the job has ended, the requests are
used up, a bound is met), and their configurations say `CHECK_DEADLOCK FALSE`.

## 4. Fairness

Assumed by four of the modules, besides `Pages`, and by none of the safety properties.

* `BulkImport`: weak fairness of `SaveItems` (the request that has saved a job goes on) and of
  `ProcessJob` (a background task that is scheduled runs on, and a remote call answers
  or fails). Not of `Crash`, nor of any particular outcome of a call.
* `Signup`: weak fairness of `Progress(r)`: a request that has begun goes on, since each of its calls
  answers or times out. Nobody need begin one, and no call need succeed.
* `Reader`: weak fairness of `Answer(v)` and of `ListAnswered`: a call of the browser is answered or fails. None of `Rendered(v)`: a document
  need neither get ready nor fail. Nobody need open a book or turn a page, and no post need arrive.
* `Library`, and with it `Pages`: weak fairness of `PageAnswered` together with `PageFails`, and of the timer `NextPage`.

## 5. What is proved

`BulkImport_proofs`, for every number of files and every set of faults, from the assumptions
that `BulkImport` states of its constants:

* `TypeCorrect`: `TypeOK`, with `Shape` (`ITypeOK`). `Shape` says that `item` is an index while an item is
  worked on, that `mem` and `db` have the same number of items, and which steps have a job; without it no update of an item
  can be typed.
* `ImportedIsReadable` and `VisibleIsReadable`: `SuccessIsReadable` and `VisibleBookHasItsFile`. Neither is inductive. `CatalogInv` adds that file rows
  name books (`FilesNameBooks`), what the item in work has so far (`InBody`), what the row in the tracker belongs to (`RowLeft`),
  and that what the tracker calls imported is readable before it is saved (`TrackedIsReadable`), since a save makes it public.
  The lemmas `KeptBy...` say what each of the three writes to the catalog keeps of the others' items.
* `TrackerIsClean`: `NoRowLeftInTracker`, from `RowLeft`.
* `ImportedOnce`: `NoDuplicateWithoutLostReply`. `OnceInv` says that whoever has a visible book, but for a lost reply, is
  tracked as imported, hence neither run takes it up again.
* `CountIsBounded`: `CountWithinTotal`. The count alone can be anything a step makes of it: `CountInv` adds the items that
  are not yet decided (`Undecided`), and that none is left when the second run takes its items off.
* `PromiseKept`: `ImplementsImportJob`. A run decides its items one by one but saves them now and then; `StatusInv` says
  how far the tracked copy may be ahead of the saved one, so that each save is a step of `ImportJob` (`Decision`).

One lemma per helper on items and rows (`WithStatusFields`, `AttachFields`, ...) says what it returns;
`TypeStep` and `CatalogStep` have a step per action.

`Signup_proofs`, for every set of addresses, requests and faults and any number of sign-ins:

* `ServeCorrect`, `AnsweredCorrect` and `HalfMadeCorrect`: `UsersServeTheirTenant`, `AnsweredOwnerHasPortal` and
  `NoOwnerInHalfMadeTenant`. One invariant, `SignupInv`, gives all three. `RequestOK` says that what a request holds is a row of its own
  making, or nothing (an owner whose reply was empty); `TenantsApart` that no two requests have saved one tenant; `OwnerIsLast` that
  the signup of a tenant whose owner has it is over; `SignInsOK` that a sign-in carries the tenant of its user. The argument is that rows
  only extend (`UsersExtend`, `TenantsExtend`): a user's tenant is written once.
* `SignupImplementsPortal`: `ImplementsPortal`. Besides `SignupInv` it needs the unique index as an invariant (`AddressesApart`), or a second user
  with the address could already be open. An inserted owner is `Reserve`, an owner given its tenant is `Open`, answered or not, and the lemma
  `Unseen` covers the rest, the support user among it.

`UserAccounts_proofs`, for every set of addresses, operations and requests and every limit:

* `DeletedCorrect` and `OwnerCorrect`: `DeletedGivesUpAddress` and `OwnerStaysIn`. Neither is inductive, since a save writes what was
  loaded long ago. `CopyOK` says that a copy agrees with itself as rows do, that the handlers which refuse owners hold no copy of the owner's,
  that a copy of a row which is not `Forced` (written by support, or with a flag in a PATCH) is in the tenant and the owner's active and
  visible, and that a creation revives only rows that support wrote; `AreHere` that every row that is not `Forced` is in the tenant.
* `TypeCorrect`: `TypeOK`, on top of that invariant: a request that goes on has the address or the copy that its handler takes
  it to have, and what a deletion appends to an address makes an address (`Addresses`).
* `OvershootCorrect`: `OvershootIsBounded`. Users are counted together with those a save under way may seat (`SeatsAre`). A request that is not
  admitted seats at most one user beside those in use, and an admitted one none (`SeatsBound`); cardinalities come from the library's theorems.

`Invitations_proofs`, for every finite set of requests and any number of invitations:

* `TypeCorrect`: `TypeOK`, with `Refers` (what a request has loaded, sent or taken are rows of the table).
* `RevivesCorrect` and `LatestCorrect`: `NoneRevives` and `LatestWorks`, from the types alone.
* `UsesCorrect`: `UsesAreBounded`, with `OnIsUnused`: a link that is on has set no password, so whoever takes it was there before the first use.
* `ActiveCorrect`: `ActiveIsBounded`. `OnHasSender` maps each link that is on to a request of its own which has sent it and
  loads it before it sends another.

`BookFiles_proofs`, for every number of requests, rows and objects:

* `TypeCorrect`: `TypeOK`, with `Refers` (a request refers to rows that exist, and one that erases, retires or
  duplicates to a row indeed).
* `UploadCorrect`: `SoleUploadOpens`. `SoleInv` says that one request at most is alone, and what its upload has made so far.
* `ActiveFileCorrect`: `OneActiveFile`, from `FilesOK`: unless two changes overlap, one row is active, a request that is about
  to retire a row has seen the one that is, and one that is about to add its own has left none.
* `RestrictionCorrect` and `DeletionCorrect`: the action properties `RestrictedSettles` and `DeletedSettles`. `CopiesOK` says that a
  request which writes the whole book loaded it before it was restricted or deleted, or has a copy that says so.

`GenresAndSeries_proofs`, for every number of requests, names, rows and books:

* `TypeCorrect`: `TypeOK`, with `Shape` (which operation is at which step and what it refers to) and `Writes` (only a deletion
  writes a row as hidden; a form files under the row it has chosen or none).
* `FiledCorrect`: `FiledUnderShown`. It is not inductive: a request holds its row for several steps before the book is shown.
  `Clear` adds that what is held is shown (`Holds`), that a row in deletion is not in use, and that no one holds it while
  "use" is not in `raced`; `Attached` that the book of an import stays hidden and filed until its file is attached, and that whoever else has
  loaded it is a PATCH that saves just that (`Harmless`). A PATCH may save a book as shown that was removed meanwhile, so `Holds` is about
  the row of its copy (`BeginPatchKeeps`, `SaveWaitingKeeps`).
* `TwiceCorrect`: `TwiceByRevival`, from `NamesFree`: a name that was looked for is free until it is written, since no other
  request changes names meanwhile unless "names" is in `raced`.

In `GenresAndSeries_proofs` `Keeping` states what a step may do to the tables and the requests; `KeepingPreserves` shows that such a step preserves the
invariant, and one lemma per action that the action is such a step.

`Session_proofs`, for all accounts and any number of calls and tokens, from `SessionAssumption`:

* `TypeCorrect`: `TypeOK`, with `Known`: calls name tokens that were issued, and the account they are about.
* `OpenCorrect`: `OpenToHeldAccount`. Not inductive: `Backed` adds that the stored token, the published profile and every profile that is
  under way are of accounts the tab has held a token of.
* `WaitsCorrect`: `WaitsForAnAnswer`, by itself; `OpensSignedInCorrect`: `OpensSignedIn`, from `WaitsSignedIn` (whoever waits
  has a token stored).
* `LoggedCorrect`: `ImpersonationIsLogged`. `Logged` extends it to the second token in storage; `NotSuperAdmins` says that nobody
  impersonates a SuperAdmin, hence a call that AuthService accepts for closing an entry was sent with a token other than the one it is about;
  `StopsAnother` that such a call is about neither token in storage.

The lemmas follow the groups of actions: navigation, clicks that send, answers about the profile, answers that issue a token, others.

`Pages_proofs`, for every catalog, page size and number of files, books, values, rows and calls under way, from
`PagesAssumption`. A component's invariant holds as long as its page is shown, which `LibraryPageStep`, `ImportPageStep`,
`FormPageStep` and `TablePageStep` carry over to `Pages`:

* `TypeCorrect`: the `TypeOK` of `Library`, `ImportPage`, `BookForm` and `Tables`.
* `ListComplete`: `NothingIsHidden`. Not inductive, since it speaks of the end of the listing only. `AheadInv` says that a book of the first
  moment that has not come has more books up to it, by title, than the pages so far were cut out of (`Paged`). Additions only raise
  that number, and without ties it is the place of the book in every list by title (`PlaceInOrder`), so the next page has the
  book or leaves it ahead.
* `ListCorrect`: `ShownOnceInOrder`. `ListInv` adds that no book came twice, that what is shown was made from what came, and that as long as
  nothing changes whatever came has fewer books before it than `Paged`: what is cut out later comes after it, although the lists
  of two calls may order ties differently (`BeforeInOrder`).
* `VisitsCorrect` and `ImportsCorrect`: `OneJobPerVisit` and `ImportsWhatRowsShow`. `VisitInv` says that an import is started only
  by a form that has its integration, and that no job has been made while it still has it; `AgreedInv` that nothing changes
  the rows under an open dialog, unless a picker or a list was under way when it opened.
* `BooksCorrect` and `SavesCorrect`: `OneBookPerForm` and `SavedAsShown`. Neither says anything of the moment a save is under way.
  `InFlight` does: the save is the only one, the overlay is up, and what it has written or will write is what the service keeps of what
  the form shows (`KeptParts`, `EnrichedParts`). `Quiet` is what is left of it when the answer is in. The function `Kept` may be any that
  keeps blank fields blank.
* `TablesCorrect`: `ShownIsSaved`, by one invariant of each row that is not in `stale`, for each way to bring a list up to date. `ReloadRow`: the list
  that comes last, once read, has the row as it is saved, and so has the page when none is to come, unless a change is `Due`, after
  whose answer another list is asked for. `PatchRow`: changes that have hold of the row ask for one value, which is what is saved once one of
  them is (`Holds`), and the row shown is the row saved or is about to be set to it (`SetDue`). Lists and changes may be under way together.
  The thirty-odd actions are of the kinds of steps in `Kinds`.

Sorting needs no induction, as `Sorted` is written by counting: `Places` shows that the places are one-to-one, hence by the
library's theorems on cardinalities that none is left out, and `SortedParts` that nothing is lost, repeated or out of order.

The viewer is a page as well, but followed over several openings, so it is not in `Pages`. `Pages_proofs` extends `Viewer` too,
whose `ViewerSpec` is the specification of `Reader`, and proves of it, from `ViewerAssumption` (the bounds are natural numbers), for
every number of openings, pages and positions under way, and every way the pages fall into locations:

* `ReaderTypeCorrect`: its `TypeOK`, with `Counted` (each opening restores a place once).
* `RowsCorrect`: `QuietSavesLast`. `RowsInv` says of the moments between, that the post under way is the only one, is of the place posted
  last, and has found the row there is or none.
* `ReopensCorrect`: `ReopensWhereLeft`. `ReopenInv` relates three positions: the one the reader turned to, that of the page shown and the one saved (`Base`). Those two
  are apart from the first by at most one location for each opening since (`Drift`), and by none for a PDF.

Only model-checked are `EveryJobEnds`, `AttemptsEndInAssignment`, `OverlayEnds` and `ListingEnds`, which rest on fairness and
ENABLED, and the three claims that do not hold. Every invariant and every action property of a passing run is proved.

## 6. What is not modelled

`PROJECT.json` lists each component with what is left out.

* System tokens, validation and scans of files, sanitising and the shared library are functions of one request and keep no
  state. Reports write one row once. Tags are stored but not shown.
* Google integrations as FileService keeps them: connecting happens at Google, and what is hard there (`UpdateFolders` that writes
  a whole row and may revive it, `GoogleIntegrationController.cs:219`; objects that are deleted with the token of another account) needs
  several accounts of one tenant, which `BookFiles` does not have. `GetFolders` is commented out, so the page shows no folders.
* Reviewer access: grants, revocations and clones (`GlobalReviewerController`). `Session` takes a grant as given.
* Open Library's two slots: a lookup changes no state, and its timeout bounds the wait.
* Of the client: the reports of readers and their handling, the reviewers' dialog, the forms for invitations, signup and the profile, which each send one
  call and show its answer; counts of use, filters and sorting in the browser, which only read.
* `Session`: one tab; two tabs share local storage, and what one does between two steps of the other is not followed. The guards
  of one route send one request instead of one each.
* `Library`: the reviewers' tenant is listed in another order.
* `Reader`: the pages of a PDF are taken to be of one height, and its zoom not to change, so that a scroll position is a page.
* Deployment and end-to-end tests are not program.

## 7. Plan

In this order:

1. `ReviewerAccess`: access rows, clones and their deactivation over grant, revoke and switch.
2. `Integrations`: several Google accounts, the files in each, disconnection, `UpdateFolders` that revives one.
3. Two tabs of one browser in `Session`.
4. Pure algorithms: `IsbnHelper`, validation of names, against reference definitions.

Abstract specifications worth stating: what a reader is promised of a book's file (for `BookFiles`); what a tenant is
promised of its limit (for `UserAccounts`); a list that mirrors a table (for `Tables`).

Theorems worth proving next: that `BookFiles`, `UserAccounts` and `Tables` implement those specifications, with the invariants
that are proved of them as a start.
