-------------------------- MODULE BulkImport_proofs --------------------------
(***************************************************************************)
(* Theorems about BulkImport, for every number of files and every set of   *)
(* faults, and their proofs.                                               *)
(***************************************************************************)
EXTENDS BulkImport, FiniteSetTheorems, SequenceTheorems, TLAPS

----------------------------------------------------------------------------
(* What the updates of a job change, field by field.                       *)

\* An item with one field replaced, written out.
LEMMA ItemFields ==
  ASSUME NEW r \in Item, NEW s, NEW n
  PROVE  /\ [r EXCEPT !.status = s] = [status |-> s, book |-> r.book, file |-> r.file]
         /\ [r EXCEPT !.book = n] = [status |-> r.status, book |-> n, file |-> r.file]
         /\ [r EXCEPT !.file = n] = [status |-> r.status, book |-> r.book, file |-> n]
  BY DEF Item

\* A job with one field replaced, written out.
LEMMA JobFields ==
  ASSUME NEW j \in Job, NEW q
  PROVE  /\ [j EXCEPT !.items = q] =
              [status |-> j.status, total |-> j.total, processed |-> j.processed, items |-> q]
         /\ [j EXCEPT !.processed = q] =
              [status |-> j.status, total |-> j.total, processed |-> q, items |-> j.items]
         /\ [j EXCEPT !.status = q] =
              [status |-> q, total |-> j.total, processed |-> j.processed, items |-> j.items]
  BY DEF Job

\* WithStatus changes the status of one item only.
LEMMA WithStatusFields ==
  ASSUME NEW j \in Job, NEW i \in DOMAIN j.items, NEW s \in ItemStatus
  PROVE  /\ WithStatus(j, i, s) \in Job
         /\ WithStatus(j, i, s).status = j.status
         /\ WithStatus(j, i, s).total = j.total
         /\ WithStatus(j, i, s).processed = j.processed
         /\ Len(WithStatus(j, i, s).items) = Len(j.items)
         /\ \A k \in 1..Len(j.items) :
               /\ WithStatus(j, i, s).items[k].status = IF k = i THEN s ELSE j.items[k].status
               /\ WithStatus(j, i, s).items[k].book = j.items[k].book
               /\ WithStatus(j, i, s).items[k].file = j.items[k].file
<1> DEFINE x == [j.items[i] EXCEPT !.status = s]
           q == [j.items EXCEPT ![i] = x]
<1>1. j.items \in Seq(Item) /\ j.items[i] \in Item /\ i \in 1..Len(j.items)
  BY DEF Job
<1>2. x \in Item
  BY <1>1, ItemFields DEF Item
<1>3. /\ q \in Seq(Item)
      /\ Len(q) = Len(j.items)
      /\ \A k \in 1..Len(j.items) : q[k] = IF k = i THEN x ELSE j.items[k]
  <2> HIDE DEF x
  <2> QED BY <1>1, <1>2, ExceptSeq
<1>4. WithStatus(j, i, s) = [j EXCEPT !.items = q]
  BY DEF WithStatus
<1>5. /\ x.status = s
      /\ x.book = j.items[i].book
      /\ x.file = j.items[i].file
  BY <1>1, ItemFields
<1> HIDE DEF q, x
<1>6. WithStatus(j, i, s) = [status |-> j.status, total |-> j.total,
                          processed |-> j.processed, items |-> q]
  BY <1>4, JobFields
<1>7. WithStatus(j, i, s) \in Job
  BY <1>6, <1>3 DEF Job
<1>8. QED
  BY <1>3, <1>5, <1>6, <1>7

\* WithBook changes the book of one item only.
LEMMA WithBookFields ==
  ASSUME NEW j \in Job, NEW i \in DOMAIN j.items, NEW b \in Nat
  PROVE  /\ WithBook(j, i, b) \in Job
         /\ WithBook(j, i, b).status = j.status
         /\ WithBook(j, i, b).total = j.total
         /\ WithBook(j, i, b).processed = j.processed
         /\ Len(WithBook(j, i, b).items) = Len(j.items)
         /\ \A k \in 1..Len(j.items) :
               /\ WithBook(j, i, b).items[k].status = j.items[k].status
               /\ WithBook(j, i, b).items[k].book = IF k = i THEN b ELSE j.items[k].book
               /\ WithBook(j, i, b).items[k].file = j.items[k].file
<1> DEFINE x == [j.items[i] EXCEPT !.book = b]
           q == [j.items EXCEPT ![i] = x]
<1>1. j.items \in Seq(Item) /\ j.items[i] \in Item /\ i \in 1..Len(j.items)
  BY DEF Job
<1>2. x \in Item
  BY <1>1, ItemFields DEF Item
<1>3. /\ q \in Seq(Item)
      /\ Len(q) = Len(j.items)
      /\ \A k \in 1..Len(j.items) : q[k] = IF k = i THEN x ELSE j.items[k]
  <2> HIDE DEF x
  <2> QED BY <1>1, <1>2, ExceptSeq
<1>4. WithBook(j, i, b) = [j EXCEPT !.items = q]
  BY DEF WithBook
<1>5. /\ x.status = j.items[i].status
      /\ x.book = b
      /\ x.file = j.items[i].file
  BY <1>1, ItemFields
<1> HIDE DEF q, x
<1>6. WithBook(j, i, b) = [status |-> j.status, total |-> j.total,
                          processed |-> j.processed, items |-> q]
  BY <1>4, JobFields
<1>7. WithBook(j, i, b) \in Job
  BY <1>6, <1>3 DEF Job
<1>8. QED
  BY <1>3, <1>5, <1>6, <1>7

\* WithFile changes the file of one item only.
LEMMA WithFileFields ==
  ASSUME NEW j \in Job, NEW i \in DOMAIN j.items, NEW f \in Nat
  PROVE  /\ WithFile(j, i, f) \in Job
         /\ WithFile(j, i, f).status = j.status
         /\ WithFile(j, i, f).total = j.total
         /\ WithFile(j, i, f).processed = j.processed
         /\ Len(WithFile(j, i, f).items) = Len(j.items)
         /\ \A k \in 1..Len(j.items) :
               /\ WithFile(j, i, f).items[k].status = j.items[k].status
               /\ WithFile(j, i, f).items[k].book = j.items[k].book
               /\ WithFile(j, i, f).items[k].file = IF k = i THEN f ELSE j.items[k].file
<1> DEFINE x == [j.items[i] EXCEPT !.file = f]
           q == [j.items EXCEPT ![i] = x]
<1>1. j.items \in Seq(Item) /\ j.items[i] \in Item /\ i \in 1..Len(j.items)
  BY DEF Job
<1>2. x \in Item
  BY <1>1, ItemFields DEF Item
<1>3. /\ q \in Seq(Item)
      /\ Len(q) = Len(j.items)
      /\ \A k \in 1..Len(j.items) : q[k] = IF k = i THEN x ELSE j.items[k]
  <2> HIDE DEF x
  <2> QED BY <1>1, <1>2, ExceptSeq
<1>4. WithFile(j, i, f) = [j EXCEPT !.items = q]
  BY DEF WithFile
<1>5. /\ x.status = j.items[i].status
      /\ x.book = j.items[i].book
      /\ x.file = f
  BY <1>1, ItemFields
<1> HIDE DEF q, x
<1>6. WithFile(j, i, f) = [status |-> j.status, total |-> j.total,
                          processed |-> j.processed, items |-> q]
  BY <1>4, JobFields
<1>7. WithFile(j, i, f) \in Job
  BY <1>6, <1>3 DEF Job
<1>8. QED
  BY <1>3, <1>5, <1>6, <1>7

\* FailAll decides the pending items and ends the job.
LEMMA FailAllFields ==
  ASSUME NEW j \in Job
  PROVE  /\ FailAll(j) \in Job
         /\ FailAll(j).status = "Failed"
         /\ FailAll(j).total = j.total
         /\ FailAll(j).processed = j.processed
         /\ Len(FailAll(j).items) = Len(j.items)
         /\ \A k \in 1..Len(j.items) :
               /\ FailAll(j).items[k].status =
                     IF j.items[k].status = "Pending" THEN "Failed" ELSE j.items[k].status
               /\ FailAll(j).items[k].book = j.items[k].book
               /\ FailAll(j).items[k].file = j.items[k].file
<1> DEFINE e(k) == IF j.items[k].status = "Pending"
                   THEN [j.items[k] EXCEPT !.status = "Failed"] ELSE j.items[k]
           q == [k \in DOMAIN j.items |-> e(k)]
<1>1. /\ j.items \in Seq(Item) /\ Len(j.items) \in Nat
      /\ DOMAIN j.items = 1..Len(j.items)
      /\ \A k \in 1..Len(j.items) : j.items[k] \in Item
  BY DEF Job
<1>2. ASSUME NEW k \in 1..Len(j.items)
      PROVE  /\ e(k) \in Item
             /\ e(k).status = IF j.items[k].status = "Pending"
                              THEN "Failed" ELSE j.items[k].status
             /\ e(k).book = j.items[k].book
             /\ e(k).file = j.items[k].file
  <2>1. j.items[k] \in Item
    BY <1>1
  <2>2. [j.items[k] EXCEPT !.status = "Failed"] =
          [status |-> "Failed", book |-> j.items[k].book, file |-> j.items[k].file]
    BY <2>1, ItemFields
  <2>3. CASE j.items[k].status = "Pending"
    <3>1. e(k) = [status |-> "Failed", book |-> j.items[k].book, file |-> j.items[k].file]
      BY <2>2, <2>3
    <3>2. QED BY <2>1, <2>3, <3>1 DEF Item, ItemStatus
  <2>4. CASE j.items[k].status # "Pending"
    <3>1. e(k) = j.items[k]
      BY <2>4
    <3>2. QED BY <2>1, <2>4, <3>1
  <2>5. QED BY <2>3, <2>4
<1> HIDE DEF e
<1>3. q \in Seq(Item) /\ Len(q) = Len(j.items) /\ \A k \in 1..Len(j.items) : q[k] = e(k)
  BY <1>1, <1>2
<1>4. FailAll(j) = [[j EXCEPT !.status = "Failed"] EXCEPT !.items = q]
  BY DEF FailAll, e
<1> HIDE DEF q
<1>5. [j EXCEPT !.status = "Failed"] =
        [status |-> "Failed", total |-> j.total, processed |-> j.processed, items |-> j.items]
  BY JobFields
<1>6. [j EXCEPT !.status = "Failed"] \in Job
  BY <1>5 DEF Job, JobStatus
<1>7. FailAll(j) = [status |-> "Failed", total |-> j.total,
                    processed |-> j.processed, items |-> q]
  BY <1>4, <1>5, <1>6
<1>8. FailAll(j) \in Job
  BY <1>3, <1>7 DEF Job, JobStatus
<1>9. QED
  BY <1>2, <1>3, <1>7, <1>8

\* The items in one status are finitely many, at most all of them.
LEMMA HavingCount ==
  ASSUME NEW j \in Job, NEW s
  PROVE  /\ IsFiniteSet(Having(j, s))
         /\ Cardinality(Having(j, s)) \in Nat
         /\ Cardinality(Having(j, s)) <= Len(j.items)
<1>1. Len(j.items) \in Nat /\ DOMAIN j.items = 1..Len(j.items)
  BY DEF Job
<1>2. Having(j, s) \in SUBSET (1..Len(j.items))
  BY <1>1 DEF Having, ItemsOf
<1>3. IsFiniteSet(1..Len(j.items)) /\ Cardinality(1..Len(j.items)) = Len(j.items)
  BY <1>1, FS_Interval
<1>4. IsFiniteSet(Having(j, s)) /\ Cardinality(Having(j, s)) <= Len(j.items)
  BY <1>2, <1>3, FS_Subset
<1>5. QED
  BY <1>4, FS_CardinalityType

\* Requeued puts the failed items back and lowers the count.
LEMMA RequeuedFields ==
  ASSUME NEW j \in Job
  PROVE  /\ Requeued(j) \in Job
         /\ Requeued(j).status = j.status
         /\ Requeued(j).total = j.total
         /\ Requeued(j).processed = Uncounted(j)
         /\ Len(Requeued(j).items) = Len(j.items)
         /\ \A k \in 1..Len(j.items) :
               /\ Requeued(j).items[k].status =
                     IF j.items[k].status = "Failed" THEN "Pending" ELSE j.items[k].status
               /\ Requeued(j).items[k].book = j.items[k].book
               /\ Requeued(j).items[k].file = j.items[k].file
<1> DEFINE e(k) == IF j.items[k].status = "Failed"
                   THEN [j.items[k] EXCEPT !.status = "Pending"] ELSE j.items[k]
           q == [k \in DOMAIN j.items |-> e(k)]
           n == Cardinality(Having(j, "Failed"))
<1>1. /\ j.items \in Seq(Item) /\ Len(j.items) \in Nat
      /\ DOMAIN j.items = 1..Len(j.items)
      /\ \A k \in 1..Len(j.items) : j.items[k] \in Item
  BY DEF Job
<1>2. ASSUME NEW k \in 1..Len(j.items)
      PROVE  /\ e(k) \in Item
             /\ e(k).status = IF j.items[k].status = "Failed"
                              THEN "Pending" ELSE j.items[k].status
             /\ e(k).book = j.items[k].book
             /\ e(k).file = j.items[k].file
  <2>1. j.items[k] \in Item
    BY <1>1
  <2>2. [j.items[k] EXCEPT !.status = "Pending"] =
          [status |-> "Pending", book |-> j.items[k].book, file |-> j.items[k].file]
    BY <2>1, ItemFields
  <2>3. CASE j.items[k].status = "Failed"
    <3>1. e(k) = [status |-> "Pending", book |-> j.items[k].book, file |-> j.items[k].file]
      BY <2>2, <2>3
    <3>2. QED BY <2>1, <2>3, <3>1 DEF Item, ItemStatus
  <2>4. CASE j.items[k].status # "Failed"
    <3>1. e(k) = j.items[k]
      BY <2>4
    <3>2. QED BY <2>1, <2>4, <3>1
  <2>5. QED BY <2>3, <2>4
<1> HIDE DEF e
<1>3. q \in Seq(Item) /\ Len(q) = Len(j.items) /\ \A k \in 1..Len(j.items) : q[k] = e(k)
  BY <1>1, <1>2
<1>4. Requeued(j) = [[j EXCEPT !.processed = Uncounted(j)] EXCEPT !.items = q]
  BY DEF Requeued, e
<1>5. Uncounted(j) \in Nat
  <2>1. n \in Nat /\ j.processed \in Nat
    BY HavingCount DEF Job
  <2>2. Uncounted(j) = IF j.processed > n THEN j.processed - n ELSE 0
    BY DEF Uncounted
  <2> HIDE DEF n
  <2>3. QED BY <2>1, <2>2
<1> HIDE DEF q
<1>6. [j EXCEPT !.processed = Uncounted(j)] =
        [status |-> j.status, total |-> j.total, processed |-> Uncounted(j), items |-> j.items]
  BY JobFields
<1>7. [j EXCEPT !.processed = Uncounted(j)] \in Job
  BY <1>5, <1>6 DEF Job
<1>8. Requeued(j) = [status |-> j.status, total |-> j.total,
                     processed |-> Uncounted(j), items |-> q]
  BY <1>4, <1>6, <1>7
<1>9. Requeued(j) \in Job
  BY <1>3, <1>5, <1>8 DEF Job
<1>10. QED
  BY <1>2, <1>3, <1>8, <1>9

\* ImportBook adds a book that is not visible; AttachFile changes one book.
LEMMA BookFields ==
  ASSUME NEW bs \in Seq(Book), NEW i \in Nat
  PROVE  /\ Append(bs, NewBook(i)) \in Seq(Book)
         /\ Len(Append(bs, NewBook(i))) = Len(bs) + 1
         /\ \A b \in 1..Len(bs) : Append(bs, NewBook(i))[b] = bs[b]
         /\ Append(bs, NewBook(i))[Len(bs) + 1] =
              [item |-> i, file |-> NoId, active |-> FALSE]
<1>1. NewBook(i) \in Book
  BY DEF NewBook, Book, NoId
<1>2. QED
  BY <1>1, AppendProperties DEF NewBook

LEMMA AttachFields ==
  ASSUME NEW bs \in Seq(Book), NEW b \in 1..Len(bs), NEW f \in Nat
  PROVE  /\ Attach(bs, b, f) \in Seq(Book)
         /\ Len(Attach(bs, b, f)) = Len(bs)
         /\ Attach(bs, b, f)[b] = [item |-> bs[b].item, file |-> f, active |-> TRUE]
         /\ \A c \in 1..Len(bs) : c # b => Attach(bs, b, f)[c] = bs[c]
<1> DEFINE x == [item |-> bs[b].item, file |-> f, active |-> TRUE]
<1>1. bs[b] \in Book
  OBVIOUS
<1>2. x = [item |-> bs[b].item, file |-> f, active |-> TRUE]
  OBVIOUS
<1>3. x \in Book
  BY <1>1 DEF Book
<1>4. Attach(bs, b, f) = [bs EXCEPT ![b] = x]
  BY DEF Attach
<1> HIDE DEF x
<1>5. /\ [bs EXCEPT ![b] = x] \in Seq(Book)
      /\ Len([bs EXCEPT ![b] = x]) = Len(bs)
      /\ \A c \in 1..Len(bs) : [bs EXCEPT ![b] = x][c] = IF c = b THEN x ELSE bs[c]
  BY <1>3, ExceptSeq
<1>6. QED
  BY <1>2, <1>4, <1>5

\* AttachFile keeps the type, whatever book is named.
LEMMA AttachType ==
  ASSUME NEW bs \in Seq(Book), NEW b, NEW f \in Nat
  PROVE  Attach(bs, b, f) \in Seq(Book)
<1>1. CASE b \in 1..Len(bs)
  BY <1>1, AttachFields
<1>2. CASE b \notin 1..Len(bs)
  <2>1. b \notin DOMAIN bs /\ bs = [c \in DOMAIN bs |-> bs[c]]
    BY <1>2
  <2>2. Attach(bs, b, f) =
          [c \in DOMAIN bs |-> IF c = b THEN [item |-> bs[b].item, file |-> f, active |-> TRUE]
                               ELSE bs[c]]
    BY <2>1, Zenon DEF Attach
  <2>3. \A c \in DOMAIN bs : c # b
    BY <2>1
  <2>4. QED
    BY <2>1, <2>2, <2>3
<1>3. QED
  BY <1>1, <1>2

\* A file row is added after the others.
LEMMA FileFields ==
  ASSUME NEW fs \in Seq(File), NEW i \in Nat, NEW b \in Nat
  PROVE  /\ Append(fs, NewFile(i, b)) \in Seq(File)
         /\ Len(Append(fs, NewFile(i, b))) = Len(fs) + 1
         /\ \A f \in 1..Len(fs) : Append(fs, NewFile(i, b))[f] = fs[f]
         /\ Append(fs, NewFile(i, b))[Len(fs) + 1] = [item |-> i, book |-> b]
<1>1. NewFile(i, b) \in File
  BY DEF NewFile, File
<1>2. QED
  BY <1>1, AppendProperties DEF NewFile

----------------------------------------------------------------------------
(* The inductive invariant.                                                *)

Working == {"lookup", "fetch", "post", "insert", "link", "count", "reset", "done"}

Body == {"post", "insert", "link", "count"}

(***************************************************************************)
(* The stages of the request and of the processor, the number of items     *)
(* that the saved and the tracked job have, and the item in the body.      *)
(***************************************************************************)
Shape ==
  /\ request = "none" => proc = "off" /\ db.total = 0
  /\ request = "jobSaved" => proc = "off" /\ db.total \in 1..MaxFiles
  /\ request = "dead" => proc = "off"
  /\ proc = "off" => /\ db.items = <<>> /\ db.processed = 0 /\ mem.items = <<>>
                     /\ mem.processed = 0
                     /\ run = 0
                     /\ db.status \in {"None", "Pending"}
  /\ request = "none" => db.status = "None"
  /\ request # "none" /\ proc = "off" => db.status = "Pending"
  /\ proc # "off" => Len(db.items) = db.total /\ db.total \in 1..MaxFiles
  /\ proc = "load" => /\ mem.items = <<>> /\ mem.processed = 0 /\ db.processed = 0
                      /\ db.status = "Pending" /\ run = 0
  /\ proc \in Working => Len(mem.items) = mem.total /\ mem.total = db.total
  /\ proc \in Body => item \in 1..Len(mem.items)
  /\ proc \in Body \cup {"fetch", "reset"} => run \in 1..2
  /\ proc \in {"off", "load", "lookup"} => run = 0

ITypeOK == TypeOK /\ Shape

(***************************************************************************)
(* The book and the file row of the item in the body, and the row left in  *)
(* the tracker, are not yet known to anybody else.                         *)
(***************************************************************************)
FreshBook(b) ==
  /\ b \in DOMAIN books /\ ~ books[b].active
  /\ \A f \in DOMAIN files : files[f].book # b

InBody ==
  /\ proc \in {"post", "insert", "link"} => mem.items[item].status = "Pending"
  /\ proc = "insert" => /\ FreshBook(mem.items[item].book)
                        /\ books[mem.items[item].book].item = item
  /\ proc = "link" =>
       LET b == mem.items[item].book  f == mem.items[item].file
       IN  /\ b \in DOMAIN books /\ ~ books[b].active /\ books[b].item = item
           /\ f \in DOMAIN files /\ files[f] = [item |-> item, book |-> b]
           /\ \A g \in DOMAIN files : files[g].book = b => g = f

RowLeft ==
  added # NoId => proc \in {"count", "dead"} /\ FreshBook(added)

TrackedIsReadable ==
  \A i \in Having(mem, "Success") : Readable(i, mem.items[i].book, mem.items[i].file)

FilesNameBooks == \A f \in DOMAIN files : files[f].book <= Len(books)

CatalogInv ==
  /\ FilesNameBooks
  /\ InBody
  /\ RowLeft
  /\ TrackedIsReadable
  /\ SuccessIsReadable
  /\ VisibleBookHasItsFile

(***************************************************************************)
(* A book that is visible though no reply about its item was lost belongs  *)
(* to an item that is imported, and is the only one of that item.          *)
(***************************************************************************)
Answered(b) == books[b].active /\ books[b].item \in 1..MaxFiles \ unanswered

OnceInv ==
  /\ \A b \in DOMAIN books : Answered(b) => books[b].item \in Having(mem, "Success")
  /\ \A b, c \in DOMAIN books :
       Answered(b) /\ Answered(c) /\ books[b].item = books[c].item => b = c

(***************************************************************************)
(* The count leaves room for the items that are still to be counted: the   *)
(* pending ones, and the one that has just been decided.                   *)
(***************************************************************************)
Undecided(j) == Cardinality(Having(j, "Pending"))

CountInv ==
  /\ db.processed <= db.total
  /\ proc \in Working => mem.processed <= mem.total
  /\ proc \in {"lookup", "fetch", "post", "insert", "link"} =>
       mem.processed + Undecided(mem) <= mem.total
  /\ proc = "count" => mem.processed + Undecided(mem) + 1 <= mem.total
  /\ proc = "reset" => Having(mem, "Pending") = {}

(***************************************************************************)
(* The status of the job tells the stage of the processor, and a tracked   *)
(* outcome extends the saved one.                                          *)
(***************************************************************************)
StatusInv ==
  /\ proc \in Working => mem.status = db.status
  /\ proc = "lookup" => db.status = "Running"
  /\ proc \in Body \cup {"fetch"} => db.status = IF run = 1 THEN "Running" ELSE "RetryFails"
  /\ proc = "reset" => db.status = "RetryFails" /\ run = 1
  /\ proc \in {"lookup", "reset"} => mem.items = db.items
  /\ proc = "lookup" => \A i \in ItemsOf(db) : db.items[i].status = "Pending"
  /\ proc = "load" => \A i \in ItemsOf(db) : db.items[i].status = "Pending"
  /\ proc \in Working =>
       \A i \in ItemsOf(db) :
         db.items[i].status # "Pending" => mem.items[i].status = db.items[i].status





----------------------------------------------------------------------------
(* Type correctness and the shape of the jobs.                             *)

LEMMA NewJobType ==
  /\ NoJob = [status |-> "None", total |-> 0, processed |-> 0, items |-> <<>>]
  /\ NoJob \in Job
  /\ \A n \in Nat : NewJob(n) \in Job
<1>1. <<>> \in Seq(Item)
  OBVIOUS
<1>2. QED
  BY <1>1 DEF NoJob, NewJob, Job, JobStatus

\* Updating an item keeps the type and the other fields of the job.
LEMMA UpdateType ==
  ASSUME NEW j \in Job, NEW i \in DOMAIN j.items, NEW s \in ItemStatus, NEW n \in Nat,
         NEW q \in {WithStatus(j, i, s), WithBook(j, i, n), WithFile(j, i, n)}
  PROVE  /\ q \in Job /\ q.status = j.status /\ q.total = j.total
         /\ q.processed = j.processed /\ Len(q.items) = Len(j.items)
<1>1. CASE q = WithStatus(j, i, s)
  BY <1>1, WithStatusFields
<1>2. CASE q = WithBook(j, i, n)
  BY <1>2, WithBookFields
<1>3. CASE q = WithFile(j, i, n)
  BY <1>3, WithFileFields
<1>4. QED
  BY <1>1, <1>2, <1>3

LEMMA NewItemsType ==
  ASSUME NEW n \in Nat
  PROVE  /\ [i \in 1..n |-> NewItem] \in Seq(Item)
         /\ Len([i \in 1..n |-> NewItem]) = n
         /\ \A i \in 1..n : [k \in 1..n |-> NewItem][i] = NewItem
<1>1. NewItem \in Item
  BY DEF NewItem, Item, ItemStatus, NoId
<1>2. QED
  BY <1>1

\* The fields of a job, a save, and the bounds of an index.
LEMMA JobTyping ==
  ASSUME NEW j \in Job
  PROVE  /\ j.status \in JobStatus /\ j.total \in Nat /\ j.processed \in Nat
         /\ j.items \in Seq(Item) /\ Len(j.items) \in Nat
         /\ DOMAIN j.items = 1..Len(j.items)
         /\ \A i \in 1..Len(j.items) :
              j.items[i].status \in ItemStatus /\ j.items[i].book \in Nat /\ j.items[i].file \in Nat
<1>1. /\ j.status \in JobStatus /\ j.total \in Nat /\ j.processed \in Nat
      /\ j.items \in Seq(Item)
  BY DEF Job
<1>2. Len(j.items) \in Nat /\ DOMAIN j.items = 1..Len(j.items)
  BY <1>1
<1>3. \A i \in 1..Len(j.items) : j.items[i] \in Item
  BY <1>1
<1>4. QED
  BY <1>1, <1>2, <1>3 DEF Item

LEMMA TypeInit == Init => ITypeOK
<1>1. NoJob = [status |-> "None", total |-> 0, processed |-> 0, items |-> <<>>] /\ NoJob \in Job
  BY NewJobType
<1>2. <<>> \in Seq(Book) /\ <<>> \in Seq(File)
  OBVIOUS
<1>3. 0 \in 0..MaxFiles
  BY MaxFilesAssumption
<1>4. ASSUME Init PROVE TypeOK
  <2>1. httpContext \in BOOLEAN /\ integration \in BOOLEAN
    BY <1>4, Zenon DEF Init
  <2>2. QED
    BY <1>1, <1>2, <1>3, <1>4, <2>1 DEF Init, TypeOK, ProcStep, NoId
<1>5. ASSUME Init PROVE Shape
  BY <1>1, <1>5 DEF Init, Shape, Working, Body
<1>6. QED
  BY <1>4, <1>5 DEF ITypeOK

LEMMA TypeStep == ITypeOK /\ [Next]_vars => ITypeOK'
<1> SUFFICES ASSUME ITypeOK, [Next]_vars PROVE ITypeOK'
  OBVIOUS
<1> USE MaxFilesAssumption DEF ITypeOK, TypeOK, ProcStep, NoId
<1>0. /\ db \in Job /\ mem \in Job
      /\ db.total \in Nat /\ db.processed \in Nat
      /\ mem.total \in Nat /\ mem.processed \in Nat
      /\ Len(mem.items) \in Nat /\ DOMAIN mem.items = 1..Len(mem.items)
      /\ Len(db.items) \in Nat /\ DOMAIN db.items = 1..Len(db.items)
      /\ proc \in Working => Len(mem.items) <= MaxFiles
  <2>1. db \in Job /\ mem \in Job
    OBVIOUS
  <2>2. proc \in Working => Len(mem.items) = mem.total /\ mem.total = db.total
                            /\ db.total \in 1..MaxFiles
    BY DEF Shape, Working
  <2>3. QED
    BY <2>1, <2>2, JobTyping
<1>1. CASE SaveJob
  <2> PICK n \in 1..MaxFiles : db' = NewJob(n)
    BY <1>1 DEF SaveJob
  <2>1. db' = [status |-> "Pending", total |-> n, processed |-> 0, items |-> <<>>]
    BY DEF NewJob
  <2>2. db' \in Job
    BY NewJobType
  <2>3. QED
    BY <1>1, <2>1, <2>2 DEF SaveJob, Shape, Working, Body
<1>2. CASE SaveItems
  <2> DEFINE q == [i \in 1..db.total |-> NewItem]
  <2>1. q \in Seq(Item) /\ Len(q) = db.total
    BY <1>0, NewItemsType
  <2>2. db' = [db EXCEPT !.items = q]
    BY <1>2 DEF SaveItems
  <2> HIDE DEF q
  <2>3. db' = [status |-> db.status, total |-> db.total, processed |-> db.processed, items |-> q]
    BY <1>0, <2>2, JobFields
  <2>4. db' \in Job
    BY <1>0, <2>1, <2>3 DEF Job
  <2>5. QED
    BY <1>2, <2>1, <2>3, <2>4 DEF SaveItems, Shape, Working, Body
<1>3. CASE SaveItemsFails
  <2> QED BY <1>0, <1>3 DEF SaveItemsFails, Shape, Working, Body
<1>4. CASE RequestEnds
  <2> QED BY <1>0, <1>4 DEF RequestEnds, Shape, Working, Body
<1>5. CASE DisconnectDrive
  <2> QED BY <1>0, <1>5 DEF DisconnectDrive, Shape, Working, Body
<1>6. CASE Load
  <2>1. mem' = [status |-> "Running", total |-> db.total, processed |-> db.processed,
                items |-> db.items]
    BY <1>0, <1>6, JobFields DEF Load
  <2>2. mem' \in Job
    BY <1>0, <2>1, JobTyping DEF Job, JobStatus
  <2>3. QED
    BY <1>0, <1>6, <2>1, <2>2 DEF Load, Shape, Working, Body
<1>7. CASE LookupIntegration
  <2> QED BY <1>0, <1>7 DEF LookupIntegration, Shape, Working, Body
<1>8. CASE IntegrationMissing
  <2> QED BY <1>0, <1>8, FailAllFields DEF IntegrationMissing, Shape, Working, Body
<1>9. ASSUME NEW i \in 1..MaxFiles, FetchFile(i) PROVE ITypeOK'
  <2>1. i \in 1..Len(mem.items)
    BY <1>0, <1>9 DEF FetchFile, Fetch, IsNext, Having, ItemsOf
  <2>2. QED
    BY <1>0, <1>9, <2>1 DEF FetchFile, Fetch, Shape, Working, Body
<1>10. ASSUME NEW i \in 1..MaxFiles, RejectFile(i) PROVE ITypeOK'
  <2>1. mem \in Job /\ i \in DOMAIN mem.items /\ "Failed" \in ItemStatus
    BY <1>0, <1>10 DEF RejectFile, Fetch, IsNext, Having, ItemsOf, ItemStatus
  <2>2. mem' = WithStatus(mem, i, "Failed")
    BY <1>10 DEF RejectFile
  <2>3. /\ mem' \in Job /\ mem'.total = mem.total
        /\ mem'.processed = mem.processed /\ Len(mem'.items) = Len(mem.items)
    BY <2>1, <2>2, WithStatusFields
  <2>4. QED
    BY <1>0, <1>10, <2>1, <2>3 DEF RejectFile, Fetch, Shape, Working, Body
<1>11. ASSUME NEW i \in 1..MaxFiles, FetchThrows(i) PROVE ITypeOK'
  <2>1. mem \in Job /\ i \in DOMAIN mem.items /\ "Failed" \in ItemStatus
    BY <1>0, <1>11 DEF FetchThrows, Fetch, IsNext, Having, ItemsOf, ItemStatus
  <2>2. mem' = WithStatus(mem, i, "Failed")
    BY <1>11 DEF FetchThrows
  <2>3. /\ mem' \in Job /\ mem'.total = mem.total
        /\ mem'.processed = mem.processed /\ Len(mem'.items) = Len(mem.items)
    BY <2>1, <2>2, WithStatusFields
  <2>4. QED
    BY <1>0, <1>11, <2>1, <2>3 DEF FetchThrows, Fetch, Shape, Working, Body
<1>12. ASSUME proc \in Body
       PROVE  /\ item \in DOMAIN mem.items /\ item \in 1..MaxFiles /\ item \in Nat
              /\ mem.items[item].book \in Nat /\ mem.items[item].file \in Nat
              /\ \A s \in ItemStatus, n \in Nat :
                   \A q \in {WithStatus(mem, item, s), WithBook(mem, item, n), WithFile(mem, item, n)} :
                     /\ q \in Job /\ q.status = mem.status /\ q.total = mem.total
                     /\ q.processed = mem.processed /\ Len(q.items) = Len(mem.items)
  <2>1. item \in 1..Len(mem.items) /\ proc \in Working
    BY <1>12 DEF Shape, Body, Working
  <2>2. item \in DOMAIN mem.items /\ mem \in Job
    BY <1>0, <2>1
  <2>3. \A s \in ItemStatus, n \in Nat :
          \A q \in {WithStatus(mem, item, s), WithBook(mem, item, n), WithFile(mem, item, n)} :
            /\ q \in Job /\ q.status = mem.status /\ q.total = mem.total
            /\ q.processed = mem.processed /\ Len(q.items) = Len(mem.items)
    BY <2>2, UpdateType
  <2>4. mem.items[item].book \in Nat /\ mem.items[item].file \in Nat
    BY <2>1, <2>2, JobTyping
  <2>5. QED
    BY <1>0, <2>1, <2>2, <2>3, <2>4
<1>13. CASE PostBook
  <2>1. proc \in Body
    BY <1>13 DEF PostBook, Body
  <2>2. books' \in Seq(Book) /\ Len(books') \in Nat
    <3>1. books \in Seq(Book) /\ item \in Nat /\ books' = Append(books, NewBook(item))
      BY <1>12, <1>13, <2>1 DEF PostBook
    <3>2. books' \in Seq(Book)
      BY <3>1, BookFields
    <3>3. QED
      BY <3>2
  <2>3. /\ mem' \in Job /\ mem'.total = mem.total
        /\ mem'.processed = mem.processed /\ Len(mem'.items) = Len(mem.items)
    BY <1>0, <1>12, <1>13, <2>1, <2>2 DEF PostBook, ItemStatus
  <2>4. QED
    BY <1>0, <1>12, <1>13, <2>1, <2>2, <2>3 DEF PostBook, Shape, Working, Body
<1>14. CASE PostBookFails
  <2>1. proc \in Body
    BY <1>14 DEF PostBookFails, Body
  <2>2. /\ mem' \in Job /\ mem'.total = mem.total
        /\ mem'.processed = mem.processed /\ Len(mem'.items) = Len(mem.items)
    BY <1>12, <1>14, <2>1 DEF PostBookFails, ItemStatus
  <2>3. QED
    BY <1>0, <1>12, <1>14, <2>1, <2>2 DEF PostBookFails, Shape, Working, Body
<1>15. CASE PostBookUnanswered
  <2>1. proc \in Body
    BY <1>15 DEF PostBookUnanswered, Body
  <2>2. books' \in Seq(Book) /\ Len(books') \in Nat
    <3>1. books \in Seq(Book) /\ item \in Nat /\ books' = Append(books, NewBook(item))
      BY <1>12, <1>15, <2>1 DEF PostBookUnanswered
    <3>2. books' \in Seq(Book)
      BY <3>1, BookFields
    <3>3. QED
      BY <3>2
  <2>3. /\ mem' \in Job /\ mem'.total = mem.total
        /\ mem'.processed = mem.processed /\ Len(mem'.items) = Len(mem.items)
    BY <1>12, <1>15, <2>1 DEF PostBookUnanswered, ItemStatus
  <2>4. QED
    BY <1>0, <1>12, <1>15, <2>1, <2>2, <2>3 DEF PostBookUnanswered, Shape, Working, Body
<1>16. CASE PostBookEmptyReply
  <2>1. proc \in Body
    BY <1>16 DEF PostBookEmptyReply, Body
  <2>2. books' \in Seq(Book) /\ Len(books') \in Nat
    <3>1. books \in Seq(Book) /\ item \in Nat /\ books' = Append(books, NewBook(item))
      BY <1>12, <1>16, <2>1 DEF PostBookEmptyReply
    <3>2. books' \in Seq(Book)
      BY <3>1, BookFields
    <3>3. QED
      BY <3>2
  <2>3. /\ mem' \in Job /\ mem'.total = mem.total
        /\ mem'.processed = mem.processed /\ Len(mem'.items) = Len(mem.items)
    BY <1>12, <1>16, <2>1 DEF PostBookEmptyReply, ItemStatus
  <2>4. QED
    BY <1>0, <1>12, <1>16, <2>1, <2>2, <2>3 DEF PostBookEmptyReply, Shape, Working, Body
<1>17. CASE InsertFile
  <2>1. proc \in Body
    BY <1>17 DEF InsertFile, Body
  <2>2. files' \in Seq(File) /\ Len(files') \in Nat
    <3>1. /\ files \in Seq(File) /\ item \in Nat /\ mem.items[item].book \in Nat
          /\ files' = Append(files, NewFile(item, mem.items[item].book))
      BY <1>12, <1>17, <2>1 DEF InsertFile
    <3>2. files' \in Seq(File)
      BY <3>1, FileFields
    <3>3. QED
      BY <3>2
  <2>3. /\ mem' \in Job /\ mem'.total = mem.total
        /\ mem'.processed = mem.processed /\ Len(mem'.items) = Len(mem.items)
    BY <1>0, <1>12, <1>17, <2>1, <2>2 DEF InsertFile, ItemStatus
  <2>4. QED
    BY <1>0, <1>12, <1>17, <2>1, <2>2, <2>3 DEF InsertFile, Shape, Working, Body
<1>18. CASE InsertFileFails
  <2>1. proc \in Body
    BY <1>18 DEF InsertFileFails, Body
  <2>2. /\ mem' \in Job /\ mem'.total = mem.total
        /\ mem'.processed = mem.processed /\ Len(mem'.items) = Len(mem.items)
    BY <1>12, <1>18, <2>1 DEF InsertFileFails, ItemStatus
  <2>3. QED
    BY <1>0, <1>12, <1>18, <2>1, <2>2 DEF InsertFileFails, Shape, Working, Body
<1>19. CASE LinkBook
  <2>1. proc \in Body
    BY <1>19 DEF LinkBook, Body
  <2>2. books' \in Seq(Book)
    BY <1>12, <1>19, <2>1, AttachType DEF LinkBook, AttachItem
  <2>3. /\ mem' \in Job /\ mem'.total = mem.total
        /\ mem'.processed = mem.processed /\ Len(mem'.items) = Len(mem.items)
    BY <1>12, <1>19, <2>1 DEF LinkBook, ItemStatus
  <2>4. QED
    BY <1>0, <1>12, <1>19, <2>1, <2>2, <2>3 DEF LinkBook, Shape, Working, Body
<1>20. CASE LinkBookFails
  <2>1. proc \in Body
    BY <1>20 DEF LinkBookFails, Body
  <2>2. /\ mem' \in Job /\ mem'.total = mem.total
        /\ mem'.processed = mem.processed /\ Len(mem'.items) = Len(mem.items)
    BY <1>12, <1>20, <2>1 DEF LinkBookFails, ItemStatus
  <2>3. QED
    BY <1>0, <1>12, <1>20, <2>1, <2>2 DEF LinkBookFails, Shape, Working, Body
<1>21. CASE LinkBookUnanswered
  <2>1. proc \in Body
    BY <1>21 DEF LinkBookUnanswered, Body
  <2>2. books' \in Seq(Book)
    BY <1>12, <1>21, <2>1, AttachType DEF LinkBookUnanswered, AttachItem
  <2>3. /\ mem' \in Job /\ mem'.total = mem.total
        /\ mem'.processed = mem.processed /\ Len(mem'.items) = Len(mem.items)
    BY <1>12, <1>21, <2>1 DEF LinkBookUnanswered, ItemStatus
  <2>4. QED
    BY <1>0, <1>12, <1>21, <2>1, <2>2, <2>3 DEF LinkBookUnanswered, Shape, Working, Body
<1>22. CASE CountItem
  <2>1. proc \in Body
    BY <1>22 DEF CountItem, Body
  <2>2. mem' = [status |-> mem.status, total |-> mem.total,
                processed |-> mem.processed + 1, items |-> mem.items]
    BY <1>0, <1>22, JobFields DEF CountItem
  <2>3. mem' \in Job
    BY <1>0, <2>2, JobTyping DEF Job
  <2>4. files' \in Seq(File)
    BY <1>12, <1>22, <2>1, FileFields DEF CountItem
  <2>5. QED
    BY <1>0, <1>12, <1>22, <2>1, <2>2, <2>3, <2>4 DEF CountItem, Shape, Working, Body
<1>23. CASE CountItemRefused
  <2> QED BY <1>0, <1>23 DEF CountItemRefused, Shape, Working, Body
<1>24. ASSUME proc = "fetch", NEW st \in JobStatus, Save(st), proc' \in {"done", "reset"}
       PROVE  ITypeOK'
  <2>1. mem' = [status |-> st, total |-> mem.total,
                processed |-> mem.processed, items |-> mem.items]
    BY <1>0, <1>24, JobFields DEF Save
  <2>2. mem' \in Job
    BY <1>0, <2>1, JobTyping DEF Job
  <2>3. QED
    BY <1>0, <1>24, <2>1, <2>2 DEF Save, Shape, Working, Body
<1>25. CASE FirstRunEnds
  BY <1>24, <1>25 DEF FirstRunEnds, RunEnds, JobStatus
<1>26. CASE RetryFails
  BY <1>24, <1>26 DEF RetryFails, RunEnds, JobStatus
<1>27. CASE ResetFailed
  BY <1>0, <1>27, RequeuedFields DEF ResetFailed, Shape, Working, Body
<1>28. CASE SecondRunEnds
  BY <1>24, <1>28 DEF SecondRunEnds, RunEnds, JobStatus
<1>29. CASE SaveThrows
  BY <1>0, <1>29 DEF SaveThrows, RunEnds, Shape, Working, Body
<1>30. CASE Crash
  BY <1>0, <1>30 DEF Crash, Shape, Working, Body
<1>31. CASE UNCHANGED vars
  BY <1>0, <1>31 DEF vars, Shape, Working, Body
<1>32. QED
  BY <1>1, <1>2, <1>3, <1>4, <1>5, <1>6, <1>7, <1>8, <1>9, <1>10, <1>11, <1>13, <1>14,
     <1>15, <1>16, <1>17, <1>18, <1>19, <1>20, <1>21, <1>22, <1>23, <1>25, <1>26, <1>27,
     <1>28, <1>29, <1>30, <1>31 DEF Next, ProcessJob, ItemStep

(***************************************************************************)
(* Type correctness, with the shape of the jobs.                           *)
(***************************************************************************)
THEOREM TypeCorrect == Spec => []TypeOK /\ []ITypeOK
<1>1. ITypeOK => TypeOK
  BY DEF ITypeOK
<1>2. QED
  BY <1>1, TypeInit, TypeStep, PTL DEF Spec

----------------------------------------------------------------------------
(* The catalog and the file rows.                                          *)

LEMMA StoreTyping ==
  ASSUME TypeOK
  PROVE  /\ Len(books) \in Nat /\ DOMAIN books = 1..Len(books)
         /\ Len(files) \in Nat /\ DOMAIN files = 1..Len(files)
         /\ \A b \in DOMAIN books : books[b] \in Book
         /\ \A f \in DOMAIN files : files[f] \in File /\ files[f].book \in Nat
<1>1. books \in Seq(Book) /\ files \in Seq(File)
  BY DEF TypeOK
<1>2. /\ Len(books) \in Nat /\ DOMAIN books = 1..Len(books)
      /\ Len(files) \in Nat /\ DOMAIN files = 1..Len(files)
      /\ \A b \in DOMAIN books : books[b] \in Book
      /\ \A f \in DOMAIN files : files[f] \in File
  BY <1>1
<1>3. QED
  BY <1>2 DEF File

\* What a visible book and a readable item are, without the helpers.
Stands(i, b, f) ==
  /\ b \in DOMAIN books /\ books[b].item = i /\ books[b].active /\ books[b].file = f
  /\ f \in DOMAIN files /\ files[f] = [item |-> i, book |-> b]

LEMMA ReadableStands == \A i, b, f : Readable(i, b, f) <=> Stands(i, b, f)
  BY DEF Readable, Stands, VisibleBooksOf, BooksOf

LEMMA ReadableStandsNext == \A i, b, f : Readable(i, b, f)' <=> Stands(i, b, f)'
  BY DEF Readable, Stands, VisibleBooksOf, BooksOf

\* One file, and no other, names a visible book.
OneFile(b) ==
  /\ books[b].file \in DOMAIN files /\ files[books[b].file].book = b
  /\ \A f \in DOMAIN files : files[f].book = b => f = books[b].file

LEMMA VisibleOneFile ==
  VisibleBookHasItsFile <=> \A b \in DOMAIN books : books[b].active => OneFile(b)
  BY DEF VisibleBookHasItsFile, OneFile

LEMMA VisibleOneFileNext ==
  VisibleBookHasItsFile' <=> (\A b \in DOMAIN books : books[b].active => OneFile(b))'
  BY DEF VisibleBookHasItsFile, OneFile

\* What every step does to the two stores.
Kept ==
  /\ VisibleBookHasItsFile'
  /\ \A i, b, f : Readable(i, b, f) => Readable(i, b, f)'

LEMMA KeptUnchanged ==
  ASSUME VisibleBookHasItsFile, UNCHANGED <<books, files>>
  PROVE  Kept /\ \A b : FreshBook(b) => FreshBook(b)'
  BY DEF Kept, VisibleBookHasItsFile, Readable, VisibleBooksOf, BooksOf, FreshBook

\* ImportBook adds a book that nothing names.
LEMMA KeptByImportBook ==
  ASSUME TypeOK, VisibleBookHasItsFile, FilesNameBooks,
         NEW i \in Nat, books' = Append(books, NewBook(i)), UNCHANGED files
  PROVE  /\ Kept
         /\ \A b : FreshBook(b) => FreshBook(b)'
         /\ FreshBook(Len(books))'
         /\ books'[Len(books')].item = i
<1>1. /\ Len(books) \in Nat /\ DOMAIN books = 1..Len(books) /\ books \in Seq(Book)
      /\ \A f \in DOMAIN files : files[f].book \in Nat /\ files[f].book <= Len(books)
  BY StoreTyping DEF TypeOK, FilesNameBooks
<1>2. /\ Len(books') = Len(books) + 1 /\ DOMAIN books' = 1..Len(books')
      /\ \A b \in 1..Len(books) : books'[b] = books[b]
      /\ books'[Len(books')] = [item |-> i, file |-> NoId, active |-> FALSE]
  BY <1>1, BookFields
<1>3. ~ books'[Len(books')].active /\ books'[Len(books')].item = i
  BY <1>2
<1>4. ASSUME NEW b, FreshBook(b) PROVE FreshBook(b)'
  BY <1>1, <1>2, <1>4 DEF FreshBook
<1>5. FreshBook(Len(books))'
  <2>1. Len(books') \in DOMAIN books'
    BY <1>1, <1>2
  <2>2. \A f \in DOMAIN files' : files'[f].book # Len(books')
    BY <1>1, <1>2
  <2>3. QED
    BY <1>3, <2>1, <2>2 DEF FreshBook
<1>6. ASSUME NEW k, NEW b, NEW f, Stands(k, b, f) PROVE Stands(k, b, f)'
  BY <1>1, <1>2, <1>6 DEF Stands
<1>7. ASSUME NEW b \in DOMAIN books', books'[b].active PROVE OneFile(b)'
  <2>1. b \in DOMAIN books /\ books'[b] = books[b]
    BY <1>1, <1>2, <1>3, <1>7
  <2>2. OneFile(b)
    BY <1>7, <2>1, VisibleOneFile
  <2>3. QED
    BY <2>1, <2>2 DEF OneFile
<1>8. VisibleBookHasItsFile'
  BY <1>7, VisibleOneFileNext
<1>9. QED
  BY <1>3, <1>4, <1>5, <1>6, <1>8, ReadableStands, ReadableStandsNext DEF Kept

\* A file row is inserted for a book that had none.
LEMMA KeptByInsert ==
  ASSUME TypeOK, VisibleBookHasItsFile,
         NEW i \in Nat, NEW b \in Nat, FreshBook(b),
         files' = Append(files, NewFile(i, b)), UNCHANGED books
  PROVE  /\ Kept
         /\ \A c : c # b /\ FreshBook(c) => FreshBook(c)'
         /\ Len(files') \in DOMAIN files' /\ files'[Len(files')] = [item |-> i, book |-> b]
         /\ \A g \in DOMAIN files' : files'[g].book = b => g = Len(files')
<1>1. /\ Len(files) \in Nat /\ DOMAIN files = 1..Len(files) /\ files \in Seq(File)
      /\ \A f \in DOMAIN files : files[f].book \in Nat
  BY StoreTyping DEF TypeOK
<1>2. /\ Len(files') = Len(files) + 1 /\ DOMAIN files' = 1..Len(files')
      /\ \A f \in 1..Len(files) : files'[f] = files[f]
      /\ files'[Len(files')] = [item |-> i, book |-> b]
  BY <1>1, FileFields
<1>3. files'[Len(files')].book = b
  BY <1>2
<1>4. \A g \in DOMAIN files' : files'[g].book = b => g = Len(files')
  BY <1>1, <1>2 DEF FreshBook
<1>5. ASSUME NEW c, c # b, FreshBook(c) PROVE FreshBook(c)'
  BY <1>1, <1>2, <1>3, <1>5 DEF FreshBook
<1>6. ASSUME NEW k, NEW c, NEW f, Stands(k, c, f) PROVE Stands(k, c, f)'
  BY <1>1, <1>2, <1>6 DEF Stands
<1>7. ASSUME NEW c \in DOMAIN books, books[c].active PROVE OneFile(c)'
  <2>1. OneFile(c) /\ c # b
    BY <1>7, VisibleOneFile DEF FreshBook
  <2>2. QED
    BY <1>1, <1>2, <1>3, <2>1 DEF OneFile
<1>8. VisibleBookHasItsFile'
  BY <1>7, VisibleOneFileNext
<1>9. QED
  BY <1>1, <1>2, <1>4, <1>5, <1>6, <1>8, ReadableStands, ReadableStandsNext DEF Kept

\* AttachFile links a book that was not visible to the one file row it has.
LEMMA KeptByAttach ==
  ASSUME TypeOK, VisibleBookHasItsFile,
         NEW b \in DOMAIN books, ~ books[b].active,
         NEW f \in DOMAIN files, files[f] = [item |-> books[b].item, book |-> b],
         \A g \in DOMAIN files : files[g].book = b => g = f,
         books' = Attach(books, b, f), UNCHANGED files
  PROVE  Kept /\ Readable(books[b].item, b, f)'
<1>1. /\ Len(books) \in Nat /\ DOMAIN books = 1..Len(books) /\ books \in Seq(Book)
      /\ DOMAIN files = 1..Len(files) /\ f \in Nat
  BY StoreTyping DEF TypeOK
<1>2. /\ Len(books') = Len(books) /\ DOMAIN books' = DOMAIN books
      /\ books'[b] = [item |-> books[b].item, file |-> f, active |-> TRUE]
      /\ \A c \in DOMAIN books : c # b => books'[c] = books[c]
  BY <1>1, AttachFields
<1>3. books'[b].item = books[b].item /\ books'[b].file = f /\ books'[b].active
  BY <1>2
<1>4. files[f].book = b
  OBVIOUS
<1>5. Stands(books[b].item, b, f)'
  BY <1>2, <1>3 DEF Stands
<1>6. ASSUME NEW k, NEW c, NEW g, Stands(k, c, g) PROVE Stands(k, c, g)'
  <2>1. c # b
    BY <1>6 DEF Stands
  <2>2. QED
    BY <1>2, <1>6, <2>1 DEF Stands
<1>7. ASSUME NEW c \in DOMAIN books', books'[c].active PROVE OneFile(c)'
  <2>1. CASE c = b
    BY <1>2, <1>3, <1>4, <2>1 DEF OneFile
  <2>2. CASE c # b
    <3>1. c \in DOMAIN books /\ books'[c] = books[c] /\ books[c].active
      BY <1>2, <1>7, <2>2
    <3>2. OneFile(c)
      BY <3>1, VisibleOneFile
    <3>3. QED
      BY <3>1, <3>2 DEF OneFile
  <2>3. QED
    BY <2>1, <2>2
<1>8. VisibleBookHasItsFile'
  BY <1>7, VisibleOneFileNext
<1>9. QED
  BY <1>5, <1>6, <1>8, ReadableStands, ReadableStandsNext DEF Kept

\* A job with no more imported items than another, and with the same rows.
NoNewSuccess(k, j) ==
  \A i \in Having(k, "Success") :
    /\ i \in Having(j, "Success")
    /\ k.items[i].book = j.items[i].book /\ k.items[i].file = j.items[i].file

LEMMA NoNewSuccessByUpdate ==
  ASSUME NEW j \in Job
  PROVE  /\ \A i \in DOMAIN j.items : NoNewSuccess(WithStatus(j, i, "Failed"), j)
         /\ \A i \in DOMAIN j.items, n \in Nat : j.items[i].status = "Pending" =>
              NoNewSuccess(WithBook(j, i, n), j) /\ NoNewSuccess(WithFile(j, i, n), j)
         /\ NoNewSuccess(FailAll(j), j)
         /\ NoNewSuccess(Requeued(j), j)
         /\ \A n : NoNewSuccess([j EXCEPT !.processed = n], j)
         /\ \A st : NoNewSuccess([j EXCEPT !.status = st], j)
         /\ NoNewSuccess(j, j)
<1>0. Len(j.items) \in Nat /\ DOMAIN j.items = 1..Len(j.items)
  BY JobTyping
<1> USE DEF NoNewSuccess, Having, ItemsOf
<1>1. ASSUME NEW i \in DOMAIN j.items PROVE NoNewSuccess(WithStatus(j, i, "Failed"), j)
  <2> DEFINE k == WithStatus(j, i, "Failed")
  <2>1. /\ k \in Job /\ Len(k.items) = Len(j.items)
        /\ \A m \in 1..Len(j.items) :
             /\ k.items[m].status = IF m = i THEN "Failed" ELSE j.items[m].status
             /\ k.items[m].book = j.items[m].book /\ k.items[m].file = j.items[m].file
    <3>1. "Failed" \in ItemStatus
      BY DEF ItemStatus
    <3> HIDE DEF NoNewSuccess, Having, ItemsOf
    <3>2. QED
      BY <3>1, WithStatusFields
  <2> HIDE DEF k
  <2>2. NoNewSuccess(k, j)
    BY <1>0, <2>1, JobTyping
  <2>3. QED
    BY <2>2 DEF k
<1>2. ASSUME NEW i \in DOMAIN j.items, NEW n \in Nat, j.items[i].status = "Pending"
      PROVE  NoNewSuccess(WithBook(j, i, n), j)
  <2> DEFINE k == WithBook(j, i, n)
  <2>1. /\ k \in Job /\ Len(k.items) = Len(j.items)
        /\ \A m \in 1..Len(j.items) :
             /\ k.items[m].status = j.items[m].status
             /\ k.items[m].book = IF m = i THEN n ELSE j.items[m].book
             /\ k.items[m].file = j.items[m].file
    BY WithBookFields
  <2> HIDE DEF k
  <2>2. NoNewSuccess(k, j)
    BY <1>0, <1>2, <2>1, JobTyping
  <2>3. QED
    BY <2>2 DEF k
<1>3. ASSUME NEW i \in DOMAIN j.items, NEW n \in Nat, j.items[i].status = "Pending"
      PROVE  NoNewSuccess(WithFile(j, i, n), j)
  <2> DEFINE k == WithFile(j, i, n)
  <2>1. /\ k \in Job /\ Len(k.items) = Len(j.items)
        /\ \A m \in 1..Len(j.items) :
             /\ k.items[m].status = j.items[m].status
             /\ k.items[m].book = j.items[m].book
             /\ k.items[m].file = IF m = i THEN n ELSE j.items[m].file
    BY WithFileFields
  <2> HIDE DEF k
  <2>2. NoNewSuccess(k, j)
    BY <1>0, <1>3, <2>1, JobTyping
  <2>3. QED
    BY <2>2 DEF k
<1>4. NoNewSuccess(FailAll(j), j)
  BY <1>0, FailAllFields, JobTyping
<1>5. NoNewSuccess(Requeued(j), j)
  <2> DEFINE k == Requeued(j)
  <2>1. /\ k \in Job /\ Len(k.items) = Len(j.items)
        /\ \A m \in 1..Len(j.items) :
             /\ k.items[m].status =
                  IF j.items[m].status = "Failed" THEN "Pending" ELSE j.items[m].status
             /\ k.items[m].book = j.items[m].book /\ k.items[m].file = j.items[m].file
    BY RequeuedFields
  <2> HIDE DEF k
  <2>2. NoNewSuccess(k, j)
    BY <1>0, <2>1, JobTyping
  <2>3. QED
    BY <2>2 DEF k
<1>6. /\ \A n : [j EXCEPT !.processed = n].items = j.items
      /\ \A st : [j EXCEPT !.status = st].items = j.items
  BY JobFields
<1>7. /\ \A n : NoNewSuccess([j EXCEPT !.processed = n], j)
      /\ \A st : NoNewSuccess([j EXCEPT !.status = st], j)
      /\ NoNewSuccess(j, j)
  BY <1>6
<1>8. QED
  BY <1>1, <1>2, <1>3, <1>4, <1>5, <1>7

LEMMA ReadableTransfer ==
  ASSUME Kept, NEW j, NEW k, NoNewSuccess(k, j),
         \A i \in Having(j, "Success") : Readable(i, j.items[i].book, j.items[i].file)
  PROVE  \A i \in Having(k, "Success") : Readable(i, k.items[i].book, k.items[i].file)'
  BY DEF Kept, NoNewSuccess

\* A step that imports no item keeps the invariant if it keeps the stores.
LEMMA CatalogFrame ==
  ASSUME CatalogInv, Kept, NoNewSuccess(mem', mem),
         NoNewSuccess(db', db) \/ NoNewSuccess(db', mem),
         FilesNameBooks', InBody', RowLeft'
  PROVE  CatalogInv'
<1>1. TrackedIsReadable'
  BY ReadableTransfer DEF CatalogInv, TrackedIsReadable
<1>2. SuccessIsReadable'
  BY ReadableTransfer DEF CatalogInv, TrackedIsReadable, SuccessIsReadable
<1>3. QED
  BY <1>1, <1>2 DEF CatalogInv, Kept

LEMMA CatalogInit == Init => CatalogInv
<1>1. ASSUME Init PROVE DOMAIN books = {} /\ DOMAIN files = {} /\ DOMAIN mem.items = {}
                        /\ DOMAIN db.items = {}
  BY <1>1, NewJobType DEF Init
<1>2. QED
  BY <1>1 DEF Init, CatalogInv, FilesNameBooks, InBody, RowLeft, TrackedIsReadable,
     SuccessIsReadable, VisibleBookHasItsFile, Having, ItemsOf, NoId

LEMMA CatalogStep == ITypeOK /\ CatalogInv /\ [Next]_vars => CatalogInv'
<1> SUFFICES ASSUME ITypeOK, CatalogInv, [Next]_vars PROVE CatalogInv'
  OBVIOUS
<1>0. /\ TypeOK /\ db \in Job /\ mem \in Job /\ VisibleBookHasItsFile /\ FilesNameBooks
      /\ InBody /\ RowLeft
      /\ proc \in Body => item \in DOMAIN mem.items /\ item \in Nat
                          /\ mem.items[item].book \in Nat /\ mem.items[item].file \in Nat
  <2>1. TypeOK /\ db \in Job /\ mem \in Job /\ VisibleBookHasItsFile /\ FilesNameBooks
        /\ InBody /\ RowLeft
    BY DEF ITypeOK, TypeOK, CatalogInv
  <2>2. proc \in Body => item \in 1..Len(mem.items)
    BY DEF ITypeOK, Shape
  <2>3. QED
    BY <2>1, <2>2, JobTyping
\* Steps that leave books, files, the row in the tracker and the item alone.
<1>1. ASSUME UNCHANGED <<books, files, added>>, NoNewSuccess(mem', mem),
             NoNewSuccess(db', db) \/ NoNewSuccess(db', mem),
             proc' \notin {"post", "insert", "link"},
             added = NoId \/ proc' \in {"count", "dead"}
      PROVE  CatalogInv'
  <2>1. Kept /\ \A b : FreshBook(b) => FreshBook(b)'
    BY <1>0, <1>1, KeptUnchanged
  <2>2. FilesNameBooks' /\ InBody' /\ RowLeft'
    BY <1>0, <1>1, <2>1 DEF FilesNameBooks, InBody, RowLeft, FreshBook
  <2>3. QED
    BY <1>1, <2>1, <2>2, CatalogFrame
<1>2. ASSUME UNCHANGED <<books, files, added, mem, db, item, proc>> PROVE CatalogInv'
  BY <1>2 DEF CatalogInv, FilesNameBooks, InBody, RowLeft, TrackedIsReadable, SuccessIsReadable,
     VisibleBookHasItsFile, Readable, VisibleBooksOf, BooksOf, FreshBook, Having, ItemsOf
\* The request, and the steps of the processor around the items.
<1>3. CASE SaveJob
  <2>1. PICK n \in 1..MaxFiles : db' = NewJob(n)
    BY <1>3 DEF SaveJob
  <2>2. NoNewSuccess(db', db)
    BY <2>1 DEF NoNewSuccess, Having, ItemsOf, NewJob
  <2>3. QED
    BY <1>0, <1>1, <1>3, <2>2, NoNewSuccessByUpdate DEF SaveJob, ITypeOK, Shape, RowLeft
<1>4. CASE SaveItems
  <2>1. db.total \in Nat /\ db' = [db EXCEPT !.items = [i \in 1..db.total |-> NewItem]]
    BY <1>0, <1>4, JobTyping DEF SaveItems
  <2>2. db'.items = [i \in 1..db.total |-> NewItem]
    BY <1>0, <2>1, JobFields
  <2>3. NoNewSuccess(db', db)
    BY <2>1, <2>2, NewItemsType DEF NoNewSuccess, Having, ItemsOf, NewItem
  <2>4. QED
    BY <1>0, <1>1, <1>4, <2>3, NoNewSuccessByUpdate DEF SaveItems, ITypeOK, Shape, RowLeft
<1>5. CASE SaveItemsFails \/ RequestEnds \/ DisconnectDrive
  BY <1>2, <1>5 DEF SaveItemsFails, RequestEnds, DisconnectDrive
<1>6. CASE Load
  <2>1. mem'.items = db.items /\ mem' = db'
    BY <1>0, <1>6, JobFields DEF Load
  <2>2. TrackedIsReadable' /\ SuccessIsReadable'
    BY <1>6, <2>1 DEF Load, CatalogInv, TrackedIsReadable, SuccessIsReadable, Having, ItemsOf,
       Readable, VisibleBooksOf, BooksOf
  <2>3. QED
    BY <1>0, <1>6, <2>2, KeptUnchanged DEF Load, CatalogInv, FilesNameBooks, InBody, RowLeft, Kept
<1>7. CASE LookupIntegration
  BY <1>0, <1>1, <1>7, NoNewSuccessByUpdate DEF LookupIntegration, RowLeft
<1>8. CASE IntegrationMissing
  BY <1>0, <1>1, <1>8, NoNewSuccessByUpdate DEF IntegrationMissing, RowLeft
\* The body of the loop.
<1>9. ASSUME NEW i \in 1..MaxFiles, FetchFile(i) PROVE CatalogInv'
  <2>1. mem.items[i].status = "Pending" /\ item' = i
    BY <1>9 DEF FetchFile, Fetch, IsNext, Having
  <2>2. Kept /\ \A b : FreshBook(b) => FreshBook(b)'
    BY <1>0, <1>9, KeptUnchanged DEF FetchFile
  <2>3. FilesNameBooks' /\ InBody' /\ RowLeft'
    BY <1>0, <1>9, <2>1, <2>2 DEF FetchFile, Fetch, FilesNameBooks, InBody, RowLeft
  <2>4. QED
    BY <1>0, <1>9, <2>2, <2>3, CatalogFrame, NoNewSuccessByUpdate DEF FetchFile
<1>10. ASSUME NEW i \in 1..MaxFiles, RejectFile(i) PROVE CatalogInv'
  <2>1. i \in DOMAIN mem.items
    BY <1>10 DEF RejectFile, Fetch, IsNext, Having, ItemsOf
  <2>2. QED
    BY <1>0, <1>1, <1>10, <2>1, NoNewSuccessByUpdate DEF RejectFile, Fetch, RowLeft
<1>11. ASSUME NEW i \in 1..MaxFiles, FetchThrows(i) PROVE CatalogInv'
  <2>1. i \in DOMAIN mem.items
    BY <1>11 DEF FetchThrows, Fetch, IsNext, Having, ItemsOf
  <2>2. QED
    BY <1>0, <1>1, <1>11, <2>1, NoNewSuccessByUpdate DEF FetchThrows, Fetch, RowLeft
<1>12. CASE PostBook
  <2>1. /\ item \in DOMAIN mem.items /\ item \in Nat /\ added = NoId
        /\ mem.items[item].status = "Pending"
    BY <1>0, <1>12 DEF PostBook, Body, InBody, RowLeft
  <2>2. /\ Kept /\ FreshBook(Len(books))' /\ books'[Len(books')].item = item
        /\ \A b : FreshBook(b) => FreshBook(b)'
    BY <1>0, <1>12, <2>1, KeptByImportBook DEF PostBook
  <2>3. Len(books') \in Nat /\ Len(books) \in Nat /\ Len(books') = Len(books) + 1
    BY <1>0, <1>12, <2>1, BookFields, StoreTyping DEF PostBook, TypeOK
  <2>4. mem'.items[item].book = Len(books') /\ mem'.items[item].status = "Pending"
    <3> DEFINE n == Len(books')
    <3>1. n \in Nat /\ mem' = WithBook(mem, item, n) /\ mem \in Job /\ item \in 1..Len(mem.items)
      BY <1>0, <1>12, <2>1, <2>3, JobTyping DEF PostBook
    <3> HIDE DEF n
    <3>2. /\ WithBook(mem, item, n).items[item].book = n
          /\ WithBook(mem, item, n).items[item].status = mem.items[item].status
      BY <2>1, <3>1, WithBookFields
    <3>3. QED
      BY <2>1, <3>1, <3>2 DEF n
  <2>5. NoNewSuccess(mem', mem)
    BY <1>0, <1>12, <2>1, <2>3, NoNewSuccessByUpdate DEF PostBook
  <2>6. FilesNameBooks'
    BY <1>0, <1>12, <2>3, StoreTyping DEF PostBook, FilesNameBooks
  <2>7. InBody' /\ RowLeft'
    BY <1>12, <2>1, <2>2, <2>4 DEF PostBook, InBody, RowLeft, NoId
  <2>8. QED
    BY <1>0, <1>12, <2>2, <2>5, <2>6, <2>7, CatalogFrame, NoNewSuccessByUpdate DEF PostBook
<1>13. CASE PostBookFails
  BY <1>0, <1>1, <1>13, NoNewSuccessByUpdate DEF PostBookFails, Body, RowLeft
<1>14. CASE PostBookUnanswered \/ PostBookEmptyReply
  <2> USE DEF PostBookUnanswered, PostBookEmptyReply
  <2>1. item \in DOMAIN mem.items /\ item \in Nat /\ added = NoId /\ added' = NoId
    BY <1>0, <1>14 DEF Body, RowLeft
  <2>2. Kept
    BY <1>0, <1>14, <2>1, KeptByImportBook
  <2>3. Len(books) \in Nat /\ Len(books') = Len(books) + 1
    BY <1>0, <1>14, <2>1, BookFields, StoreTyping DEF TypeOK
  <2>4. NoNewSuccess(mem', mem) /\ NoNewSuccess(db', db)
    BY <1>0, <1>14, <2>1, NoNewSuccessByUpdate
  <2>5. FilesNameBooks'
    BY <1>0, <1>14, <2>3, StoreTyping DEF FilesNameBooks
  <2>6. InBody' /\ RowLeft'
    BY <1>14, <2>1 DEF InBody, RowLeft
  <2>7. QED
    BY <2>2, <2>4, <2>5, <2>6, CatalogFrame
<1>15. CASE InsertFile
  <2> DEFINE b == mem.items[item].book
  <2>1. /\ item \in DOMAIN mem.items /\ item \in Nat /\ added = NoId /\ b \in Nat
        /\ mem.items[item].status = "Pending" /\ FreshBook(b) /\ books[b].item = item
    BY <1>0, <1>15 DEF InsertFile, Body, InBody, RowLeft
  <2>2. /\ Kept
        /\ Len(files') \in DOMAIN files' /\ files'[Len(files')] = [item |-> item, book |-> b]
        /\ \A g \in DOMAIN files' : files'[g].book = b => g = Len(files')
    BY <1>0, <1>15, <2>1, KeptByInsert DEF InsertFile
  <2>3. Len(files') \in Nat
    BY <1>0, <1>15, <2>1, FileFields, StoreTyping DEF InsertFile, TypeOK
  <2>4. /\ mem'.items[item].book = b /\ mem'.items[item].status = "Pending"
        /\ mem'.items[item].file = Len(files')
    BY <1>0, <1>15, <2>1, <2>3, WithFileFields, JobTyping DEF InsertFile
  <2>5. NoNewSuccess(mem', mem) /\ NoNewSuccess(db', mem)
    BY <1>0, <1>15, <2>1, <2>3, NoNewSuccessByUpdate DEF InsertFile
  <2>6. FilesNameBooks'
    <3>1. b <= Len(books) /\ files \in Seq(File)
      BY <1>0, <2>1, StoreTyping DEF FreshBook, TypeOK
    <3>2. /\ Len(files') = Len(files) + 1 /\ DOMAIN files' = 1..Len(files')
          /\ \A f \in 1..Len(files) : files'[f] = files[f]
      BY <1>15, <2>1, <2>3, <3>1, FileFields DEF InsertFile
    <3>3. files'[Len(files')].book = b
      BY <2>2
    <3>4. QED
      BY <1>0, <1>15, <3>1, <3>2, <3>3, StoreTyping DEF InsertFile, FilesNameBooks
  <2> HIDE DEF b
  <2>7. b \in DOMAIN books /\ ~ books[b].active
    BY <2>1 DEF FreshBook
  <2>8. InBody' /\ RowLeft'
    BY <1>15, <2>1, <2>2, <2>4, <2>7 DEF InsertFile, InBody, RowLeft
  <2>9. QED
    BY <2>2, <2>5, <2>6, <2>8, CatalogFrame
<1>16. CASE InsertFileFails
  <2>1. item \in DOMAIN mem.items /\ FreshBook(mem.items[item].book)
    BY <1>0, <1>16 DEF InsertFileFails, Body, InBody
  <2>2. Kept /\ \A b : FreshBook(b) => FreshBook(b)'
    BY <1>0, <1>16, KeptUnchanged DEF InsertFileFails
  <2>3. FilesNameBooks' /\ InBody'
    BY <1>0, <1>16 DEF InsertFileFails, FilesNameBooks, InBody
  <2>4. RowLeft'
    BY <1>16, <2>1, <2>2 DEF InsertFileFails, RowLeft
  <2>5. QED
    BY <1>0, <1>16, <2>1, <2>2, <2>3, <2>4, CatalogFrame, NoNewSuccessByUpdate DEF InsertFileFails
\* AttachFile, with or without the reply.
<1>17. ASSUME LinkBook \/ LinkBookUnanswered,
              NEW k, k = item,
              NEW b, b = mem.items[item].book, NEW f, f = mem.items[item].file
       PROVE  Kept /\ Readable(k, b, f)' /\ FilesNameBooks' /\ InBody' /\ RowLeft'
  <2> USE DEF LinkBook, LinkBookUnanswered
  <2>1. /\ b \in DOMAIN books /\ ~ books[b].active /\ books[b].item = k
        /\ f \in DOMAIN files /\ files[f] = [item |-> k, book |-> b]
        /\ \A g \in DOMAIN files : files[g].book = b => g = f
        /\ added = NoId /\ added' = NoId
    BY <1>0, <1>17 DEF InBody, RowLeft
  <2>2. books' = Attach(books, b, f) /\ UNCHANGED files
    BY <1>17 DEF AttachItem
  <2>3. files[f] = [item |-> books[b].item, book |-> b]
    BY <2>1
  <2>4. books \in Seq(Book) /\ b \in 1..Len(books) /\ f \in Nat
    BY <1>0, <2>1, StoreTyping DEF TypeOK
  <2>5. Len(books') = Len(books) /\ books'[b].item = books[b].item
    <3>1. books'[b] = [item |-> books[b].item, file |-> f, active |-> TRUE]
      BY <2>2, <2>4, AttachFields
    <3>2. QED
      BY <2>2, <2>4, <3>1, AttachFields
  <2>6. Kept /\ Readable(books[b].item, b, f)'
    BY <1>0, <2>1, <2>2, <2>3, KeptByAttach
  <2>7. FilesNameBooks'
    BY <1>0, <2>2, <2>5 DEF FilesNameBooks
  <2>8. InBody' /\ RowLeft'
    BY <1>17, <2>1 DEF InBody, RowLeft
  <2>9. QED
    BY <2>1, <2>5, <2>6, <2>7, <2>8
<1>18. CASE LinkBook
  <2>1. item \in DOMAIN mem.items /\ mem' = WithStatus(mem, item, "Success") /\ db' = db
    BY <1>0, <1>18 DEF LinkBook, Body
  <2>2. /\ mem' \in Job /\ Len(mem'.items) = Len(mem.items)
        /\ \A i \in 1..Len(mem.items) :
             /\ mem'.items[i].status = IF i = item THEN "Success" ELSE mem.items[i].status
             /\ mem'.items[i].book = mem.items[i].book
             /\ mem'.items[i].file = mem.items[i].file
    BY <1>0, <2>1, WithStatusFields DEF ItemStatus
  <2>3. TrackedIsReadable'
    <3>1. SUFFICES ASSUME NEW i \in Having(mem, "Success")',
                          NEW b, b = mem'.items[i].book, NEW f, f = mem'.items[i].file
                   PROVE  Readable(i, b, f)'
      BY DEF TrackedIsReadable
    <3>2. /\ i \in DOMAIN mem.items /\ b = mem.items[i].book /\ f = mem.items[i].file
          /\ i # item => mem.items[i].status = "Success"
      <4>1. i \in DOMAIN mem'.items /\ mem'.items[i].status = "Success"
        BY <3>1 DEF Having, ItemsOf
      <4>2. DOMAIN mem'.items = 1..Len(mem.items) /\ DOMAIN mem.items = 1..Len(mem.items)
        BY <1>0, <2>2, JobTyping
      <4>3. QED
        BY <2>2, <3>1, <4>1, <4>2
    <3>3. CASE i = item
      BY <1>17, <1>18, <3>2, <3>3
    <3>4. CASE i # item
      <4>1. Readable(i, b, f)
        BY <3>2, <3>4 DEF CatalogInv, TrackedIsReadable, Having, ItemsOf
      <4>2. Kept
        BY <1>17, <1>18
      <4>3. QED
        BY <4>1, <4>2 DEF Kept
    <3>5. QED
      BY <3>3, <3>4
  <2>4. NoNewSuccess(db', db)
    BY <1>0, <2>1, NoNewSuccessByUpdate
  <2>5. SuccessIsReadable'
    BY <1>17, <1>18, <2>4, ReadableTransfer DEF CatalogInv, SuccessIsReadable
  <2>6. QED
    BY <1>17, <1>18, <2>3, <2>5 DEF CatalogInv, Kept
<1>19. CASE LinkBookFails
  BY <1>0, <1>1, <1>19, NoNewSuccessByUpdate DEF LinkBookFails, Body, RowLeft
<1>20. CASE LinkBookUnanswered
  <2>1. NoNewSuccess(mem', mem) /\ NoNewSuccess(db', db)
    BY <1>0, <1>20, NoNewSuccessByUpdate DEF LinkBookUnanswered, Body
  <2>2. QED
    BY <1>17, <1>20, <2>1, CatalogFrame
<1>21. CASE CountItem
  <2>1. NoNewSuccess(mem', mem) /\ NoNewSuccess(db', mem)
    BY <1>0, <1>21, NoNewSuccessByUpdate DEF CountItem
  <2>2. CASE added = NoId
    <3>1. Kept
      BY <1>0, <1>21, <2>2, KeptUnchanged DEF CountItem
    <3>2. FilesNameBooks' /\ InBody' /\ RowLeft'
      BY <1>0, <1>21, <2>2 DEF CountItem, FilesNameBooks, InBody, RowLeft
    <3>3. QED
      BY <2>1, <3>1, <3>2, CatalogFrame
  <2>3. CASE added # NoId
    <3>1. FreshBook(added) /\ added \in Nat /\ item \in Nat
          /\ files' = Append(files, NewFile(item, added)) /\ UNCHANGED books
      BY <1>0, <1>21, <2>3 DEF CountItem, RowLeft, Body, TypeOK
    <3>2. Kept
      BY <1>0, <3>1, KeptByInsert
    <3>3. /\ files \in Seq(File) /\ added <= Len(books)
      BY <1>0, <3>1, StoreTyping DEF FreshBook, TypeOK
    <3>4. /\ Len(files') = Len(files) + 1 /\ files' \in Seq(File)
          /\ \A f \in 1..Len(files) : files'[f] = files[f]
          /\ files'[Len(files) + 1] = [item |-> item, book |-> added]
      BY <3>1, <3>3, FileFields
    <3>5. DOMAIN files' = 1..(Len(files) + 1) /\ files'[Len(files) + 1].book = added
      BY <3>3, <3>4
    <3>6. FilesNameBooks'
      BY <1>0, <3>1, <3>3, <3>4, <3>5, StoreTyping DEF FilesNameBooks
    <3>7. InBody' /\ RowLeft'
      BY <1>21 DEF CountItem, InBody, RowLeft
    <3>8. QED
      BY <2>1, <3>2, <3>6, <3>7, CatalogFrame
  <2>4. QED
    BY <2>2, <2>3
<1>22. CASE CountItemRefused \/ SaveThrows \/ Crash
  BY <1>0, <1>1, <1>22, NoNewSuccessByUpdate
     DEF CountItemRefused, SaveThrows, Crash, ITypeOK, Shape, RowLeft
\* The ends of the runs.
<1>23. ASSUME NEW st, RunEnds, Save(st), proc' \in {"done", "reset"} PROVE CatalogInv'
  BY <1>0, <1>1, <1>23, NoNewSuccessByUpdate DEF RunEnds, Save, RowLeft
<1>24. CASE FirstRunEnds \/ RetryFails \/ SecondRunEnds
  BY <1>23, <1>24 DEF FirstRunEnds, RetryFails, SecondRunEnds
<1>25. CASE ResetFailed
  BY <1>0, <1>1, <1>25, NoNewSuccessByUpdate DEF ResetFailed, RowLeft
<1>26. CASE UNCHANGED vars
  BY <1>2, <1>26 DEF vars
<1>27. QED
  BY <1>3, <1>4, <1>5, <1>6, <1>7, <1>8, <1>9, <1>10, <1>11, <1>12, <1>13, <1>14, <1>15,
     <1>16, <1>18, <1>19, <1>20, <1>21, <1>22, <1>24, <1>25, <1>26 DEF Next, ProcessJob, ItemStep

(***************************************************************************)
(* An item that is imported names a visible book and its file row, and     *)
(* they name each other, whichever of the three calls of an item fail or   *)
(* are retried, and wherever the service stops.                            *)
(***************************************************************************)
THEOREM ImportedIsReadable == Spec => []SuccessIsReadable
<1>1. CatalogInv => SuccessIsReadable
  BY DEF CatalogInv
<1>2. QED
  BY <1>1, TypeInit, TypeStep, CatalogInit, CatalogStep, PTL DEF Spec

(***************************************************************************)
(* A book a reader can see has the one file row that was inserted for it.  *)
(***************************************************************************)
THEOREM VisibleIsReadable == Spec => []VisibleBookHasItsFile
<1>1. CatalogInv => VisibleBookHasItsFile
  BY DEF CatalogInv
<1>2. QED
  BY <1>1, TypeInit, TypeStep, CatalogInit, CatalogStep, PTL DEF Spec

(***************************************************************************)
(* No item is worked on while a row of an earlier one is in the tracker.   *)
(***************************************************************************)
THEOREM TrackerIsClean == Spec => []NoRowLeftInTracker
<1>1. CatalogInv => NoRowLeftInTracker
  BY DEF CatalogInv, RowLeft, NoRowLeftInTracker
<1>2. QED
  BY <1>1, TypeInit, TypeStep, CatalogInit, CatalogStep, PTL DEF Spec

----------------------------------------------------------------------------
(* What the body of the loop does to the outcome of an item.               *)

\* Job k is job j but for the outcome of item i and for what rows it names.
Decides(k, j, i, s) ==
  /\ k \in Job /\ k.status = j.status /\ k.total = j.total /\ k.processed = j.processed
  /\ Len(k.items) = Len(j.items)
  /\ \A m \in 1..Len(j.items) : k.items[m].status = IF m = i THEN s ELSE j.items[m].status

LEMMA DecidesByUpdate ==
  ASSUME NEW j \in Job, NEW i \in DOMAIN j.items
  PROVE  /\ \A s \in ItemStatus : Decides(WithStatus(j, i, s), j, i, s)
         /\ \A n \in Nat : /\ Decides(WithBook(j, i, n), j, i, j.items[i].status)
                          /\ Decides(WithFile(j, i, n), j, i, j.items[i].status)
<1>1. ASSUME NEW s \in ItemStatus PROVE Decides(WithStatus(j, i, s), j, i, s)
  BY WithStatusFields DEF Decides
<1>2. ASSUME NEW n \in Nat PROVE Decides(WithBook(j, i, n), j, i, j.items[i].status)
  BY WithBookFields DEF Decides
<1>3. ASSUME NEW n \in Nat PROVE Decides(WithFile(j, i, n), j, i, j.items[i].status)
  BY WithFileFields DEF Decides
<1>4. QED
  BY <1>1, <1>2, <1>3

\* The steps that decide a pending item, in memory only.
Decision ==
  /\ proc \in {"fetch", "post", "insert", "link"} /\ proc' \in {"fetch", "count"}
  /\ \E i \in DOMAIN mem.items, s \in {"Success", "Failed"} :
       mem.items[i].status = "Pending" /\ Decides(mem', mem, i, s)
  /\ db' = db /\ run' = run

LEMMA Decisions ==
  ASSUME ITypeOK, CatalogInv,
         \/ \E i \in 1..MaxFiles : RejectFile(i) \/ FetchThrows(i)
         \/ PostBookFails \/ PostBookUnanswered \/ PostBookEmptyReply
         \/ InsertFileFails \/ LinkBook \/ LinkBookFails \/ LinkBookUnanswered
  PROVE  Decision
<1>1. mem \in Job /\ "Success" \in ItemStatus /\ "Failed" \in ItemStatus
  BY DEF ITypeOK, TypeOK, ItemStatus
<1>2. ASSUME NEW i \in 1..MaxFiles, RejectFile(i) \/ FetchThrows(i) PROVE Decision
  <2>1. i \in DOMAIN mem.items /\ mem.items[i].status = "Pending"
    BY <1>2 DEF RejectFile, FetchThrows, Fetch, IsNext, Having, ItemsOf
  <2>2. mem' = WithStatus(mem, i, "Failed")
    BY <1>2 DEF RejectFile, FetchThrows
  <2>3. Decides(mem', mem, i, "Failed")
    BY <1>1, <2>1, <2>2, DecidesByUpdate
  <2>4. QED
    BY <1>2, <2>1, <2>3 DEF Decision, RejectFile, FetchThrows, Fetch
<1>3. ASSUME PostBookFails \/ PostBookUnanswered \/ PostBookEmptyReply
             \/ InsertFileFails \/ LinkBook \/ LinkBookFails \/ LinkBookUnanswered
      PROVE  Decision
  <2> USE DEF PostBookFails, PostBookUnanswered, PostBookEmptyReply, InsertFileFails, LinkBook,
          LinkBookFails, LinkBookUnanswered
  <2>1. proc \in {"post", "insert", "link"}
    BY <1>3
  <2>2. item \in DOMAIN mem.items /\ mem.items[item].status = "Pending"
    BY <1>1, <2>1, JobTyping DEF CatalogInv, InBody, ITypeOK, Shape, Body
  <2>3. PICK s \in {"Success", "Failed"} : mem' = WithStatus(mem, item, s)
    BY <1>3
  <2>4. Decides(mem', mem, item, s)
    BY <1>1, <2>2, <2>3, DecidesByUpdate
  <2>5. proc' \in {"fetch", "count"} /\ db' = db /\ run' = run
    BY <1>3
  <2>6. QED
    BY <2>1, <2>2, <2>4, <2>5 DEF Decision
<1>4. QED
  BY <1>2, <1>3

\* The steps that name a book or a file row, and decide nothing.
Naming ==
  /\ proc \in {"post", "insert"} /\ proc' \in {"insert", "link"}
  /\ \E i \in DOMAIN mem.items : Decides(mem', mem, i, mem.items[i].status)
  /\ db' \in {db, mem} /\ run' = run

LEMMA Namings ==
  ASSUME ITypeOK, PostBook \/ InsertFile
  PROVE  Naming
<1>1. mem \in Job /\ item \in DOMAIN mem.items
  BY JobTyping DEF ITypeOK, TypeOK, Shape, Body, PostBook, InsertFile
<1>2. CASE PostBook
  <2>1. PICK n \in Nat : mem' = WithBook(mem, item, n)
    <3>1. books \in Seq(Book) /\ item \in Nat
      BY DEF ITypeOK, TypeOK
    <3>2. Len(books') = Len(books) + 1 /\ Len(books) \in Nat
      BY <1>2, <3>1, BookFields DEF PostBook
    <3>3. QED
      BY <1>2, <3>2 DEF PostBook
  <2>2. Decides(mem', mem, item, mem.items[item].status)
    BY <1>1, <2>1, DecidesByUpdate
  <2>3. QED
    BY <1>1, <1>2, <2>2 DEF PostBook, Naming
<1>3. CASE InsertFile
  <2>1. PICK n \in Nat : mem' = WithFile(mem, item, n)
    <3>1. files \in Seq(File) /\ item \in Nat /\ mem.items[item].book \in Nat
      BY <1>1, JobTyping DEF ITypeOK, TypeOK
    <3>2. Len(files') = Len(files) + 1 /\ Len(files) \in Nat
      BY <1>3, <3>1, FileFields DEF InsertFile
    <3>3. QED
      BY <1>3, <3>2 DEF InsertFile
  <2>2. Decides(mem', mem, item, mem.items[item].status)
    BY <1>1, <2>1, DecidesByUpdate
  <2>3. QED
    BY <1>1, <1>3, <2>2 DEF InsertFile, Naming
<1>4. QED
  BY <1>2, <1>3

\* All steps, by what they do to the job.
LEMMA StepKinds ==
  ASSUME ITypeOK, CatalogInv, Next
  PROVE  \/ SaveJob \/ SaveItems \/ Load \/ LookupIntegration \/ IntegrationMissing
         \/ \E i \in 1..MaxFiles : FetchFile(i)
         \/ Naming \/ Decision \/ CountItem
         \/ FirstRunEnds \/ RetryFails \/ ResetFailed \/ SecondRunEnds
         \/ UNCHANGED <<db, mem, run>> /\ (proc' = proc \/ proc' = "dead")
<1>1. ASSUME SaveItemsFails \/ RequestEnds \/ DisconnectDrive \/ CountItemRefused \/ SaveThrows
             \/ Crash
      PROVE  UNCHANGED <<db, mem, run>> /\ (proc' = proc \/ proc' = "dead")
  BY <1>1 DEF SaveItemsFails, RequestEnds, DisconnectDrive, CountItemRefused, SaveThrows, Crash
<1>2. QED
  BY <1>1, Decisions, Namings DEF Next, ProcessJob, ItemStep

----------------------------------------------------------------------------
(* The status of the job.                                                  *)

LEMMA StatusInit == Init => StatusInv
  BY DEF Init, StatusInv, Working, Body

LEMMA StatusStep == ITypeOK /\ CatalogInv /\ StatusInv /\ [Next]_vars => StatusInv'
<1> SUFFICES ASSUME ITypeOK, CatalogInv, StatusInv, [Next]_vars PROVE StatusInv'
  OBVIOUS
<1>0. /\ db \in Job /\ mem \in Job
      /\ DOMAIN db.items = 1..Len(db.items) /\ DOMAIN mem.items = 1..Len(mem.items)
      /\ proc \in Working => Len(mem.items) = Len(db.items)
  <2>1. db \in Job /\ mem \in Job
    BY DEF ITypeOK, TypeOK
  <2>2. proc \in Working => Len(mem.items) = Len(db.items)
    BY DEF ITypeOK, Shape, Working
  <2>3. QED
    BY <2>1, <2>2, JobTyping
<1> USE DEF ItemsOf, Working, Body
\* What is saved as it is tracked.
<1>1. ASSUME db' = mem', proc' \in {"done", "reset"},
             proc' = "reset" => mem'.status = "RetryFails" /\ run' = 1
      PROVE  StatusInv'
  BY <1>1 DEF StatusInv
<1>2. CASE UNCHANGED <<db, mem, run>> /\ (proc' = proc \/ proc' = "dead")
  BY <1>2 DEF StatusInv
<1>3. CASE SaveJob
  BY <1>3 DEF SaveJob, StatusInv, ITypeOK, Shape
<1>4. CASE SaveItems
  <2>1. db' = [db EXCEPT !.items = [i \in 1..db.total |-> NewItem]] /\ db.total \in Nat
    BY <1>0, <1>4, JobTyping DEF SaveItems
  <2>2. db'.items = [i \in 1..db.total |-> NewItem]
    BY <1>0, <2>1, JobFields
  <2>3. \A i \in DOMAIN db'.items : db'.items[i].status = "Pending"
    BY <2>2 DEF NewItem
  <2>4. QED
    BY <1>4, <2>3 DEF SaveItems, StatusInv
<1>5. CASE Load
  <2>1. mem'.items = db.items /\ mem'.status = "Running" /\ db' = mem'
    BY <1>0, <1>5, JobFields DEF Load
  <2>2. \A i \in DOMAIN db'.items : db'.items[i].status = "Pending"
    BY <1>5, <2>1 DEF Load, StatusInv
  <2>3. QED
    BY <1>5, <2>1, <2>2 DEF Load, StatusInv
<1>6. CASE LookupIntegration
  BY <1>6 DEF LookupIntegration, StatusInv
<1>7. CASE IntegrationMissing
  BY <1>1, <1>7 DEF IntegrationMissing
<1>8. ASSUME NEW i \in 1..MaxFiles, FetchFile(i) PROVE StatusInv'
  BY <1>8 DEF FetchFile, Fetch, StatusInv
<1>9. CASE Decision
  <2>1. PICK i \in DOMAIN mem.items, s \in {"Success", "Failed"} :
          mem.items[i].status = "Pending" /\ Decides(mem', mem, i, s)
    BY <1>9 DEF Decision
  <2>2. \A m \in DOMAIN db'.items :
          db'.items[m].status # "Pending" => mem'.items[m].status = db'.items[m].status
    BY <1>0, <1>9, <2>1 DEF Decision, Decides, StatusInv
  <2>3. mem'.status = db'.status
    BY <1>9, <2>1 DEF Decision, Decides, StatusInv
  <2>4. QED
    BY <1>9, <2>2, <2>3 DEF Decision, StatusInv
<1>10. CASE Naming
  <2>1. PICK i \in DOMAIN mem.items : Decides(mem', mem, i, mem.items[i].status)
    BY <1>10 DEF Naming
  <2>2. /\ \A m \in DOMAIN mem.items : mem'.items[m].status = mem.items[m].status
        /\ mem'.status = mem.status
    BY <1>0, <2>1 DEF Decides
  <2>3. \A m \in DOMAIN db'.items :
          db'.items[m].status # "Pending" => mem'.items[m].status = db'.items[m].status
    BY <1>0, <1>10, <2>2 DEF Naming, StatusInv
  <2>4. mem'.status = db'.status /\ db'.status = db.status
    BY <1>10, <2>2 DEF Naming, StatusInv
  <2>5. QED
    BY <1>10, <2>3, <2>4 DEF Naming, StatusInv
<1>11. CASE CountItem
  <2>1. mem'.items = mem.items /\ mem'.status = mem.status /\ db' = mem'
    BY <1>0, <1>11, JobFields DEF CountItem
  <2>2. QED
    BY <1>11, <2>1 DEF CountItem, StatusInv
<1>12. CASE FirstRunEnds \/ SecondRunEnds
  BY <1>1, <1>12 DEF FirstRunEnds, SecondRunEnds, Save
<1>13. CASE RetryFails
  <2>1. mem'.status = "RetryFails" /\ db' = mem'
    BY <1>0, <1>13, JobFields DEF RetryFails, Save
  <2>2. QED
    BY <1>1, <1>13, <2>1 DEF RetryFails, Save
<1>14. CASE ResetFailed
  <2>1. db' = mem' /\ mem'.status = mem.status
    BY <1>0, <1>14, RequeuedFields DEF ResetFailed
  <2>2. QED
    BY <1>14, <2>1 DEF ResetFailed, StatusInv
<1>15. CASE UNCHANGED vars
  BY <1>15 DEF vars, StatusInv
<1>16. QED
  BY <1>2, <1>3, <1>4, <1>5, <1>6, <1>7, <1>8, <1>9, <1>10, <1>11, <1>12, <1>13, <1>14, <1>15,
     StepKinds

----------------------------------------------------------------------------
(* What the owner is promised.                                             *)

Outcomes(j) == [i \in DOMAIN j.items |-> j.items[i].status]

\* The outcomes of a job that extends another.
LEMMA ExtendedOutcomes ==
  ASSUME NEW j \in Job, NEW k \in Job, Len(k.items) = Len(j.items),
         \A m \in DOMAIN j.items :
           j.items[m].status # "Pending" => k.items[m].status = j.items[m].status
  PROVE  Promise!Extends(Outcomes(k), Outcomes(j))
<1>1. /\ DOMAIN k.items = DOMAIN j.items /\ DOMAIN j.items = 1..Len(j.items)
      /\ \A m \in DOMAIN k.items : k.items[m].status \in ItemStatus
  BY JobTyping
<1>2. Outcomes(k) \in [DOMAIN Outcomes(j) -> Promise!Outcome]
  BY <1>1 DEF Outcomes, Promise!Outcome, ItemStatus
<1>3. \A m \in DOMAIN Outcomes(j) :
        Outcomes(j)[m] # "Pending" => Outcomes(k)[m] = Outcomes(j)[m]
  BY <1>1 DEF Outcomes
<1>4. QED
  BY <1>2, <1>3 DEF Promise!Extends

LEMMA OutcomesOf ==
  ASSUME NEW j
  PROVE  /\ \A s : Promise!All(Outcomes(j), s) <=> All(j, s)
         /\ Promise!Decided(Outcomes(j)) <=> Having(j, "Pending") = {}
  BY DEF Promise!All, Promise!Decided, Outcomes, All, Having, ItemsOf

\* A step that shows what the tracked job has come to, and ends nothing.
LEMMA PromisedProgress ==
  ASSUME db \in Job, db' \in Job, Len(db'.items) = Len(db.items),
         \A m \in DOMAIN db.items :
           db.items[m].status # "Pending" => db'.items[m].status = db.items[m].status,
         db.status = "Running" \/ (db.status = "RetryFails" /\ run = 2),
         db'.status = db.status, run' = run
  PROVE  Promise!Progress
<1>1. Promise!Extends(Outcomes(db'), Outcomes(db))
  BY ExtendedOutcomes
<1>2. QED
  BY <1>1 DEF Promise!Progress, Outcomes

\* A step that ends the job, or its first run.
LEMMA PromisedEnd ==
  ASSUME db \in Job, NEW k \in Job, k = db', Len(k.items) = Len(db.items),
         \A m \in DOMAIN db.items :
           db.items[m].status # "Pending" => k.items[m].status = db.items[m].status,
         Having(k, "Pending") = {}, run' = run,
         \/ /\ db.status = "Running" \/ (db.status = "RetryFails" /\ run = 2)
            /\ k.status = IF All(k, "Success") THEN "Completed"
                          ELSE IF run = 2 THEN "CompletedWithErrors" ELSE "Failed"
            /\ k.status = "Failed" => All(k, "Failed")
         \/ /\ db.status = "Running" /\ k.status = "RetryFails"
            /\ ~ All(k, "Success") /\ ~ All(k, "Failed")
  PROVE  Promise!Finish \/ Promise!Retry
<1>1. PICK o, p : o = Outcomes(db) /\ p = Outcomes(k)
  OBVIOUS
<1>2. Promise!Extends(p, o)
  BY <1>1, ExtendedOutcomes
<1>3. /\ Promise!Decided(p)
      /\ Promise!All(p, "Success") <=> All(k, "Success")
      /\ Promise!All(p, "Failed") <=> All(k, "Failed")
  BY <1>1, OutcomesOf
<1>4. /\ o = [i \in DOMAIN db.items |-> db.items[i].status]
      /\ p = [i \in DOMAIN db'.items |-> db'.items[i].status]
  BY <1>1 DEF Outcomes
<1>5. QED
  BY <1>2, <1>3, <1>4 DEF Promise!Finish, Promise!Retry

LEMMA PromiseInit == Init => Promise!Init
<1> SUFFICES ASSUME Init PROVE Promise!Init
  OBVIOUS
<1>1. db.status = "None" /\ db.items = <<>> /\ run = 0
  BY NewJobType DEF Init
<1>2. [i \in DOMAIN db.items |-> db.items[i].status] = <<>>
  BY <1>1
<1>3. QED
  BY <1>1, <1>2 DEF Promise!Init

LEMMA PromiseStep ==
  ITypeOK /\ ITypeOK' /\ CatalogInv /\ StatusInv /\ [Next]_vars => [Promise!Next]_(Promise!vars)
<1> SUFFICES ASSUME ITypeOK, ITypeOK', CatalogInv, StatusInv, [Next]_vars
             PROVE  [Promise!Next]_(Promise!vars)
  OBVIOUS
<1>0. /\ db \in Job /\ mem \in Job /\ db' \in Job /\ mem' \in Job
      /\ DOMAIN db.items = 1..Len(db.items) /\ DOMAIN mem.items = 1..Len(mem.items)
      /\ proc \in Working => /\ Len(mem.items) = Len(db.items) /\ Len(db.items) \in 1..MaxFiles
                             /\ \A m \in DOMAIN db.items : db.items[m].status # "Pending" =>
                                  mem.items[m].status = db.items[m].status
  <2>1. db \in Job /\ mem \in Job /\ db' \in Job /\ mem' \in Job
    BY DEF ITypeOK, TypeOK
  <2>2. proc \in Working => Len(mem.items) = Len(db.items) /\ Len(db.items) \in 1..MaxFiles
    BY DEF ITypeOK, Shape, Working
  <2>3. QED
    BY <2>1, <2>2, JobTyping DEF StatusInv, ItemsOf
<1>1. ASSUME db' = db, (run' = 2) <=> (run = 2) PROVE [Promise!Next]_(Promise!vars)
  <2>1. UNCHANGED Promise!vars
    BY <1>1 DEF Promise!vars
  <2>2. QED
    BY <2>1
<1>2. CASE UNCHANGED vars
  BY <1>1, <1>2 DEF vars
<1>3. CASE SaveJob
  <2>1. db.status = "None" /\ db.items = <<>> /\ run' = run
    BY <1>3 DEF SaveJob, ITypeOK, Shape
  <2>2. db'.status = "Pending" /\ db'.items = <<>>
    BY <1>3 DEF SaveJob, NewJob
  <2>3. Promise!Submit
    BY <2>1, <2>2 DEF Promise!Submit
  <2>4. QED
    BY <2>3 DEF Promise!Next
<1>4. CASE SaveItems
  <2>1. /\ db.status = "Pending" /\ db.items = <<>> /\ run' = run /\ db.total \in 1..MaxFiles
    BY <1>4 DEF SaveItems, ITypeOK, Shape
  <2>2. db' = [db EXCEPT !.items = [i \in 1..db.total |-> NewItem]]
    BY <1>4 DEF SaveItems
  <2>3. db'.items = [i \in 1..db.total |-> NewItem] /\ db'.status = db.status
    BY <1>0, <2>2, JobFields
  <2>4. [i \in DOMAIN db'.items |-> db'.items[i].status] = [i \in 1..db.total |-> "Pending"]
    BY <2>3 DEF NewItem
  <2>5. [i \in DOMAIN db.items |-> db.items[i].status] = <<>>
    BY <2>1
  <2>6. Promise!AddFiles
    BY <2>1, <2>3, <2>4, <2>5 DEF Promise!AddFiles
  <2>7. QED
    BY <2>6 DEF Promise!Next
<1>5. CASE Load
  <2>1. mem'.items = db.items /\ mem'.status = "Running" /\ db' = mem' /\ run' = run
    BY <1>0, <1>5, JobFields DEF Load
  <2>2. db.status = "Pending" /\ Len(db.items) \in 1..MaxFiles
    BY <1>5 DEF Load, ITypeOK, Shape
  <2>3. [i \in DOMAIN db.items |-> db.items[i].status] # <<>>
    <3>1. 1 \in DOMAIN db.items
      BY <1>0, <2>2
    <3>2. DOMAIN [i \in DOMAIN db.items |-> db.items[i].status] # DOMAIN <<>>
      BY <3>1
    <3>3. QED
      BY <3>2
  <2>4. Promise!Begin
    BY <2>1, <2>2, <2>3 DEF Promise!Begin
  <2>5. QED
    BY <2>4 DEF Promise!Next
<1>6. CASE LookupIntegration
  BY <1>1, <1>6 DEF LookupIntegration, ITypeOK, Shape
<1>7. CASE IntegrationMissing
  <2>1. /\ db.status = "Running" /\ run = 0 /\ run' = run /\ db' = FailAll(mem)
        /\ mem.items = db.items
        /\ \A m \in DOMAIN db.items : db.items[m].status = "Pending"
        /\ Len(mem.items) = Len(db.items) /\ Len(db.items) \in 1..MaxFiles
    BY <1>0, <1>7 DEF IntegrationMissing, StatusInv, ITypeOK, Shape, ItemsOf, Working
  <2>2. PICK k \in Job : k = FailAll(mem)
    BY <1>0, FailAllFields
  <2>3. /\ k.status = "Failed" /\ Len(k.items) = Len(db.items) /\ DOMAIN k.items = DOMAIN db.items
        /\ \A m \in DOMAIN k.items : k.items[m].status = "Failed"
    <3>1. /\ k.status = "Failed" /\ Len(k.items) = Len(mem.items)
          /\ \A m \in 1..Len(mem.items) : k.items[m].status =
               IF mem.items[m].status = "Pending" THEN "Failed" ELSE mem.items[m].status
      BY <1>0, <2>2, FailAllFields
    <3>2. DOMAIN k.items = 1..Len(k.items)
      BY <2>2, JobTyping
    <3>3. QED
      BY <1>0, <2>1, <3>1, <3>2
  <2>4. Having(k, "Pending") = {} /\ All(k, "Failed") /\ ~ All(k, "Success")
    <3>1. 1 \in DOMAIN k.items
      BY <1>0, <2>1, <2>3
    <3>2. QED
      BY <2>3, <3>1 DEF Having, All, ItemsOf
  <2>5. Promise!Finish \/ Promise!Retry
    BY <1>0, <2>1, <2>2, <2>3, <2>4, PromisedEnd
  <2>6. QED
    BY <2>5 DEF Promise!Next
<1>8. ASSUME NEW i \in 1..MaxFiles, FetchFile(i) PROVE [Promise!Next]_(Promise!vars)
  BY <1>1, <1>8 DEF FetchFile
<1>9. CASE Decision
  BY <1>1, <1>9 DEF Decision
\* A save in the body of the loop.
<1>10. ASSUME proc \in Body, run' = run, db'.items = mem.items, db'.status = mem.status
       PROVE  [Promise!Next]_(Promise!vars)
  <2>1. mem.status = db.status /\ (db.status = "Running" \/ (db.status = "RetryFails" /\ run = 2))
    BY <1>10 DEF StatusInv, Working, Body, ITypeOK, Shape
  <2>2. Promise!Progress
    BY <1>0, <1>10, <2>1, PromisedProgress DEF Working, Body
  <2>3. QED
    BY <2>2 DEF Promise!Next
<1>11. CASE Naming
  <2>1. CASE db' = db
    BY <1>1, <1>11, <2>1 DEF Naming
  <2>2. CASE db' = mem
    BY <1>10, <1>11, <2>2 DEF Naming, Body
  <2>3. QED
    BY <1>11, <2>1, <2>2 DEF Naming
<1>12. CASE CountItem
  <2>1. mem'.items = mem.items /\ mem'.status = mem.status /\ db' = mem'
    BY <1>0, <1>12, JobFields DEF CountItem
  <2>2. QED
    BY <1>10, <1>12, <2>1 DEF CountItem, Body
\* The ends of the runs.
<1>13. CASE FirstRunEnds \/ RetryFails \/ SecondRunEnds
  <2>1. /\ proc \in Working /\ Having(mem, "Pending") = {} /\ run' = run /\ run \in 1..2
        /\ db.status = IF run = 1 THEN "Running" ELSE "RetryFails"
    BY <1>13 DEF FirstRunEnds, RetryFails, SecondRunEnds, RunEnds, Save, Working, StatusInv,
       Body, ITypeOK, Shape
  <2>2. PICK st : /\ mem' = [mem EXCEPT !.status = st] /\ db' = mem'
                  /\ \/ /\ st = IF All(mem, "Success") THEN "Completed"
                                ELSE IF run = 2 THEN "CompletedWithErrors" ELSE "Failed"
                        /\ st = "Failed" => All(mem, "Failed")
                     \/ /\ run = 1 /\ st = "RetryFails"
                        /\ ~ All(mem, "Success") /\ ~ All(mem, "Failed")
    <3>1. CASE FirstRunEnds
      BY <3>1 DEF FirstRunEnds, Save
    <3>2. CASE RetryFails
      BY <3>2 DEF RetryFails, Save
    <3>3. CASE SecondRunEnds
      BY <3>3 DEF SecondRunEnds, Save
    <3>4. QED
      BY <1>13, <3>1, <3>2, <3>3
  <2>3. PICK k \in Job : k = db'
    BY <1>0
  <2>4. k.items = mem.items /\ k.status = st
    BY <1>0, <2>2, <2>3, JobFields
  <2>5. /\ Having(k, "Pending") = {}
        /\ \A s : All(k, s) <=> All(mem, s)
    BY <2>1, <2>4 DEF Having, All, ItemsOf
  <2>6. \/ /\ db.status = "Running" \/ (db.status = "RetryFails" /\ run = 2)
           /\ k.status = IF All(k, "Success") THEN "Completed"
                         ELSE IF run = 2 THEN "CompletedWithErrors" ELSE "Failed"
           /\ k.status = "Failed" => All(k, "Failed")
        \/ /\ db.status = "Running" /\ k.status = "RetryFails"
           /\ ~ All(k, "Success") /\ ~ All(k, "Failed")
    BY <2>1, <2>2, <2>4, <2>5
  <2>7. Promise!Finish \/ Promise!Retry
    BY <1>0, <2>1, <2>3, <2>4, <2>5, <2>6, PromisedEnd
  <2>8. QED
    BY <2>7 DEF Promise!Next
<1>14. CASE ResetFailed
  <2>1. /\ db.status = "RetryFails" /\ mem.status = db.status /\ run = 1 /\ run' = 2
        /\ mem.items = db.items /\ db' = Requeued(mem)
    BY <1>14 DEF ResetFailed, StatusInv, Working
  <2>2. /\ db'.status = db.status /\ Len(db'.items) = Len(db.items)
        /\ DOMAIN db'.items = DOMAIN db.items
        /\ \A m \in DOMAIN db.items : db'.items[m].status =
              IF db.items[m].status = "Failed" THEN "Pending" ELSE db.items[m].status
    BY <1>0, <2>1, RequeuedFields, JobTyping
  <2>3. PICK o, p : o = Outcomes(db) /\ p = Outcomes(db')
    OBVIOUS
  <2>4. p = [i \in DOMAIN o |-> IF o[i] = "Failed" THEN "Pending" ELSE o[i]]
    BY <2>2, <2>3 DEF Outcomes
  <2>5. /\ o = [i \in DOMAIN db.items |-> db.items[i].status]
        /\ p = [i \in DOMAIN db'.items |-> db'.items[i].status]
    BY <2>3 DEF Outcomes
  <2>6. Promise!Requeue
    BY <2>1, <2>2, <2>4, <2>5 DEF Promise!Requeue
  <2>7. QED
    BY <2>6 DEF Promise!Next
<1>15. CASE UNCHANGED <<db, mem, run>>
  BY <1>1, <1>15
<1>16. QED
  BY <1>2, <1>3, <1>4, <1>5, <1>6, <1>7, <1>8, <1>9, <1>11, <1>12, <1>13, <1>14, <1>15, StepKinds

(***************************************************************************)
(* What GetJobStatus shows of a job is a run of ImportJob: outcomes are    *)
(* only added, the failed items are put back once, and the final status is *)
(* the one that the outcomes call for, wherever the processor saves, fails *)
(* or stops.                                                               *)
(***************************************************************************)
THEOREM PromiseKept == Spec => ImplementsImportJob
  BY TypeInit, TypeStep, CatalogInit, CatalogStep, StatusInit, StatusStep, PromiseInit, PromiseStep,
     PTL DEF Spec, ImplementsImportJob, Promise!Spec

----------------------------------------------------------------------------
(* The count.                                                              *)

LEMMA CountInit == Init => CountInv
  BY NewJobType DEF Init, CountInv, Working

\* A pending item that is decided is one less.
LEMMA OneLess ==
  ASSUME NEW j \in Job, NEW k, NEW i \in DOMAIN j.items, NEW s \in {"Success", "Failed"},
         j.items[i].status = "Pending", Decides(k, j, i, s)
  PROVE  Undecided(k) + 1 = Undecided(j) /\ Undecided(k) \in Nat
<1>1. k \in Job /\ DOMAIN k.items = DOMAIN j.items /\ DOMAIN j.items = 1..Len(j.items)
  BY JobTyping DEF Decides
<1>2. Having(k, "Pending") = Having(j, "Pending") \ {i} /\ i \in Having(j, "Pending")
  BY <1>1 DEF Decides, Having, ItemsOf
<1>3. IsFiniteSet(Having(j, "Pending")) /\ Undecided(j) \in Nat /\ Undecided(k) \in Nat
  BY <1>1, HavingCount DEF Undecided
<1>4. PICK S : S = Having(j, "Pending")
  OBVIOUS
<1>5. Cardinality(S \ {i}) = Cardinality(S) - 1
  BY <1>2, <1>3, <1>4, FS_RemoveElement
<1>6. Undecided(j) = Cardinality(S) /\ Undecided(k) = Cardinality(S \ {i})
  BY <1>2, <1>4 DEF Undecided
<1>7. QED
  BY <1>3, <1>5, <1>6

LEMMA AsMany ==
  ASSUME NEW j, NEW k, DOMAIN k.items = DOMAIN j.items,
         \A m \in DOMAIN j.items : k.items[m].status = j.items[m].status
  PROVE  Undecided(k) = Undecided(j) /\ Having(k, "Pending") = Having(j, "Pending")
  BY DEF Undecided, Having, ItemsOf

LEMMA CountStep == ITypeOK /\ CatalogInv /\ CountInv /\ [Next]_vars => CountInv'
<1> SUFFICES ASSUME ITypeOK, CatalogInv, CountInv, [Next]_vars PROVE CountInv'
  OBVIOUS
<1>0. /\ db \in Job /\ mem \in Job
      /\ db.total \in Nat /\ db.processed \in Nat /\ mem.total \in Nat /\ mem.processed \in Nat
      /\ DOMAIN db.items = 1..Len(db.items) /\ DOMAIN mem.items = 1..Len(mem.items)
      /\ Undecided(mem) \in Nat /\ Undecided(mem) <= Len(mem.items)
      /\ proc \in Working => Len(mem.items) = mem.total
  <2>1. db \in Job /\ mem \in Job
    BY DEF ITypeOK, TypeOK
  <2>2. proc \in Working => Len(mem.items) = mem.total
    BY DEF ITypeOK, Shape, Working
  <2>3. QED
    BY <2>1, <2>2, JobTyping, HavingCount DEF Undecided
<1> USE DEF Working
<1>1. CASE UNCHANGED <<db, mem, run>> /\ (proc' = proc \/ proc' = "dead")
  BY <1>1 DEF CountInv, Undecided
<1>2. CASE SaveJob
  <2>1. PICK n \in 1..MaxFiles : db' = NewJob(n)
    BY <1>2 DEF SaveJob
  <2>2. db'.processed = 0 /\ db'.total = n
    BY <2>1 DEF NewJob
  <2>3. proc' = "off"
    BY <1>2 DEF SaveJob, ITypeOK, Shape
  <2>4. QED
    BY <2>1, <2>2, <2>3 DEF CountInv
<1>3. CASE SaveItems
  <2>1. db' = [db EXCEPT !.items = [i \in 1..db.total |-> NewItem]] /\ proc' = "load"
    BY <1>3 DEF SaveItems
  <2>2. db'.processed = db.processed /\ db'.total = db.total
    BY <1>0, <2>1, JobFields
  <2>3. QED
    BY <2>1, <2>2 DEF CountInv
<1>4. CASE Load
  <2>1. PICK k \in Job : k = mem'
    <3>1. ITypeOK'
      BY TypeStep
    <3>2. QED
      BY <3>1 DEF ITypeOK, TypeOK
  <2>2. /\ k.processed = db.processed /\ k.total = db.total /\ k.items = db.items
        /\ db' = k /\ mem' = k
    BY <1>0, <1>4, <2>1, JobFields DEF Load
  <2>3. db.processed = 0 /\ Len(db.items) = db.total
    BY <1>4 DEF Load, ITypeOK, Shape
  <2>4. Undecided(k) <= k.total /\ Undecided(k) \in Nat
    BY <2>1, <2>2, <2>3, HavingCount DEF Undecided
  <2>5. Undecided(mem)' = Undecided(k)
    BY <2>2 DEF Undecided, Having, ItemsOf
  <2>6. QED
    BY <1>0, <1>4, <2>2, <2>3, <2>4, <2>5 DEF CountInv, Load
<1>5. CASE LookupIntegration
  BY <1>5 DEF LookupIntegration, CountInv, Undecided
<1>6. ASSUME mem'.processed = mem.processed, mem'.total = mem.total, db' = mem', proc \in Working,
             proc' = "done" \/ (proc' = "reset" /\ Having(mem', "Pending") = {})
      PROVE  CountInv'
  BY <1>0, <1>6 DEF CountInv, Having
<1>7. CASE IntegrationMissing
  BY <1>0, <1>6, <1>7, FailAllFields DEF IntegrationMissing
<1>8. ASSUME NEW i \in 1..MaxFiles, FetchFile(i) PROVE CountInv'
  BY <1>8 DEF FetchFile, Fetch, CountInv, Undecided
<1>9. CASE Decision
  <2>1. PICK i \in DOMAIN mem.items, s \in {"Success", "Failed"} :
          mem.items[i].status = "Pending" /\ Decides(mem', mem, i, s)
    BY <1>9 DEF Decision
  <2>2. PICK k : k = mem'
    OBVIOUS
  <2>3. Undecided(k) + 1 = Undecided(mem) /\ Undecided(k) \in Nat
    BY <1>0, <2>1, <2>2, OneLess
  <2>4. Undecided(mem)' = Undecided(k)
    BY <2>2 DEF Undecided, Having, ItemsOf
  <2>5. k.processed = mem.processed /\ k.total = mem.total
    BY <2>1, <2>2 DEF Decides
  <2>6. QED
    BY <1>0, <1>9, <2>2, <2>3, <2>4, <2>5 DEF Decision, CountInv
<1>10. CASE Naming
  <2>1. PICK i \in DOMAIN mem.items : Decides(mem', mem, i, mem.items[i].status)
    BY <1>10 DEF Naming
  <2>2. PICK k : k = mem'
    OBVIOUS
  <2>3. /\ k.processed = mem.processed /\ k.total = mem.total
        /\ DOMAIN k.items = DOMAIN mem.items
        /\ \A m \in DOMAIN mem.items : k.items[m].status = mem.items[m].status
    BY <1>0, <2>1, <2>2, JobTyping DEF Decides
  <2>4. Undecided(k) = Undecided(mem)
    BY <2>3, AsMany
  <2>5. Undecided(mem)' = Undecided(k)
    BY <2>2 DEF Undecided, Having, ItemsOf
  <2>6. QED
    BY <1>0, <1>10, <2>2, <2>3, <2>4, <2>5 DEF Naming, CountInv
<1>11. CASE CountItem
  <2>1. mem' = [mem EXCEPT !.processed = mem.processed + 1]
    BY <1>11 DEF CountItem
  <2>2. /\ mem'.items = mem.items /\ mem'.total = mem.total /\ mem'.processed = mem.processed + 1
        /\ db' = mem' /\ proc = "count" /\ proc' = "fetch"
    BY <1>0, <1>11, <2>1, JobFields DEF CountItem
  <2>3. Undecided(mem)' = Undecided(mem)
    BY <2>2 DEF Undecided, Having, ItemsOf
  <2>4. QED
    BY <1>0, <2>2, <2>3 DEF CountInv
<1>12. CASE FirstRunEnds \/ RetryFails \/ SecondRunEnds
  <2>1. PICK st : mem' = [mem EXCEPT !.status = st]
    BY <1>12 DEF FirstRunEnds, RetryFails, SecondRunEnds, Save
  <2>2. mem'.items = mem.items /\ mem'.total = mem.total /\ mem'.processed = mem.processed
    BY <1>0, <2>1, JobFields
  <2>3. /\ db' = mem' /\ proc \in Working /\ proc' \in {"done", "reset"}
        /\ Having(mem, "Pending") = {}
    BY <1>12 DEF FirstRunEnds, RetryFails, SecondRunEnds, Save, RunEnds
  <2>4. Having(mem', "Pending") = {}
    BY <2>2, <2>3 DEF Having, ItemsOf
  <2>5. QED
    BY <1>6, <2>2, <2>3, <2>4
\* The items put back are the failed ones, and none was pending.
<1>13. CASE ResetFailed
  <2>1. PICK k \in Job : k = Requeued(mem)
    BY <1>0, RequeuedFields
  <2>2. /\ k.processed = Uncounted(mem) /\ k.total = mem.total
        /\ DOMAIN k.items = DOMAIN mem.items
        /\ \A m \in DOMAIN mem.items : k.items[m].status =
              IF mem.items[m].status = "Failed" THEN "Pending" ELSE mem.items[m].status
    BY <1>0, <2>1, RequeuedFields, JobTyping
  <2>3. Having(mem, "Pending") = {} /\ proc' = "fetch" /\ db' = k /\ mem' = k
        /\ mem.processed <= mem.total /\ Len(mem.items) = mem.total
    BY <1>0, <1>13, <2>1 DEF ResetFailed, CountInv
  <2>4. Having(k, "Pending") = Having(mem, "Failed")
    BY <2>2, <2>3 DEF Having, ItemsOf
  <2>5. PICK n \in Nat : n = Cardinality(Having(mem, "Failed")) /\ n <= Len(mem.items)
    BY <1>0, HavingCount
  <2>6. k.processed + n <= k.total /\ k.processed <= k.total
    BY <1>0, <2>2, <2>3, <2>5 DEF Uncounted
  <2>7. Undecided(mem)' = n
    BY <2>3, <2>4, <2>5 DEF Undecided, Having, ItemsOf
  <2>8. QED
    BY <2>3, <2>6, <2>7 DEF CountInv
<1>14. CASE UNCHANGED vars
  BY <1>14 DEF vars, CountInv, Undecided
<1>15. QED
  BY <1>1, <1>2, <1>3, <1>4, <1>5, <1>7, <1>8, <1>9, <1>10, <1>11, <1>12, <1>13, <1>14, StepKinds

(***************************************************************************)
(* The count that the owner is shown never passes the number of files: an  *)
(* item is counted at most once in a run, and the items that are put back  *)
(* are taken off before.  Nor does it fall below zero.                     *)
(***************************************************************************)
THEOREM CountIsBounded == Spec => []CountWithinTotal
<1>1. ITypeOK /\ CountInv => CountWithinTotal
  BY SMT DEF CountInv, CountWithinTotal, ITypeOK, TypeOK, Job
<1>2. QED
  BY <1>1, TypeInit, TypeStep, CatalogInit, CatalogStep, CountInit, CountStep, PTL DEF Spec

----------------------------------------------------------------------------
(* One visible book of an item.                                            *)

\* A step that makes no book visible, and takes no item back.
LEMMA OnceFrame ==
  ASSUME OnceInv, unanswered \subseteq unanswered',
         \A b \in DOMAIN books' : books'[b].active =>
            b \in DOMAIN books /\ books[b].active /\ books'[b].item = books[b].item,
         \A i \in Having(mem, "Success") : i \in Having(mem', "Success")
  PROVE  OnceInv'
<1>1. ASSUME NEW b \in DOMAIN books', books'[b].active, books'[b].item \in 1..MaxFiles \ unanswered'
      PROVE  b \in DOMAIN books /\ Answered(b) /\ books'[b].item = books[b].item
  BY <1>1 DEF Answered
<1>2. ASSUME NEW b \in DOMAIN books', Answered(b)' PROVE books'[b].item \in Having(mem, "Success")'
  BY <1>1, <1>2 DEF OnceInv, Answered, Having, ItemsOf
<1>3. ASSUME NEW b \in DOMAIN books', NEW c \in DOMAIN books', Answered(b)', Answered(c)',
             books'[b].item = books'[c].item
      PROVE  b = c
  BY <1>1, <1>3 DEF OnceInv, Answered
<1>4. QED
  BY <1>2, <1>3 DEF OnceInv

\* A job that keeps what another has imported.
KeepsSuccess(k, j) == \A i \in Having(j, "Success") : i \in Having(k, "Success")

LEMMA KeptByDecision ==
  ASSUME NEW j \in Job, NEW k, NEW i \in DOMAIN j.items, NEW s,
         j.items[i].status = "Pending" \/ j.items[i].status = s, Decides(k, j, i, s)
  PROVE  KeepsSuccess(k, j)
<1>1. k \in Job /\ DOMAIN k.items = DOMAIN j.items /\ DOMAIN j.items = 1..Len(j.items)
  BY JobTyping DEF Decides
<1>2. QED
  BY <1>1 DEF Decides, KeepsSuccess, Having, ItemsOf

LEMMA KeptByRequeue ==
  ASSUME NEW j \in Job
  PROVE  KeepsSuccess(FailAll(j), j) /\ KeepsSuccess(Requeued(j), j)
<1>1. PICK k : k = FailAll(j)
  OBVIOUS
<1>2. PICK q : q = Requeued(j)
  OBVIOUS
<1>3. /\ DOMAIN k.items = DOMAIN j.items /\ DOMAIN q.items = DOMAIN j.items
      /\ DOMAIN j.items = 1..Len(j.items)
  BY <1>1, <1>2, FailAllFields, RequeuedFields, JobTyping
<1>4. \A m \in DOMAIN j.items :
        j.items[m].status = "Success" => k.items[m].status = "Success" /\ q.items[m].status = "Success"
  BY <1>1, <1>2, <1>3, FailAllFields, RequeuedFields
<1>5. QED
  BY <1>1, <1>2, <1>3, <1>4 DEF KeepsSuccess, Having, ItemsOf

LEMMA OnceStep == ITypeOK /\ CatalogInv /\ OnceInv /\ [Next]_vars => OnceInv'
<1> SUFFICES ASSUME ITypeOK, CatalogInv, OnceInv, [Next]_vars PROVE OnceInv'
  OBVIOUS
<1>0. /\ db \in Job /\ mem \in Job /\ books \in Seq(Book)
      /\ DOMAIN books = 1..Len(books) /\ Len(books) \in Nat
      /\ \A b \in DOMAIN books : books[b] \in Book
      /\ DOMAIN mem.items = 1..Len(mem.items)
      /\ proc \in Body => item \in DOMAIN mem.items /\ item \in Nat
  <2>1. db \in Job /\ mem \in Job /\ books \in Seq(Book)
    BY DEF ITypeOK, TypeOK
  <2>2. proc \in Body => item \in 1..Len(mem.items)
    BY DEF ITypeOK, Shape
  <2>3. QED
    BY <2>1, <2>2, JobTyping, StoreTyping DEF ITypeOK
\* Steps that leave the books alone.
<1>1. ASSUME UNCHANGED <<books, unanswered>>, KeepsSuccess(mem', mem) PROVE OnceInv'
  BY <1>1, OnceFrame DEF KeepsSuccess
<1>2. ASSUME UNCHANGED <<books, unanswered>>, mem'.items = mem.items PROVE OnceInv'
  BY <1>1, <1>2 DEF KeepsSuccess, Having, ItemsOf
\* Nothing is visible before the job is loaded.
<1>3. CASE Load
  <2>1. Having(mem, "Success") = {}
    BY <1>3 DEF Load, ITypeOK, Shape, Having, ItemsOf
  <2>2. QED
    BY <1>1, <1>3, <2>1 DEF Load, KeepsSuccess
<1>4. CASE SaveJob \/ SaveItems \/ SaveItemsFails \/ RequestEnds \/ DisconnectDrive
           \/ LookupIntegration \/ CountItemRefused \/ SaveThrows \/ Crash \/ UNCHANGED vars
  BY <1>2, <1>4 DEF SaveJob, SaveItems, SaveItemsFails, RequestEnds, DisconnectDrive,
     LookupIntegration, CountItemRefused, SaveThrows, Crash, vars
<1>5. ASSUME NEW i \in 1..MaxFiles, FetchFile(i) PROVE OnceInv'
  BY <1>2, <1>5 DEF FetchFile
<1>6. CASE CountItem
  <2>1. mem' = [mem EXCEPT !.processed = mem.processed + 1] /\ UNCHANGED <<books, unanswered>>
    BY <1>6 DEF CountItem
  <2>2. QED
    BY <1>0, <1>2, <2>1, JobFields
<1>7. CASE FirstRunEnds \/ RetryFails \/ SecondRunEnds
  <2>1. PICK st : mem' = [mem EXCEPT !.status = st] /\ UNCHANGED <<books, unanswered>>
    BY <1>7 DEF FirstRunEnds, RetryFails, SecondRunEnds, Save
  <2>2. QED
    BY <1>0, <1>2, <2>1, JobFields
<1>8. CASE IntegrationMissing \/ ResetFailed
  BY <1>0, <1>1, <1>8, KeptByRequeue DEF IntegrationMissing, ResetFailed
\* Steps that decide an item or name its rows keep what is imported.
<1>9. ASSUME Decision \/ Naming PROVE KeepsSuccess(mem', mem)
  <2>1. PICK i, s :
          /\ i \in DOMAIN mem.items
          /\ mem.items[i].status = "Pending" \/ mem.items[i].status = s
          /\ Decides(mem', mem, i, s)
    BY <1>9 DEF Decision, Naming
  <2>2. QED
    BY <1>0, <2>1, KeptByDecision
<1>10. ASSUME \/ \E i \in 1..MaxFiles : RejectFile(i) \/ FetchThrows(i)
              \/ PostBookFails \/ InsertFileFails \/ LinkBookFails \/ InsertFile
       PROVE  OnceInv'
  <2>1. KeepsSuccess(mem', mem)
    BY <1>9, <1>10, Decisions, Namings
  <2>2. UNCHANGED <<books, unanswered>>
    BY <1>10 DEF RejectFile, FetchThrows, PostBookFails, InsertFileFails, LinkBookFails, InsertFile
  <2>3. QED
    BY <1>1, <2>1, <2>2
\* ImportBook adds a book that is not visible.
<1>11. CASE PostBook \/ PostBookUnanswered \/ PostBookEmptyReply
  <2>1. KeepsSuccess(mem', mem)
    BY <1>9, <1>11, Decisions, Namings
  <2>2. /\ books' = Append(books, NewBook(item)) /\ item \in Nat
        /\ unanswered \subseteq unanswered'
    BY <1>0, <1>11 DEF PostBook, PostBookUnanswered, PostBookEmptyReply, Body
  <2>3. /\ DOMAIN books' = 1..(Len(books) + 1)
        /\ \A b \in 1..Len(books) : books'[b] = books[b]
        /\ ~ books'[Len(books) + 1].active
    <3>1. /\ books' \in Seq(Book) /\ Len(books') = Len(books) + 1
          /\ \A b \in 1..Len(books) : books'[b] = books[b]
          /\ books'[Len(books) + 1] = [item |-> item, file |-> NoId, active |-> FALSE]
      BY <1>0, <2>2, BookFields
    <3>2. DOMAIN books' = 1..(Len(books) + 1)
      BY <1>0, <3>1
    <3>3. QED
      BY <3>1, <3>2
  <2>4. QED
    <3>1. \A b \in DOMAIN books' : books'[b].active =>
             b \in DOMAIN books /\ books[b].active /\ books'[b].item = books[b].item
      BY <1>0, <2>3
    <3>2. QED
      BY <2>1, <2>2, <3>1, OnceFrame DEF KeepsSuccess
\* AttachFile shows the book of an item that was pending.
<1>12. ASSUME LinkBook \/ LinkBookUnanswered
       PROVE  /\ mem.items[item].status = "Pending" /\ item \in DOMAIN mem.items
              /\ DOMAIN books' = DOMAIN books
              /\ \A b \in DOMAIN books : books'[b].item = books[b].item
              /\ \E c \in DOMAIN books :
                   /\ books[c].item = item
                   /\ \A b \in DOMAIN books \ {c} : books'[b] = books[b]
  <2>1. PICK c, f : c = mem.items[item].book /\ f = mem.items[item].file
    OBVIOUS
  <2>2. /\ mem.items[item].status = "Pending" /\ item \in DOMAIN mem.items
        /\ c \in DOMAIN books /\ books[c].item = item /\ f \in DOMAIN files
    BY <1>0, <1>12, <2>1 DEF LinkBook, LinkBookUnanswered, Body, CatalogInv, InBody
  <2>3. books' = Attach(books, c, f)
    BY <1>12, <2>1 DEF LinkBook, LinkBookUnanswered, AttachItem
  <2>4. c \in 1..Len(books) /\ f \in Nat
    BY <1>0, <2>2, StoreTyping DEF ITypeOK
  <2>5. /\ books' \in Seq(Book) /\ Len(books') = Len(books)
        /\ books'[c].item = books[c].item
        /\ \A b \in 1..Len(books) : b # c => books'[b] = books[b]
    <3>1. books'[c] = [item |-> books[c].item, file |-> f, active |-> TRUE]
      BY <1>0, <2>3, <2>4, AttachFields
    <3>2. QED
      BY <1>0, <2>3, <2>4, <3>1, AttachFields
  <2>6. QED
    BY <1>0, <2>2, <2>5
<1>13. CASE LinkBookUnanswered
  <2>1. KeepsSuccess(mem', mem)
    BY <1>9, <1>13, Decisions
  <2>2. unanswered' = unanswered \cup {item}
    BY <1>13 DEF LinkBookUnanswered
  <2>3. ASSUME NEW b \in DOMAIN books', Answered(b)'
        PROVE  b \in DOMAIN books /\ Answered(b) /\ books'[b].item = books[b].item
    BY <1>12, <1>13, <2>2, <2>3 DEF Answered
  <2>4. ASSUME NEW b \in DOMAIN books', Answered(b)' PROVE books'[b].item \in Having(mem', "Success")
    BY <2>1, <2>3, <2>4 DEF OnceInv, KeepsSuccess
  <2>5. ASSUME NEW b \in DOMAIN books', NEW c \in DOMAIN books', Answered(b)', Answered(c)',
               books'[b].item = books'[c].item
        PROVE  b = c
    BY <2>3, <2>5 DEF OnceInv
  <2>6. QED
    BY <2>4, <2>5 DEF OnceInv, Having, ItemsOf
<1>14. CASE LinkBook
  <2>1. KeepsSuccess(mem', mem) /\ unanswered' = unanswered
    BY <1>9, <1>14, Decisions DEF LinkBook
  <2>2. item \in Having(mem', "Success") /\ item \notin Having(mem, "Success")
    <3>1. mem' = WithStatus(mem, item, "Success") /\ "Success" \in ItemStatus
      BY <1>14 DEF LinkBook, ItemStatus
    <3>2. Decides(mem', mem, item, "Success") /\ item \in DOMAIN mem.items
      BY <1>0, <1>12, <1>14, <3>1, DecidesByUpdate
    <3>3. mem'.items[item].status = "Success" /\ item \in DOMAIN mem'.items
      BY <1>0, <3>2, JobTyping DEF Decides
    <3>4. QED
      BY <1>12, <1>14, <3>3 DEF Having, ItemsOf
  <2>3. PICK c \in DOMAIN books :
          books[c].item = item /\ \A b \in DOMAIN books \ {c} : books'[b] = books[b]
    BY <1>12, <1>14
  <2>4. ASSUME NEW b \in DOMAIN books', Answered(b)', b # c
        PROVE  /\ b \in DOMAIN books /\ Answered(b) /\ books'[b].item = books[b].item
               /\ books[b].item # item
    <3>1. b \in DOMAIN books /\ Answered(b) /\ books'[b].item = books[b].item
      BY <1>12, <1>14, <2>1, <2>3, <2>4 DEF Answered
    <3>2. QED
      BY <2>2, <3>1 DEF OnceInv
  <2>5. books'[c].item = item
    BY <1>12, <1>14, <2>3
  <2>6. ASSUME NEW b \in DOMAIN books', Answered(b)' PROVE books'[b].item \in Having(mem', "Success")
    <3>1. CASE b = c
      BY <2>2, <2>5, <3>1
    <3>2. CASE b # c
      BY <2>1, <2>4, <2>6, <3>2 DEF OnceInv, KeepsSuccess
    <3>3. QED
      BY <3>1, <3>2
  <2>7. ASSUME NEW b \in DOMAIN books', NEW d \in DOMAIN books', Answered(b)', Answered(d)',
               books'[b].item = books'[d].item
        PROVE  b = d
    BY <2>4, <2>5, <2>7 DEF OnceInv
  <2>8. QED
    BY <2>6, <2>7 DEF OnceInv, Having, ItemsOf
<1>15. QED
  BY <1>3, <1>4, <1>5, <1>6, <1>7, <1>8, <1>10, <1>11, <1>13, <1>14 DEF Next, ProcessJob, ItemStep

(***************************************************************************)
(* The second run posts again what failed in the first, yet an item has    *)
(* one visible book at most, unless the reply to one of its calls was lost.*)
(***************************************************************************)
THEOREM ImportedOnce == Spec => []NoDuplicateWithoutLostReply
<1>1. Init => OnceInv
  BY DEF Init, OnceInv
<1>2. ITypeOK /\ OnceInv => NoDuplicateWithoutLostReply
  <2> SUFFICES ASSUME ITypeOK, OnceInv, NEW i \in 1..MaxFiles \ unanswered
               PROVE  Cardinality(VisibleBooksOf(i)) <= 1
    BY DEF NoDuplicateWithoutLostReply
  <2>1. \A b, c \in VisibleBooksOf(i) : b = c
    BY DEF OnceInv, Answered, VisibleBooksOf, BooksOf
  <2>2. CASE VisibleBooksOf(i) = {}
    BY <2>2, FS_EmptySet
  <2>3. CASE VisibleBooksOf(i) # {}
    <3>1. PICK b : VisibleBooksOf(i) = {b}
      BY <2>1, <2>3
    <3>2. QED
      BY <3>1, FS_Singleton
  <2>4. QED
    BY <2>2, <2>3
<1>3. QED
  BY <1>1, <1>2, TypeInit, TypeStep, CatalogInit, CatalogStep, OnceStep, PTL DEF Spec
=============================================================================
