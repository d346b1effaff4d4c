-------------------------- MODULE BookFiles_proofs --------------------------
(***************************************************************************)
(* Theorems about BookFiles, for every set of clients and any number of    *)
(* file rows, and their proofs: what a request refers to (ITypeOK), the    *)
(* active row and who may have seen it (OneInv), the undisturbed upload    *)
(* (SoleInv) and the copies of the book that are about to be saved         *)
(* (CopiesOK).  Each step replaces one request; the lemmas of the second   *)
(* part say by which.                                                      *)
(***************************************************************************)
EXTENDS BookFiles, SequenceTheorems, FiniteSetTheorems, TLAPS

----------------------------------------------------------------------------
(* The parts of the inductive invariant.                                   *)

\* What a request refers to, when there are n file rows.
Refers(q, n) ==
  /\ q.file \in 0..n /\ q.seen \in 0..n /\ q.copy.file \in 0..n
  /\ q.step \in {"erase", "retire"} => q.seen # 0
  /\ q.step = "duplicate" => q.file # 0

ITypeOK == TypeOK /\ \A c \in Clients : Refers(req[c], Len(files))

\* A request that changes files has seen the one row that is active, if any, and
\* nobody else changes files.
FilesOK ==
  /\ ~Racing
  /\ \A i, j \in Active : i = j
  /\ \A c \in Clients :
       /\ req[c].step \in {"erase", "retire", "duplicate"} => Active \subseteq {req[c].seen}
       /\ req[c].step = "add" => Active = {}

OneInv == ~raced => FilesOK

\* One client at most uploads undisturbed.
SoleInv ==
  /\ \A c, d \in sole : c = d
  /\ SoleUploadOpens

\* A copy that is no older than the restriction, or the deletion, of the book
\* carries it, unless the handler is one that sets the column.
CopyOK(c) ==
  At(c, "save") /\ c \notin stale =>
    /\ book.restricted => req[c].op = "flip" \/ req[c].copy.restricted
    /\ ~book.active => req[c].op = "attach" \/ ~req[c].copy.active

CopiesOK == \A c \in Clients : CopyOK(c)

----------------------------------------------------------------------------
(* Rows and requests.                                                      *)

Columnset == {"file", "active", "restricted"}

Now(c, q) == req' = [req EXCEPT ![c] = q]

\* The rows by their indices.
LEMMA Rows ==
  ASSUME TypeOK
  PROVE  /\ Len(files) \in Nat /\ DOMAIN files = 1..Len(files)
         /\ \A i \in DOMAIN files : files[i] \in File
         /\ \A c \in Clients : req[c] \in Request
         /\ Active \subseteq DOMAIN files
  <1>1. files \in Seq(File)
    BY DEF TypeOK
  <1>2. Len(files) \in Nat /\ DOMAIN files = 1..Len(files)
    BY <1>1
  <1>3. \A i \in DOMAIN files : files[i] \in File
    BY <1>1, <1>2, ElementOfSeq
  <1> QED BY <1>2, <1>3 DEF TypeOK, Active

\* A request that is replaced by another leaves the rest as they are.
LEMMA OneRequest ==
  ASSUME TypeOK, NEW c \in Clients, NEW q \in Request, Now(c, q)
  PROVE  /\ req' \in [Clients -> Request]
         /\ req'[c] = q
         /\ \A d \in Clients \ {c} : req'[d] = req[d]
  BY DEF TypeOK, Now

\* More rows do not hurt.
LEMMA RefersKept ==
  ASSUME NEW q \in Request, NEW n \in Nat, NEW m \in Nat, n <= m, Refers(q, n)
  PROVE  Refers(q, m)
  BY DEF Refers, Request, Book

\* The requests that begin, by what they say.
NewRequest(op, step, i, j) ==
  [op |-> op, step |-> step, file |-> i, seen |-> j, copy |-> NoBook, columns |-> {}]

LEMMA NewRequestFacts ==
  ASSUME NEW op \in Operation, NEW step \in Step, NEW i \in Nat, NEW j \in Nat
  PROVE  LET q == NewRequest(op, step, i, j)
         IN  /\ q \in Request /\ q.op = op /\ q.step = step /\ q.file = i /\ q.seen = j
             /\ q.copy.file = 0
  <1>1. NoBook \in Book /\ NoBook.file = 0
    BY DEF NoBook, Book
  <1> QED BY <1>1 DEF NewRequest, Request

LEMMA NewRequestForms ==
  ASSUME NEW op, NEW step, NEW i
  PROVE  /\ [Idle EXCEPT !.op = op, !.step = step] = NewRequest(op, step, 0, 0)
         /\ [Idle EXCEPT !.op = op, !.step = step, !.file = i] = NewRequest(op, step, i, 0)
  <1>1. PICK q : q = [Idle EXCEPT !.op = op]
    OBVIOUS
  <1>2. q = NewRequest(op, "idle", 0, 0)
    BY <1>1 DEF Idle, NewRequest
  <1>3. [q EXCEPT !.step = step] = NewRequest(op, step, 0, 0)
    BY <1>2 DEF NewRequest
  <1>4. PICK p : p = NewRequest(op, step, 0, 0)
    OBVIOUS
  <1>5. [p EXCEPT !.file = i] = NewRequest(op, step, i, 0)
    BY <1>4 DEF NewRequest
  <1> QED BY <1>1, <1>3, <1>4, <1>5

\* The same of an activation.
LEMMA NewActivation ==
  ASSUME NEW i, NEW j
  PROVE  [Idle EXCEPT !.op = "activate", !.step = "duplicate", !.file = i, !.seen = j]
           = NewRequest("activate", "duplicate", i, j)
  <1>1. PICK r : r = [Idle EXCEPT !.op = "activate", !.step = "duplicate", !.file = i]
    OBVIOUS
  <1>2. r = NewRequest("activate", "duplicate", i, 0)
    BY <1>1, NewRequestForms
  <1>3. [r EXCEPT !.seen = j] = NewRequest("activate", "duplicate", i, j)
    BY <1>2 DEF NewRequest
  <1> QED BY <1>1, <1>3

LEMMA IdleFacts == Idle \in Request /\ Idle.step = "idle" /\ \A n \in Nat : Refers(Idle, n)
  BY DEF Idle, Request, Book, NoBook, Operation, Step, Refers

\* A request that goes on.
MovedTo(q, step, j) == [q EXCEPT !.step = step, !.seen = j]

LEMMA MovedToFacts ==
  ASSUME NEW q \in Request, NEW step \in Step, NEW j \in Nat
  PROVE  LET p == MovedTo(q, step, j)
         IN  /\ p \in Request /\ p.step = step /\ p.seen = j
             /\ p.op = q.op /\ p.file = q.file /\ p.copy = q.copy
  BY DEF MovedTo, Request

Loaded(q, b, cols) == [q EXCEPT !.step = "save", !.copy = b, !.columns = cols]

LEMMA LoadedFacts ==
  ASSUME NEW q \in Request, NEW b \in Book, NEW cols \in SUBSET Columnset
  PROVE  LET p == Loaded(q, b, cols)
         IN  /\ p \in Request /\ p.step = "save" /\ p.copy = b /\ p.columns = cols
             /\ p.op = q.op /\ p.file = q.file /\ p.seen = q.seen
  BY DEF Loaded, Request, Step, Columnset

\* The file rows that a new one is added to.
LEMMA FileAdded ==
  ASSUME TypeOK, NEW x \in File, files' = Append(files, x)
  PROVE  /\ files' \in Seq(File) /\ Len(files') = Len(files) + 1
         /\ DOMAIN files' = 1..(Len(files) + 1)
         /\ files'[Len(files) + 1] = x
         /\ \A i \in DOMAIN files : files'[i] = files[i]
  <1>1. files \in Seq(File)
    BY DEF TypeOK
  <1>2. Len(files) \in Nat /\ DOMAIN files = 1..Len(files)
    BY <1>1
  <1> HIDE DEF File
  <1> QED BY <1>1, <1>2, AppendProperties

\* The file rows of which one is retired.
Retired(i) == [files EXCEPT ![i].active = FALSE]

LEMMA FileRetired ==
  ASSUME TypeOK, NEW i \in DOMAIN files, files' = Retired(i)
  PROVE  /\ files' \in Seq(File) /\ Len(files') = Len(files) /\ DOMAIN files' = DOMAIN files
         /\ \A j \in DOMAIN files \ {i} : files'[j] = files[j]
         /\ ~files'[i].active
         /\ Active' = Active \ {i}
  <1>1. files \in Seq(File) /\ i \in 1..Len(files) /\ files[i] \in File
    BY Rows DEF TypeOK
  <1> DEFINE x == [files[i] EXCEPT !.active = FALSE]
  <1>2. x \in File /\ ~x.active
    BY <1>1 DEF File
  <1>3. files' = [files EXCEPT ![i] = x]
    BY DEF Retired
  <1> HIDE DEF x
  <1>4. files' \in Seq(File) /\ Len(files') = Len(files)
    BY <1>1, <1>2, <1>3, ExceptSeq
  <1>5. DOMAIN files' = DOMAIN files
    BY <1>3
  <1>6. /\ \A j \in DOMAIN files \ {i} : files'[j] = files[j]
        /\ files'[i] = x
    BY <1>3
  <1>7. Active' = Active \ {i}
    BY <1>2, <1>5, <1>6 DEF Active
  <1> QED BY <1>2, <1>4, <1>5, <1>6, <1>7

----------------------------------------------------------------------------
(* What each step does to the request it belongs to.                       *)

LEMMA BeginUploadFacts ==
  ASSUME ITypeOK, NEW c \in Clients, BeginUpload(c)
  PROVE  \E q \in Request : /\ Now(c, q) /\ Refers(q, Len(files))
                            /\ q.op = "upload" /\ q.step = "find"
  <1>1. PICK q : q = NewRequest("upload", "find", 0, 0)
    OBVIOUS
  <1>2. q \in Request /\ q.op = "upload" /\ q.step = "find" /\ q.file = 0 /\ q.seen = 0 /\ q.copy.file = 0
    BY <1>1, NewRequestFacts DEF Operation, Step
  <1>3. Now(c, q)
    BY <1>1, NewRequestForms DEF BeginUpload, Begins, Now
  <1> QED BY <1>2, <1>3, Rows DEF Refers, ITypeOK

LEMMA FindExistingFacts ==
  ASSUME ITypeOK, NEW c \in Clients, FindExisting(c)
  PROVE  \E q \in Request : /\ Now(c, q) /\ Refers(q, Len(files)) /\ q.seen \in Found
                            /\ q.step = IF q.seen = 0 THEN "add" ELSE "erase"
  <1>1. PICK i \in Found : req' = [req EXCEPT ![c] = MovedTo(req[c], IF i = 0 THEN "add" ELSE "erase", i)]
    BY DEF FindExisting, Goes, MovedTo
  <1>2. PICK s : s = IF i = 0 THEN "add" ELSE "erase"
    OBVIOUS
  <1>3. PICK q : q = MovedTo(req[c], s, i)
    OBVIOUS
  <1>4. /\ i \in 0..Len(files) /\ s \in Step /\ req[c] \in Request /\ Refers(req[c], Len(files))
        /\ Len(files) \in Nat
    BY <1>2, Rows DEF ITypeOK, Found, Step
  <1>5. /\ q \in Request /\ q.step = s /\ q.seen = i
        /\ q.op = req[c].op /\ q.file = req[c].file /\ q.copy = req[c].copy
    BY <1>3, <1>4, MovedToFacts
  <1>6. Now(c, q)
    BY <1>1, <1>2, <1>3 DEF Now
  <1>7. Refers(q, Len(files))
    BY <1>2, <1>4, <1>5 DEF Refers
  <1> QED BY <1>2, <1>5, <1>6, <1>7

LEMMA EraseOldFacts ==
  ASSUME ITypeOK, NEW c \in Clients, EraseOld(c)
  PROVE  /\ \E q \in Request : /\ Now(c, q) /\ Refers(q, Len(files))
                               /\ q.step = "retire" /\ q.seen = req[c].seen
         /\ req[c].step = "erase"
  <1>1. PICK q : q = MovedTo(req[c], "retire", req[c].seen)
    OBVIOUS
  <1>2. req[c] \in Request /\ Refers(req[c], Len(files)) /\ "retire" \in Step /\ req[c].step = "erase"
    BY Rows DEF ITypeOK, Step, EraseOld, At
  <1>3. req[c].seen \in Nat
    BY <1>2 DEF Request
  <1>4. /\ q \in Request /\ q.step = "retire" /\ q.seen = req[c].seen
        /\ q.op = req[c].op /\ q.file = req[c].file /\ q.copy = req[c].copy
    BY <1>1, <1>2, <1>3, MovedToFacts
  <1>5. [req[c] EXCEPT !.step = "retire"] = q
    BY <1>1, <1>2 DEF MovedTo, Request
  <1>6. Now(c, q)
    BY <1>5 DEF EraseOld, Goes, Now
  <1>7. Refers(q, Len(files))
    BY <1>2, <1>4 DEF Refers
  <1> QED BY <1>2, <1>4, <1>6, <1>7

LEMMA RetireOldFacts ==
  ASSUME ITypeOK, NEW c \in Clients, RetireOld(c)
  PROVE  /\ \E q \in Request : Now(c, q) /\ Refers(q, Len(files)) /\ q.step = "add"
         /\ req[c].step = "retire" /\ req[c].seen \in DOMAIN files
         /\ files' = Retired(req[c].seen)
  <1>1. PICK q : q = MovedTo(req[c], "add", 0)
    OBVIOUS
  <1>2. /\ req[c] \in Request /\ Refers(req[c], Len(files)) /\ "add" \in Step /\ req[c].step = "retire"
        /\ Len(files) \in Nat /\ DOMAIN files = 1..Len(files)
    BY Rows DEF ITypeOK, Step, RetireOld, At
  <1>3. /\ q \in Request /\ q.step = "add" /\ q.seen = 0
        /\ q.op = req[c].op /\ q.file = req[c].file /\ q.copy = req[c].copy
    BY <1>1, <1>2, MovedToFacts
  <1>4. Now(c, q)
    BY <1>1 DEF RetireOld, Goes, Now, MovedTo
  <1>5. Refers(q, Len(files)) /\ req[c].seen \in DOMAIN files
    BY <1>2, <1>3 DEF Refers
  <1>6. files' = Retired(req[c].seen)
    BY DEF RetireOld, Retired
  <1> QED BY <1>2, <1>3, <1>4, <1>5, <1>6

LEMMA AddFileFacts ==
  ASSUME ITypeOK, NEW c \in Clients, AddFile(c)
  PROVE  /\ \E q \in Request :
              /\ Now(c, q) /\ Refers(q, Len(files) + 1)
              /\ q.op = "upload" /\ q.step = "load" /\ q.file = Len(files) + 1
         /\ req[c].step = "add"
         /\ files' = Append(files, [active |-> TRUE, object |-> Len(files) + 1])
  <1>1. PICK n \in Nat : n = Len(files) + 1
    BY Rows DEF ITypeOK
  <1>2. PICK q : q = NewRequest("upload", "load", n, 0)
    OBVIOUS
  <1>3. q \in Request /\ q.op = "upload" /\ q.step = "load" /\ q.file = n /\ q.seen = 0 /\ q.copy.file = 0
    <2>1. "upload" \in Operation /\ "load" \in Step /\ n \in Nat /\ 0 \in Nat
      BY <1>1 DEF Operation, Step
    <2> QED BY <1>2, <2>1, NewRequestFacts
  <1>4. [Idle EXCEPT !.op = "upload", !.step = "load", !.file = n] = q
    BY <1>2, NewRequestForms
  <1>5. Now(c, q)
    BY <1>1, <1>4 DEF AddFile, Goes, Now
  <1>6. Refers(q, n)
    BY <1>3 DEF Refers
  <1> QED BY <1>1, <1>3, <1>5, <1>6 DEF AddFile, At

LEMMA DeleteFileFacts ==
  ASSUME ITypeOK, NEW c \in Clients, DeleteFile(c)
  PROVE  /\ \E q \in Request : /\ Now(c, q) /\ Refers(q, Len(files))
                               /\ q.op = "remove" /\ q.step = "load"
         /\ \E i \in DOMAIN files : files' = Retired(i)
  <1>1. PICK q : q = NewRequest("remove", "load", 0, 0)
    OBVIOUS
  <1>2. q \in Request /\ q.op = "remove" /\ q.step = "load" /\ q.file = 0 /\ q.seen = 0 /\ q.copy.file = 0
    BY <1>1, NewRequestFacts DEF Operation, Step
  <1>3. Now(c, q)
    BY <1>1, NewRequestForms DEF DeleteFile, Begins, Now
  <1>4. \E i \in DOMAIN files : files' = Retired(i)
    BY DEF DeleteFile, Active, Retired
  <1>5. Refers(q, Len(files))
    BY <1>2, Rows DEF Refers, ITypeOK
  <1> QED BY <1>2, <1>3, <1>4, <1>5

LEMMA BeginActivateFacts ==
  ASSUME ITypeOK, NEW c \in Clients, BeginActivate(c)
  PROVE  \E q \in Request : /\ Now(c, q) /\ Refers(q, Len(files)) /\ q.op = "activate"
                            /\ q.step = "duplicate" /\ q.seen \in Found
  <1>0. \A i, j : [Idle EXCEPT !.op = "activate", !.step = "duplicate", !.file = i, !.seen = j]
                    = NewRequest("activate", "duplicate", i, j)
    BY NewActivation
  <1>1. PICK i \in DOMAIN files, j \in Found :
          Begins(c, [Idle EXCEPT !.op = "activate", !.step = "duplicate", !.file = i, !.seen = j])
    BY DEF BeginActivate
  <1>2. i \in 1..Len(files) /\ j \in 0..Len(files) /\ Len(files) \in Nat
    BY Rows DEF ITypeOK, Found
  <1>3. PICK q : q = NewRequest("activate", "duplicate", i, j)
    OBVIOUS
  <1>4. /\ q \in Request /\ q.op = "activate" /\ q.step = "duplicate" /\ q.file = i /\ q.seen = j
        /\ q.copy.file = 0
    <2>1. "activate" \in Operation /\ "duplicate" \in Step /\ i \in Nat /\ j \in Nat
      BY <1>2 DEF Operation, Step
    <2> QED BY <1>3, <2>1, NewRequestFacts
  <1>5. Now(c, q)
    BY <1>0, <1>1, <1>3 DEF Begins, Now
  <1>6. Refers(q, Len(files))
    BY <1>2, <1>4 DEF Refers
  <1> QED BY <1>4, <1>5, <1>6

\* The two parts of what an activation leaves of the rows.
BothRetired(q) == [i \in DOMAIN files |-> [files[i] EXCEPT !.active = @ /\ i \notin {q.file, q.seen}]]

ActiveCopy(i) == [files[i] EXCEPT !.active = TRUE]

LEMMA DuplicatedFiles ==
  ASSUME TypeOK, NEW q, q.file \in DOMAIN files,
         files' = Append(BothRetired(q), ActiveCopy(q.file))
  PROVE  /\ files' \in Seq(File) /\ Len(files') = Len(files) + 1
         /\ DOMAIN files' = 1..(Len(files) + 1)
         /\ Active' = (Active \ {q.file, q.seen}) \cup {Len(files) + 1}
  <1> DEFINE n == Len(files)
             fs == BothRetired(q)
             x == ActiveCopy(q.file)
  <1>1. n \in Nat /\ DOMAIN files = 1..n /\ \A i \in 1..n : files[i] \in File
    BY Rows
  <1>2. x \in File /\ x.active
    BY <1>1 DEF ActiveCopy, File
  <1>3. \A i \in 1..n : /\ fs[i] \in File
                        /\ fs[i].active <=> files[i].active /\ i \notin {q.file, q.seen}
    BY <1>1 DEF BothRetired, File
  <1>4. fs \in Seq(File) /\ Len(fs) = n
    <2>1. fs \in [1..n -> File]
      BY <1>1, <1>3 DEF BothRetired
    <2> HIDE DEF fs, n
    <2>2. fs \in Seq(File)
      BY <1>1, <2>1, SeqDef
    <2>3. DOMAIN fs = 1..n
      BY <2>1
    <2> QED BY <1>1, <2>2, <2>3
  <1>5. files' = Append(fs, x)
    OBVIOUS
  <1> HIDE DEF fs, x, n
  <1>6. /\ files' \in Seq(File) /\ Len(files') = n + 1 /\ DOMAIN files' = 1..(n + 1)
        /\ files'[n + 1] = x /\ \A i \in 1..n : files'[i] = fs[i]
    BY <1>1, <1>2, <1>4, <1>5, AppendProperties
  <1>7. Active' = (Active \ {q.file, q.seen}) \cup {n + 1}
    BY <1>1, <1>2, <1>3, <1>6 DEF Active
  <1> QED BY <1>6, <1>7 DEF n

LEMMA DuplicateFacts ==
  ASSUME ITypeOK, NEW c \in Clients, Duplicate(c)
  PROVE  /\ \E q \in Request :
              /\ Now(c, q) /\ Refers(q, Len(files) + 1)
              /\ q.op = "activate" /\ q.step = "load"
         /\ req[c].step = "duplicate" /\ req[c].file \in DOMAIN files
         /\ files' = Append(BothRetired(req[c]), ActiveCopy(req[c].file))
  <1>1. PICK n \in Nat : n = Len(files) + 1
    BY Rows DEF ITypeOK
  <1>2. PICK q : q = NewRequest("activate", "load", n, 0)
    OBVIOUS
  <1>3. q \in Request /\ q.op = "activate" /\ q.step = "load" /\ q.file = n /\ q.seen = 0 /\ q.copy.file = 0
    <2>1. "activate" \in Operation /\ "load" \in Step /\ n \in Nat /\ 0 \in Nat
      BY <1>1 DEF Operation, Step
    <2> QED BY <1>2, <2>1, NewRequestFacts
  <1>4. [Idle EXCEPT !.op = "activate", !.step = "load", !.file = n] = q
    BY <1>2, NewRequestForms
  <1>5. Now(c, q)
    BY <1>1, <1>4 DEF Duplicate, Goes, Now
  <1>6. Refers(q, n)
    BY <1>3 DEF Refers
  <1>7. req[c].step = "duplicate" /\ req[c].file \in DOMAIN files
    <2>1. req[c].step = "duplicate" /\ Refers(req[c], Len(files)) /\ req[c] \in Request
      BY Rows DEF Duplicate, At, ITypeOK
    <2> QED BY <2>1, Rows DEF Refers, ITypeOK
  <1> QED BY <1>1, <1>3, <1>5, <1>6, <1>7 DEF Duplicate, BothRetired, ActiveCopy

LEMMA BeginOnBookFacts ==
  ASSUME ITypeOK, NEW c \in Clients, BeginOnBook(c)
  PROVE  \E q \in Request : Now(c, q) /\ Refers(q, Len(files)) /\ q.step = "load" /\ q.op # "upload"
  <1>1. PICK op, i : /\ op \in {"edit", "remove", "flip", "supportLink"} /\ i \in 0..Len(files)
                    /\ req' = [req EXCEPT ![c] = NewRequest(op, "load", i, 0)]
    <2>1. \A op, i : /\ [Idle EXCEPT !.op = op, !.step = "load"] = NewRequest(op, "load", 0, 0)
                     /\ [Idle EXCEPT !.op = op, !.step = "load", !.file = i]
                          = NewRequest(op, "load", i, 0)
      BY NewRequestForms
    <2>2. Len(files) \in Nat /\ DOMAIN files = 1..Len(files)
      BY Rows DEF ITypeOK
    <2>3. CASE \E op \in {"edit", "remove", "flip"} : Begins(c, [Idle EXCEPT !.op = op, !.step = "load"])
      <3>1. PICK op \in {"edit", "remove", "flip"} : Begins(c, [Idle EXCEPT !.op = op, !.step = "load"])
        BY <2>3
      <3>2. req' = [req EXCEPT ![c] = NewRequest(op, "load", 0, 0)]
        BY <2>1, <3>1 DEF Begins
      <3>3. 0 \in 0..Len(files)
        BY <2>2
      <3> QED BY <3>2, <3>3
    <2>4. CASE \E i \in DOMAIN files :
                 Begins(c, [Idle EXCEPT !.op = "supportLink", !.step = "load", !.file = i])
      <3>1. PICK i \in DOMAIN files :
              Begins(c, [Idle EXCEPT !.op = "supportLink", !.step = "load", !.file = i])
        BY <2>4
      <3>2. req' = [req EXCEPT ![c] = NewRequest("supportLink", "load", i, 0)]
        BY <2>1, <3>1 DEF Begins
      <3>3. i \in 0..Len(files)
        BY <2>2
      <3> QED BY <3>2, <3>3
    <2> QED BY <2>3, <2>4 DEF BeginOnBook
  <1>2. PICK q : q = NewRequest(op, "load", i, 0)
    OBVIOUS
  <1>3. i \in Nat /\ Len(files) \in Nat
    BY <1>1, Rows DEF ITypeOK
  <1>4. q \in Request /\ q.op = op /\ q.step = "load" /\ q.file = i /\ q.seen = 0 /\ q.copy.file = 0
    <2>1. op \in Operation /\ "load" \in Step /\ i \in Nat /\ 0 \in Nat
      BY <1>1, <1>3 DEF Operation, Step
    <2> QED BY <1>2, <2>1, NewRequestFacts
  <1>5. Refers(q, Len(files))
    BY <1>1, <1>3, <1>4 DEF Refers
  <1> QED BY <1>1, <1>2, <1>4, <1>5 DEF Now

\* What a handler makes of the book.
LEMMA ChangedFacts ==
  ASSUME TypeOK, NEW op, NEW i \in Nat
  PROVE  /\ Changed(op, i) \in Book
         /\ Changed(op, i).file \in {book.file, i}
         /\ op # "flip" => Changed(op, i).restricted = book.restricted
         /\ Changed(op, i).active => book.active \/ op = "attach"
         /\ Columns(op, i) \in SUBSET Columnset
  <1>1. book \in Book
    BY DEF TypeOK
  <1>2. DOMAIN book = Columnset
    BY <1>1 DEF Book, Columnset
  <1>3. Columns(op, i) \in SUBSET Columnset
    BY <1>2 DEF Columns
  <1> QED BY <1>1, <1>3 DEF Changed, Book

LEMMA LoadBookFacts ==
  ASSUME ITypeOK, NEW c \in Clients, LoadBook(c)
  PROVE  /\ \E q \in Request :
              /\ Now(c, q) /\ Refers(q, Len(files)) /\ q.step = "save"
              /\ q.op = req[c].op /\ q.file = req[c].file
              /\ q.op # "flip" => q.copy.restricted = book.restricted
              /\ q.copy.active => book.active \/ q.op = "attach"
         /\ req[c].step = "load"
  <1>1. PICK op, i : op = req[c].op /\ i = req[c].file
    OBVIOUS
  <1>2. PICK b, cols : b = Changed(op, i) /\ cols = Columns(op, i)
    OBVIOUS
  <1>3. PICK q : q = Loaded(req[c], b, cols)
    OBVIOUS
  <1>4. /\ req[c] \in Request /\ Refers(req[c], Len(files)) /\ req[c].step = "load"
        /\ Len(files) \in Nat /\ book.file <= Len(files) /\ book.file \in Nat
    BY Rows DEF ITypeOK, TypeOK, Book, LoadBook, At
  <1>5. i \in Nat
    BY <1>1, <1>4 DEF Request
  <1>6. /\ b \in Book /\ b.file \in {book.file, i} /\ cols \in SUBSET Columnset
        /\ op # "flip" => b.restricted = book.restricted
        /\ b.active => book.active \/ op = "attach"
    BY <1>2, <1>5, ChangedFacts DEF ITypeOK
  <1>7. /\ q \in Request /\ q.step = "save" /\ q.copy = b /\ q.columns = cols
        /\ q.op = op /\ q.file = i /\ q.seen = req[c].seen
    <2> HIDE DEF Columnset
    <2> QED BY <1>1, <1>3, <1>4, <1>6, LoadedFacts
  <1>8. Now(c, q)
    BY <1>1, <1>2, <1>3 DEF LoadBook, Goes, Now, Loaded
  <1>9. Refers(q, Len(files))
    BY <1>1, <1>4, <1>6, <1>7 DEF Refers
  <1> QED BY <1>1, <1>4, <1>6, <1>7, <1>8, <1>9

LEMMA SaveBookFacts ==
  ASSUME ITypeOK, NEW c \in Clients, SaveBook(c)
  PROVE  /\ book' \in Book /\ book'.file \in {book.file, req[c].copy.file}
         /\ book'.active \in {book.active, req[c].copy.active}
         /\ Now(c, Idle) /\ req[c].step = "save"
  <1>1. book \in Book /\ req[c] \in Request
    BY Rows DEF ITypeOK, TypeOK
  <1>2. req[c].copy \in Book
    BY <1>1 DEF Request
  <1>3. DOMAIN book = {"file", "active", "restricted"}
    BY <1>1 DEF Book
  <1>4. PICK b, cols : b = req[c].copy /\ cols = req[c].columns
    OBVIOUS
  <1>5. book' = [k \in {"file", "active", "restricted"} |-> IF k \in cols THEN b[k] ELSE book[k]]
    BY <1>3, <1>4 DEF SaveBook
  <1>6. /\ book' \in Book /\ book'.file \in {book.file, b.file}
        /\ book'.active \in {book.active, b.active}
    BY <1>1, <1>2, <1>4, <1>5 DEF Book
  <1> QED BY <1>4, <1>6 DEF SaveBook, Ends, Now, At

----------------------------------------------------------------------------
(* Types.                                                                  *)

\* What is enough for a step of one request.
LEMMA KeepsTypes ==
  ASSUME ITypeOK, NEW c \in Clients, NEW q \in Request, Now(c, q), Refers(q, Len(files')),
         files' \in Seq(File), Len(files) <= Len(files'),
         book' \in Book, book'.file <= Len(files'), drive' \subseteq DOMAIN files',
         sole' \in {{}, {c}, sole \cap {c}}, raced' \in BOOLEAN, stale' \subseteq Clients
  PROVE  ITypeOK'
  <1>1. Len(files) \in Nat /\ Len(files') \in Nat
    BY Rows, LenProperties DEF ITypeOK
  <1>2. /\ req' \in [Clients -> Request]
        /\ req'[c] = q
        /\ \A d \in Clients \ {c} : req'[d] = req[d]
    BY OneRequest DEF ITypeOK
  <1>3. ASSUME NEW d \in Clients
        PROVE  Refers(req'[d], Len(files'))
    <2>1. CASE d = c
      BY <1>2, <2>1
    <2>2. CASE d # c
      <3>1. req'[d] = req[d] /\ req[d] \in Request /\ Refers(req[d], Len(files))
        BY <1>2, <2>2, Rows DEF ITypeOK
      <3> QED BY <1>1, <3>1, RefersKept
    <2> QED BY <2>1, <2>2
  <1>4. sole' \subseteq Clients
    BY DEF ITypeOK, TypeOK
  <1>5. TypeOK'
    BY <1>2, <1>4 DEF TypeOK
  <1> QED BY <1>3, <1>5 DEF ITypeOK

\* The history variables of every step.
LEMMA HistoryTypes ==
  ASSUME ITypeOK, Next
  PROVE  raced' \in BOOLEAN /\ stale' \subseteq Clients
  <1>1. stale \subseteq Clients /\ raced \in BOOLEAN
    BY DEF ITypeOK, TypeOK
  <1>2. raced' \in BOOLEAN
    BY <1>1 DEF Next
  <1>3. stale' = IF book'.active /\ ~book'.restricted THEN {}
                 ELSE {c \in IF Withdrawn THEN Clients ELSE stale : At(c, "save")'}
    BY DEF Next
  <1> QED BY <1>1, <1>2, <1>3

LEMMA TypeInit == Init => ITypeOK
  <1> SUFFICES ASSUME Init PROVE ITypeOK
    OBVIOUS
  <1>1. NoBook \in Book /\ NoBook.file = 0 /\ [file |-> 0, active |-> TRUE, restricted |-> FALSE] \in Book
    BY DEF NoBook, Book
  <1>2. CASE Handmade
    <2>1. files = <<>> /\ Len(files) = 0 /\ files \in Seq(File)
      BY <1>2 DEF Handmade
    <2>2. req \in [Clients -> Request] /\ \A c \in Clients : Refers(req[c], Len(files))
      BY <1>2, <2>1, IdleFacts DEF Handmade
    <2>3. book \in Book /\ book.file = 0
      BY <1>1, <1>2 DEF Handmade
    <2>4. drive = {} /\ sole = {} /\ raced \in BOOLEAN /\ stale = {}
      BY <1>2 DEF Handmade, Init
    <2>5. TypeOK
      BY <2>1, <2>2, <2>3, <2>4 DEF TypeOK
    <2> QED BY <2>2, <2>5 DEF ITypeOK
  <1>3. CASE Imported
    <2>1. [active |-> TRUE, object |-> 1] \in File
      BY DEF File
    <2>2. files \in Seq(File) /\ Len(files) = 1 /\ DOMAIN files = {1}
      BY <1>3, <2>1 DEF Imported
    <2>3. PICK b, r :
            /\ b \in Clients
            /\ r = [Idle EXCEPT !.op = "attach", !.step = "load", !.file = 1]
            /\ req = [c \in Clients |-> IF c = b THEN r ELSE Idle]
      BY <1>3 DEF Imported
    <2>4. r = NewRequest("attach", "load", 1, 0)
      BY <2>3, NewRequestForms
    <2>5. /\ r \in Request /\ r.file = 1 /\ r.seen = 0 /\ r.step = "load" /\ r.copy.file = 0
      <3>1. "attach" \in Operation /\ "load" \in Step /\ 1 \in Nat /\ 0 \in Nat
        BY DEF Operation, Step
      <3> QED BY <2>4, <3>1, NewRequestFacts
    <2>6. Refers(r, Len(files))
      BY <2>2, <2>5 DEF Refers
    <2>7. req \in [Clients -> Request] /\ \A c \in Clients : Refers(req[c], Len(files))
      BY <2>2, <2>3, <2>5, <2>6, IdleFacts
    <2>8. book \in Book /\ book.file = 0
      BY <1>1, <1>3 DEF Imported
    <2>9. drive = {1} /\ sole = {} /\ raced \in BOOLEAN /\ stale = {}
      BY <1>3 DEF Imported, Init
    <2>10. TypeOK
      BY <2>2, <2>7, <2>8, <2>9 DEF TypeOK
    <2> QED BY <2>7, <2>10 DEF ITypeOK
  <1> QED BY <1>2, <1>3 DEF Init

\* The new history of the undisturbed upload.
SoleMoves(c) == sole' \in {{}, {c}, sole \cap {c}}

LEMMA SoleMoved ==
  ASSUME NEW c \in Clients, ChangeFiles(c) \/ ChangeBook(c) \/ Fails(c)
  PROVE  SoleMoves(c)
  <1>1. ASSUME NEW q, Begins(c, q) PROVE SoleMoves(c)
    BY <1>1 DEF Begins, SoleMoves
  <1>2. ASSUME NEW q, Goes(c, q) PROVE SoleMoves(c)
    BY <1>2 DEF Goes, SoleMoves
  <1>3. ASSUME Ends(c) PROVE SoleMoves(c)
    BY <1>3 DEF Ends, SoleMoves
  <1>4. CASE ChangeFiles(c)
    BY <1>1, <1>2, <1>4 DEF ChangeFiles, Upload, BeginUpload, FindExisting, EraseOld, RetireOld,
         AddFile, DeleteFile, BeginActivate, Duplicate
  <1>5. CASE ChangeBook(c)
    BY <1>1, <1>2, <1>3, <1>5 DEF ChangeBook, BeginOnBook, LoadBook, SaveBook
  <1>6. CASE Fails(c)
    BY <1>3, <1>6 DEF Fails
  <1> QED BY <1>4, <1>5, <1>6

LEMMA TypeStep == ITypeOK /\ [Next]_vars => ITypeOK'
  <1> SUFFICES ASSUME ITypeOK, [Next]_vars PROVE ITypeOK'
    OBVIOUS
  <1>1. /\ book \in Book /\ book.file \in Nat /\ book.file <= Len(files) /\ Len(files) \in Nat
        /\ files \in Seq(File) /\ DOMAIN files = 1..Len(files) /\ drive \subseteq DOMAIN files
    BY Rows DEF ITypeOK, TypeOK, Book
  <1>2. CASE UNCHANGED vars
    BY <1>2 DEF ITypeOK, TypeOK, vars
  <1>3. CASE Next
    <2>1. raced' \in BOOLEAN /\ stale' \subseteq Clients
      BY <1>3, HistoryTypes
    <2>2. ASSUME NEW o \in drive, Vanish(o)
          PROVE  ITypeOK'
      <3>1. UNCHANGED <<book, files, req>> /\ drive' \subseteq DOMAIN files /\ sole' = {}
        BY <1>1, <2>2 DEF Vanish
      <3> QED BY <2>1, <3>1 DEF ITypeOK, TypeOK
    <2>3. ASSUME NEW c \in Clients, ChangeFiles(c) \/ ChangeBook(c) \/ Fails(c)
          PROVE  ITypeOK'
      <3>1. sole' \in {{}, {c}, sole \cap {c}}
        BY <2>3, SoleMoved DEF SoleMoves
      <3>2. ASSUME UNCHANGED <<book, files>>, drive' \subseteq DOMAIN files,
                   \E q \in Request : Now(c, q) /\ Refers(q, Len(files))
            PROVE  ITypeOK'
        BY <1>1, <2>1, <3>1, <3>2, KeepsTypes
      <3>3. CASE BeginUpload(c)
        BY <1>1, <3>2, <3>3, BeginUploadFacts DEF BeginUpload
      <3>4. CASE FindExisting(c)
        BY <1>1, <3>2, <3>4, FindExistingFacts DEF FindExisting
      <3>5. CASE EraseOld(c)
        BY <1>1, <3>2, <3>5, EraseOldFacts DEF EraseOld
      <3>6. CASE RetireOld(c)
        <4>1. /\ files' \in Seq(File) /\ Len(files') = Len(files)
              /\ DOMAIN files' = DOMAIN files
          BY <3>6, RetireOldFacts, FileRetired DEF ITypeOK
        <4>2. /\ book' = book /\ drive' = drive /\ Len(files) <= Len(files')
              /\ book'.file <= Len(files') /\ drive' \subseteq DOMAIN files'
          BY <1>1, <3>6, <4>1 DEF RetireOld
        <4>3. PICK q \in Request : Now(c, q) /\ Refers(q, Len(files'))
          BY <3>6, <4>1, RetireOldFacts
        <4> QED BY <1>1, <2>1, <3>1, <4>1, <4>2, <4>3, KeepsTypes
      <3>7. CASE AddFile(c)
        <4>1. [active |-> TRUE, object |-> Len(files) + 1] \in File
          BY <1>1 DEF File
        <4>2. /\ files' \in Seq(File) /\ Len(files') = Len(files) + 1
              /\ DOMAIN files' = 1..(Len(files) + 1)
          BY <3>7, <4>1, AddFileFacts, FileAdded DEF ITypeOK
        <4>3. book' = book /\ drive' = drive \cup {Len(files) + 1}
          BY <3>7 DEF AddFile
        <4>4. Len(files) <= Len(files') /\ book'.file <= Len(files') /\ drive' \subseteq DOMAIN files'
          BY <1>1, <4>2, <4>3
        <4> QED BY <1>1, <2>1, <3>1, <3>7, <4>2, <4>3, <4>4, AddFileFacts, KeepsTypes
      <3>8. CASE DeleteFile(c)
        <4>1. /\ files' \in Seq(File) /\ Len(files') = Len(files)
              /\ DOMAIN files' = DOMAIN files
          BY <3>8, DeleteFileFacts, FileRetired DEF ITypeOK
        <4>2. /\ book' = book /\ drive' = drive /\ Len(files) <= Len(files')
              /\ book'.file <= Len(files') /\ drive' \subseteq DOMAIN files'
          BY <1>1, <3>8, <4>1 DEF DeleteFile
        <4>3. PICK q \in Request : Now(c, q) /\ Refers(q, Len(files'))
          BY <3>8, <4>1, DeleteFileFacts
        <4> QED BY <1>1, <2>1, <3>1, <4>1, <4>2, <4>3, KeepsTypes
      <3>9. CASE BeginActivate(c)
        BY <1>1, <3>2, <3>9, BeginActivateFacts DEF BeginActivate
      <3>10. CASE Duplicate(c)
        <4>2. /\ files' \in Seq(File) /\ Len(files') = Len(files) + 1
              /\ DOMAIN files' = 1..(Len(files) + 1)
          BY <3>10, DuplicateFacts, DuplicatedFiles DEF ITypeOK
        <4>3. book' = book /\ drive' = drive
          BY <3>10 DEF Duplicate
        <4>4. Len(files) <= Len(files') /\ book'.file <= Len(files') /\ drive' \subseteq DOMAIN files'
          BY <1>1, <4>2, <4>3
        <4> QED BY <1>1, <2>1, <3>1, <3>10, <4>2, <4>3, <4>4, DuplicateFacts, KeepsTypes
      <3>11. CASE BeginOnBook(c)
        BY <1>1, <3>2, <3>11, BeginOnBookFacts DEF BeginOnBook
      <3>12. CASE LoadBook(c)
        BY <1>1, <3>2, <3>12, LoadBookFacts DEF LoadBook
      <3>13. CASE SaveBook(c)
        <4>1. UNCHANGED <<files, drive>>
          BY <3>13 DEF SaveBook
        <4>2. req[c].copy.file \in 0..Len(files)
          BY DEF ITypeOK, Refers
        <4>3. book' \in Book /\ book'.file <= Len(files)
          BY <1>1, <3>13, <4>2, SaveBookFacts
        <4> QED BY <1>1, <2>1, <3>1, <3>13, <4>1, <4>3, SaveBookFacts, IdleFacts, KeepsTypes
      <3>14. CASE Fails(c)
        BY <1>1, <3>2, <3>14, IdleFacts DEF Fails, Ends, Now
      <3> QED BY <2>3, <3>3, <3>4, <3>5, <3>6, <3>7, <3>8, <3>9, <3>10, <3>11, <3>12, <3>13, <3>14
            DEF ChangeFiles, Upload, ChangeBook
    <2> QED BY <1>3, <2>2, <2>3 DEF Next
  <1> QED BY <1>2, <1>3

\* The rows, the objects and the requests are what the handlers take them for: a
\* request refers to rows that exist, and one that erases, retires or duplicates
\* to a row indeed.
THEOREM TypeCorrect == Spec => []ITypeOK
  BY TypeInit, TypeStep, PTL DEF Spec

----------------------------------------------------------------------------
(* One active file.                                                        *)

\* Two requests do not change files at once, so that of another changes none.
LEMMA NobodyElse ==
  ASSUME ~Racing, NEW c \in Clients, ChangesFiles(c), NEW d \in Clients \ {c}
  PROVE  ~ChangesFiles(d)
  BY DEF Racing

LEMMA RacingPrimed ==
  ASSUME ~Racing', NEW c \in Clients,
         req'[c].step \in {"find", "erase", "retire", "add", "duplicate"}, NEW d \in Clients \ {c}
  PROVE  req'[d].step \notin {"find", "erase", "retire", "add", "duplicate"}
  BY DEF Racing, ChangesFiles

\* The request that changes nothing of what is active.
LEMMA FilesKept ==
  ASSUME ITypeOK, FilesOK, ~Racing', NEW c \in Clients, NEW q \in Request, Now(c, q),
         Active' \subseteq Active, q.step \notin {"erase", "retire", "duplicate", "add"}
  PROVE  FilesOK'
  <1>1. \A i, j \in Active' : i = j
    BY DEF FilesOK
  <1>2. req'[c] = q /\ \A d \in Clients \ {c} : req'[d] = req[d]
    BY OneRequest DEF ITypeOK
  <1>3. ASSUME NEW d \in Clients
        PROVE  /\ req'[d].step \in {"erase", "retire", "duplicate"} => Active' \subseteq {req'[d].seen}
               /\ req'[d].step = "add" => Active' = {}
    <2>1. CASE d = c
      BY <1>2, <2>1
    <2>2. CASE d # c
      BY <1>2, <2>2 DEF FilesOK
    <2> QED BY <2>1, <2>2
  <1> QED BY <1>1, <1>3 DEF FilesOK

\* The request that alone changes files, and has seen what is active then.
LEMMA FilesTaken ==
  ASSUME ITypeOK, ~Racing', NEW c \in Clients, NEW q \in Request, Now(c, q),
         \A i, j \in Active' : i = j,
         q.step \in {"erase", "retire", "duplicate", "add"}
           \/ \A d \in Clients \ {c} : ~ChangesFiles(d),
         q.step \in {"erase", "retire", "duplicate"} => Active' \subseteq {q.seen},
         q.step = "add" => Active' = {}
  PROVE  FilesOK'
  <1>1. req'[c] = q /\ \A d \in Clients \ {c} : req'[d] = req[d]
    BY OneRequest DEF ITypeOK
  <1>2. ASSUME NEW d \in Clients
        PROVE  /\ req'[d].step \in {"erase", "retire", "duplicate"} => Active' \subseteq {req'[d].seen}
               /\ req'[d].step = "add" => Active' = {}
    <2>1. CASE d = c
      BY <1>1, <2>1
    <2>2. CASE d # c
      <3>1. req'[d].step \notin {"erase", "retire", "duplicate", "add"}
        <4>1. CASE q.step \in {"erase", "retire", "duplicate", "add"}
          BY <1>1, <2>2, <4>1, RacingPrimed
        <4>2. CASE \A e \in Clients \ {c} : ~ChangesFiles(e)
          BY <1>1, <2>2, <4>2 DEF ChangesFiles
        <4> QED BY <4>1, <4>2
      <3> QED BY <3>1
    <2> QED BY <2>1, <2>2
  <1> QED BY <1>2 DEF FilesOK

\* What a query for the active row finds, when there is one at most.
LEMMA FoundFacts ==
  ASSUME ITypeOK, FilesOK, NEW j \in Found
  PROVE  Active \subseteq {j} /\ (j = 0 => Active = {})
  <1>1. 0 \notin Active
    BY Rows DEF ITypeOK
  <1> QED BY <1>1 DEF Found, FilesOK

LEMMA OneInit == Init => OneInv
  <1> SUFFICES ASSUME Init PROVE FilesOK
    BY DEF OneInv
  <1>1. \A c \in Clients : req[c].step \notin {"find", "erase", "retire", "add", "duplicate"}
    <2>1. CASE Handmade
      BY <2>1, IdleFacts DEF Handmade
    <2>2. CASE Imported
      <3>1. PICK b, r :
              /\ b \in Clients
              /\ r = [Idle EXCEPT !.op = "attach", !.step = "load", !.file = 1]
              /\ req = [c \in Clients |-> IF c = b THEN r ELSE Idle]
        BY <2>2 DEF Imported
      <3>2. r = NewRequest("attach", "load", 1, 0)
        BY <3>1, NewRequestForms
      <3>3. r.step = "load"
        BY <3>2 DEF NewRequest
      <3> QED BY <3>1, <3>3, IdleFacts
    <2> QED BY <2>1, <2>2 DEF Init
  <1>2. ~Racing
    BY <1>1 DEF Racing, ChangesFiles
  <1>3. \A i, j \in Active : i = j
    BY DEF Init, Handmade, Imported, Active
  <1> QED BY <1>1, <1>2, <1>3 DEF FilesOK

LEMMA OneStep == ITypeOK /\ OneInv /\ [Next]_vars => OneInv'
  <1> SUFFICES ASSUME ITypeOK, OneInv, [Next]_vars, ~raced' PROVE FilesOK'
    BY DEF OneInv
  <1>1. CASE UNCHANGED vars
    BY <1>1 DEF OneInv, FilesOK, Racing, ChangesFiles, Active, vars
  <1>2. CASE Next
    <2>1. ~raced /\ ~Racing'
      BY <1>2 DEF Next
    <2>2. FilesOK
      BY <2>1 DEF OneInv
    <2>3. ASSUME NEW o \in drive, Vanish(o)
          PROVE  FilesOK'
      <3>1. UNCHANGED <<files, req>>
        BY <2>3 DEF Vanish
      <3>2. Active' = Active
        BY <3>1 DEF Active
      <3> QED BY <2>1, <2>2, <3>1, <3>2 DEF FilesOK
    <2>4. ASSUME NEW c \in Clients, ChangeFiles(c) \/ ChangeBook(c) \/ Fails(c)
          PROVE  FilesOK'
      <3>1. ASSUME UNCHANGED files,
                   \E q \in Request : /\ Now(c, q)
                                      /\ q.step \notin {"erase", "retire", "duplicate", "add"}
            PROVE  FilesOK'
        <4>1. Active' = Active
          BY <3>1 DEF Active
        <4> QED BY <2>1, <2>2, <3>1, <4>1, FilesKept
      <3>2. ASSUME ChangesFiles(c) PROVE \A d \in Clients \ {c} : ~ChangesFiles(d)
        BY <2>2, <3>2, NobodyElse DEF FilesOK
      <3>3. CASE BeginUpload(c)
        BY <3>1, <3>3, BeginUploadFacts DEF BeginUpload
      <3>4. CASE FindExisting(c)
        <4>1. PICK q \in Request : /\ Now(c, q) /\ q.seen \in Found
                                   /\ q.step = IF q.seen = 0 THEN "add" ELSE "erase"
          BY <3>4, FindExistingFacts
        <4>2. Active' = Active
          BY <3>4 DEF FindExisting, Active
        <4>3. Active \subseteq {q.seen} /\ (q.seen = 0 => Active = {})
          BY <2>2, <4>1, FoundFacts
        <4>4. \A i, j \in Active' : i = j
          BY <2>2, <4>2 DEF FilesOK
        <4> QED BY <2>1, <4>1, <4>2, <4>3, <4>4, FilesTaken
      <3>5. CASE EraseOld(c)
        <4>1. PICK q \in Request : /\ Now(c, q) /\ q.step = "retire" /\ q.seen = req[c].seen
          BY <3>5, EraseOldFacts
        <4>2. Active' = Active
          BY <3>5 DEF EraseOld, Active
        <4>3. Active \subseteq {q.seen}
          BY <2>2, <3>5, <4>1, EraseOldFacts DEF FilesOK
        <4>4. \A i, j \in Active' : i = j
          BY <2>2, <4>2 DEF FilesOK
        <4> QED BY <2>1, <4>1, <4>2, <4>3, <4>4, FilesTaken
      <3>6. CASE RetireOld(c)
        <4>1. PICK q \in Request : Now(c, q) /\ q.step = "add"
          BY <3>6, RetireOldFacts
        <4>2. Active' = Active \ {req[c].seen}
          BY <3>6, RetireOldFacts, FileRetired DEF ITypeOK
        <4>3. Active' = {}
          BY <2>2, <3>6, <4>2, RetireOldFacts DEF FilesOK
        <4> QED BY <2>1, <4>1, <4>3, FilesTaken
      <3>7. CASE AddFile(c)
        <4>1. PICK q \in Request : Now(c, q) /\ q.step = "load"
          BY <3>7, AddFileFacts
        <4>2. [active |-> TRUE, object |-> Len(files) + 1] \in File
          BY Rows DEF File, ITypeOK
        <4>3. /\ DOMAIN files' = 1..(Len(files) + 1)
              /\ \A i \in DOMAIN files : files'[i] = files[i]
              /\ Len(files) \in Nat /\ DOMAIN files = 1..Len(files)
          BY <3>7, <4>2, AddFileFacts, FileAdded, Rows DEF ITypeOK
        <4>4. Active = {}
          BY <2>2, <3>7, AddFileFacts DEF FilesOK
        <4>5. Active' \subseteq {Len(files) + 1}
          BY <4>3, <4>4 DEF Active
        <4>6. \A d \in Clients \ {c} : ~ChangesFiles(d)
          BY <3>2, <3>7, AddFileFacts DEF ChangesFiles
        <4> QED BY <2>1, <4>1, <4>5, <4>6, FilesTaken
      <3>8. CASE DeleteFile(c)
        <4>1. PICK q \in Request : Now(c, q) /\ q.step = "load"
          BY <3>8, DeleteFileFacts
        <4>2. Active' \subseteq Active
          BY <3>8, DeleteFileFacts, FileRetired DEF ITypeOK
        <4> QED BY <2>1, <2>2, <4>1, <4>2, FilesKept
      <3>9. CASE BeginActivate(c)
        <4>1. PICK q \in Request : Now(c, q) /\ q.step = "duplicate" /\ q.seen \in Found
          BY <3>9, BeginActivateFacts
        <4>2. Active' = Active
          BY <3>9 DEF BeginActivate, Active
        <4>3. Active \subseteq {q.seen}
          BY <2>2, <4>1, FoundFacts
        <4>4. \A i, j \in Active' : i = j
          BY <2>2, <4>2 DEF FilesOK
        <4> QED BY <2>1, <4>1, <4>2, <4>3, <4>4, FilesTaken
      <3>10. CASE Duplicate(c)
        <4>1. PICK q \in Request : Now(c, q) /\ q.step = "load"
          BY <3>10, DuplicateFacts
        <4>2. Active' = (Active \ {req[c].file, req[c].seen}) \cup {Len(files) + 1}
          BY <3>10, DuplicateFacts, DuplicatedFiles DEF ITypeOK
        <4>3. Active \subseteq {req[c].seen}
          BY <2>2, <3>10, DuplicateFacts DEF FilesOK
        <4>4. \A i, j \in Active' : i = j
          BY <4>2, <4>3
        <4>5. \A d \in Clients \ {c} : ~ChangesFiles(d)
          BY <3>2, <3>10, DuplicateFacts DEF ChangesFiles
        <4> QED BY <2>1, <4>1, <4>4, <4>5, FilesTaken
      <3>11. CASE BeginOnBook(c)
        BY <3>1, <3>11, BeginOnBookFacts DEF BeginOnBook
      <3>12. CASE LoadBook(c)
        BY <3>1, <3>12, LoadBookFacts DEF LoadBook
      <3>13. CASE SaveBook(c)
        BY <3>1, <3>13, SaveBookFacts, IdleFacts DEF SaveBook
      <3>14. CASE Fails(c)
        BY <3>1, <3>14, IdleFacts DEF Fails, Ends, Now
      <3> QED BY <2>4, <3>3, <3>4, <3>5, <3>6, <3>7, <3>8, <3>9, <3>10, <3>11, <3>12, <3>13, <3>14
            DEF ChangeFiles, Upload, ChangeBook
    <2> QED BY <1>2, <2>3, <2>4 DEF Next
  <1> QED BY <1>1, <1>2

\* UploadFile erases and retires the active row before it adds its own, and
\* ActivateFile retires it in the save that adds the copy: unless two of them
\* overlap, a book has one active row at most, however many fail half way.
THEOREM ActiveFileCorrect == Spec => []OneActiveFile
  <1>1. ITypeOK /\ OneInv => OneActiveFile
    <2> SUFFICES ASSUME ITypeOK, FilesOK PROVE Cardinality(Active) <= 1
      BY DEF OneInv, OneActiveFile
    <2>1. CASE Active = {}
      BY <2>1, FS_EmptySet
    <2>2. CASE Active # {}
      <3>1. PICK i : Active = {i}
        BY <2>2 DEF FilesOK
      <3> QED BY <3>1, FS_Singleton
    <2> QED BY <2>1, <2>2
  <1> QED BY <1>1, TypeInit, TypeStep, OneInit, OneStep, PTL DEF Spec

----------------------------------------------------------------------------
(* The upload that nothing disturbs.                                       *)

\* The requests other than an upload about to link its row.
LEMMA SoleKept ==
  ASSUME ITypeOK, NEW c \in Clients, NEW q \in Request, Now(c, q),
         sole' \in {{}, {c}, sole \cap {c}},
         q.op = "upload" /\ q.step \in {"load", "save"} /\ sole' = {c} => Opens(q.file)'
  PROVE  SoleInv'
  <1>1. req'[c] = q
    BY OneRequest DEF ITypeOK
  <1>2. \A d \in sole' : d = c
    OBVIOUS
  <1>3. ASSUME NEW d \in Clients, sole' = {d}, req'[d].op = "upload", req'[d].step \in {"load", "save"}
        PROVE  Opens(req[d].file)'
    <2>1. d = c
      BY <1>2, <1>3
    <2>2. q = req'[d]
      BY <1>1, <2>1
    <2>3. Opens(q.file)'
      BY <1>1, <1>3, <2>1
    <2> QED BY <2>2, <2>3 DEF Opens
  <1> QED BY <1>2, <1>3 DEF SoleInv, SoleUploadOpens

LEMMA SoleStep == ITypeOK /\ SoleInv /\ [Next]_vars => SoleInv'
  <1> SUFFICES ASSUME ITypeOK, SoleInv, [Next]_vars PROVE SoleInv'
    OBVIOUS
  <1>1. CASE UNCHANGED vars
    BY <1>1 DEF SoleInv, SoleUploadOpens, Opens, Active, vars
  <1>2. CASE Next
    <2>1. ASSUME NEW o \in drive, Vanish(o)
          PROVE  SoleInv'
      BY <2>1 DEF Vanish, SoleInv, SoleUploadOpens
    <2>2. ASSUME NEW c \in Clients, ChangeFiles(c) \/ ChangeBook(c) \/ Fails(c)
          PROVE  SoleInv'
      <3>1. sole' \in {{}, {c}, sole \cap {c}}
        BY <2>2, SoleMoved DEF SoleMoves
      <3>2. ASSUME \E q \in Request : Now(c, q) /\ (q.op # "upload" \/ q.step \notin {"load", "save"})
            PROVE  SoleInv'
        BY <3>1, <3>2, SoleKept
      <3>3. CASE BeginUpload(c)
        BY <3>2, <3>3, BeginUploadFacts
      <3>4. CASE FindExisting(c)
        BY <3>2, <3>4, FindExistingFacts
      <3>5. CASE EraseOld(c)
        BY <3>2, <3>5, EraseOldFacts
      <3>6. CASE RetireOld(c)
        BY <3>2, <3>6, RetireOldFacts
      <3>7. CASE AddFile(c)
        <4>1. PICK q \in Request : Now(c, q) /\ q.file = Len(files) + 1
          BY <3>7, AddFileFacts
        <4>2. PICK x : x = [active |-> TRUE, object |-> Len(files) + 1]
          OBVIOUS
        <4>6. x \in File /\ x.active /\ x.object = Len(files) + 1
          BY <4>2, Rows DEF File, ITypeOK
        <4>3. /\ DOMAIN files' = 1..(Len(files) + 1) /\ files'[Len(files) + 1] = x
              /\ Len(files) \in Nat
          BY <3>7, <4>2, <4>6, AddFileFacts, FileAdded, Rows DEF ITypeOK
        <4>4. Len(files) + 1 \in drive'
          BY <3>7 DEF AddFile
        <4>5. Opens(q.file)'
          <5>1. PICK n : n = q.file
            OBVIOUS
          <5>2. n \in Active' /\ files'[n].object \in drive'
            BY <4>1, <4>3, <4>4, <4>6, <5>1 DEF Active
          <5> QED BY <5>1, <5>2 DEF Opens
        <4> QED BY <3>1, <4>1, <4>5, SoleKept
      <3>8. CASE DeleteFile(c)
        BY <3>2, <3>8, DeleteFileFacts
      <3>9. CASE BeginActivate(c)
        BY <3>2, <3>9, BeginActivateFacts
      <3>10. CASE Duplicate(c)
        BY <3>2, <3>10, DuplicateFacts
      <3>11. CASE BeginOnBook(c)
        BY <3>2, <3>11, BeginOnBookFacts
      <3>12. CASE LoadBook(c)
        <4>1. PICK q \in Request : Now(c, q) /\ q.op = req[c].op /\ q.file = req[c].file
          BY <3>12, LoadBookFacts
        <4>2. UNCHANGED <<files, drive>> /\ sole' = sole \cap {c} /\ req[c].step = "load"
          BY <3>12, LoadBookFacts DEF LoadBook, Goes
        <4>3. ASSUME q.op = "upload", sole' = {c} PROVE Opens(q.file)'
          <5>1. sole = {c}
            BY <4>2, <4>3 DEF SoleInv
          <5>2. Opens(req[c].file)
            BY <4>1, <4>2, <4>3, <5>1 DEF SoleInv, SoleUploadOpens
          <5>3. q.file \in Active /\ files[q.file].object \in drive
            BY <4>1, <5>2 DEF Opens
          <5> QED BY <4>2, <5>3 DEF Opens, Active
        <4> QED BY <3>1, <4>1, <4>3, SoleKept
      <3>13. CASE SaveBook(c)
        BY <3>2, <3>13, SaveBookFacts, IdleFacts
      <3>14. CASE Fails(c)
        BY <3>2, <3>14, IdleFacts DEF Fails, Ends, Now
      <3> QED BY <2>2, <3>3, <3>4, <3>5, <3>6, <3>7, <3>8, <3>9, <3>10, <3>11, <3>12, <3>13, <3>14
            DEF ChangeFiles, Upload, ChangeBook
    <2> QED BY <1>2, <2>1, <2>2 DEF Next
  <1> QED BY <1>1, <1>2

\* Whatever rows, objects and copies earlier failures and overlaps have left, the
\* row that UploadFile answers and the browser links has its object in Drive and
\* is active, when nothing else has run since the upload began.
THEOREM UploadCorrect == Spec => []SoleUploadOpens
  <1>1. Init => SoleInv
    BY DEF Init, SoleInv, SoleUploadOpens
  <1>2. SoleInv => SoleUploadOpens
    BY DEF SoleInv
  <1> QED BY <1>1, <1>2, TypeInit, TypeStep, SoleStep, PTL DEF Spec

----------------------------------------------------------------------------
(* Copies of the book.                                                     *)

\* What the others hold is as old as the step leaves it.
LEMMA CopiesKept ==
  ASSUME ITypeOK, CopiesOK, Next, NEW c \in Clients, NEW q \in Request, Now(c, q),
         CopyOK(c)'
  PROVE  CopiesOK'
  <1>1. \A d \in Clients \ {c} : req'[d] = req[d]
    BY OneRequest DEF ITypeOK
  <1>2. stale' = IF book'.active /\ ~book'.restricted THEN {}
                 ELSE {d \in IF Withdrawn THEN Clients ELSE stale : At(d, "save")'}
    BY DEF Next
  <1>3. ASSUME NEW d \in Clients \ {c}, req'[d].step = "save", d \notin stale'
        PROVE  /\ book'.restricted => req'[d].op = "flip" \/ req'[d].copy.restricted
               /\ ~book'.active => req'[d].op = "attach" \/ ~req'[d].copy.active
    <2>1. CASE book'.active /\ ~book'.restricted
      BY <2>1
    <2>2. CASE ~(book'.active /\ ~book'.restricted)
      <3>1. ~Withdrawn /\ d \notin stale
        BY <1>2, <1>3, <2>2 DEF At
      <3>2. book'.restricted => book.restricted
        BY <3>1 DEF Withdrawn
      <3>3. ~book'.active => ~book.active
        BY <3>1 DEF Withdrawn
      <3>4. req'[d] = req[d] /\ CopyOK(d)
        BY <1>1 DEF CopiesOK
      <3> QED BY <1>3, <3>1, <3>2, <3>3, <3>4 DEF CopyOK, At
    <2> QED BY <2>1, <2>2
  <1>4. \A d \in Clients \ {c} : CopyOK(d)'
    BY <1>3 DEF CopyOK, At
  <1> QED BY <1>4 DEF CopiesOK

LEMMA CopiesInit == Init => CopiesOK
  <1> SUFFICES ASSUME Init PROVE CopiesOK
    OBVIOUS
  <1>1. \A c \in Clients : req[c].step # "save"
    <2>1. CASE Handmade
      BY <2>1, IdleFacts DEF Handmade
    <2>2. CASE Imported
      <3>1. PICK b, r :
              /\ b \in Clients
              /\ r = [Idle EXCEPT !.op = "attach", !.step = "load", !.file = 1]
              /\ req = [c \in Clients |-> IF c = b THEN r ELSE Idle]
        BY <2>2 DEF Imported
      <3>2. r = NewRequest("attach", "load", 1, 0)
        BY <3>1, NewRequestForms
      <3>3. r.step = "load"
        BY <3>2 DEF NewRequest
      <3> QED BY <3>1, <3>3, IdleFacts
    <2> QED BY <2>1, <2>2 DEF Init
  <1> QED BY <1>1 DEF CopiesOK, CopyOK, At

LEMMA CopiesStep == ITypeOK /\ CopiesOK /\ [Next]_vars => CopiesOK'
  <1> SUFFICES ASSUME ITypeOK, CopiesOK, [Next]_vars PROVE CopiesOK'
    OBVIOUS
  <1>1. CASE UNCHANGED vars
    BY <1>1 DEF CopiesOK, CopyOK, At, vars
  <1>2. CASE Next
    <2>1. ASSUME NEW o \in drive, Vanish(o)
          PROVE  CopiesOK'
      <3>1. UNCHANGED <<book, req>>
        BY <2>1 DEF Vanish
      <3>2. ~Withdrawn
        BY <3>1 DEF Withdrawn
      <3>3. stale' = IF book'.active /\ ~book'.restricted THEN {}
                     ELSE {d \in stale : At(d, "save")'}
        BY <1>2, <3>2 DEF Next
      <3> QED BY <3>1, <3>3 DEF CopiesOK, CopyOK, At
    <2>2. ASSUME NEW c \in Clients, ChangeFiles(c) \/ ChangeBook(c) \/ Fails(c)
          PROVE  CopiesOK'
      <3>2. ASSUME \E q \in Request : Now(c, q) /\ q.step # "save"
            PROVE  CopiesOK'
        <4>1. PICK q \in Request : Now(c, q) /\ q.step # "save"
          BY <3>2
        <4>2. CopyOK(c)'
          BY <4>1, OneRequest DEF CopyOK, At, ITypeOK
        <4> QED BY <1>2, <4>1, <4>2, CopiesKept
      <3>3. CASE BeginUpload(c)
        BY <3>2, <3>3, BeginUploadFacts
      <3>4. CASE FindExisting(c)
        BY <3>2, <3>4, FindExistingFacts
      <3>5. CASE EraseOld(c)
        BY <3>2, <3>5, EraseOldFacts
      <3>6. CASE RetireOld(c)
        BY <3>2, <3>6, RetireOldFacts
      <3>7. CASE AddFile(c)
        BY <3>2, <3>7, AddFileFacts
      <3>8. CASE DeleteFile(c)
        BY <3>2, <3>8, DeleteFileFacts
      <3>9. CASE BeginActivate(c)
        BY <3>2, <3>9, BeginActivateFacts
      <3>10. CASE Duplicate(c)
        BY <3>2, <3>10, DuplicateFacts
      <3>11. CASE BeginOnBook(c)
        BY <3>2, <3>11, BeginOnBookFacts
      <3>12. CASE LoadBook(c)
        <4>1. PICK q \in Request : /\ Now(c, q)
                                   /\ q.op # "flip" => q.copy.restricted = book.restricted
                                   /\ q.copy.active => book.active \/ q.op = "attach"
          BY <3>12, LoadBookFacts
        <4>2. req'[c] = q /\ book' = book
          BY <3>12, <4>1, OneRequest DEF LoadBook, ITypeOK
        <4>3. CopyOK(c)'
          BY <4>1, <4>2 DEF CopyOK, At
        <4> QED BY <1>2, <4>1, <4>3, CopiesKept
      <3>13. CASE SaveBook(c)
        BY <3>2, <3>13, SaveBookFacts, IdleFacts
      <3>14. CASE Fails(c)
        BY <3>2, <3>14, IdleFacts DEF Fails, Ends, Now
      <3> QED BY <2>2, <3>3, <3>4, <3>5, <3>6, <3>7, <3>8, <3>9, <3>10, <3>11, <3>12, <3>13, <3>14
            DEF ChangeFiles, Upload, ChangeBook
    <2> QED BY <1>2, <2>1, <2>2 DEF Next
  <1> QED BY <1>1, <1>2

LEMMA CopiesCorrect == Spec => [](ITypeOK /\ CopiesOK)
  BY TypeInit, TypeStep, CopiesInit, CopiesStep, PTL DEF Spec

\* A step that changes the book is a save.
LEMMA OnlySaves ==
  ASSUME Next, book' # book
  PROVE  \E c \in Clients : SaveBook(c)
  <1>1. ASSUME NEW o \in drive, Vanish(o) PROVE FALSE
    BY <1>1 DEF Vanish
  <1>2. ASSUME NEW c \in Clients, ChangeFiles(c) PROVE FALSE
    BY <1>2 DEF ChangeFiles, Upload, BeginUpload, FindExisting, EraseOld, RetireOld, AddFile,
         DeleteFile, BeginActivate, Duplicate
  <1>3. ASSUME NEW c \in Clients, BeginOnBook(c) \/ LoadBook(c) \/ Fails(c) PROVE FALSE
    BY <1>3 DEF BeginOnBook, LoadBook, Fails
  <1> QED BY <1>1, <1>2, <1>3 DEF Next, ChangeBook

\* SoftDelete refuses every save of a copy that is restricted, and so does the
\* handler that loads a restricted book for the owner: once those who had loaded
\* the book before it was restricted are done, only the flip of support changes it.
THEOREM RestrictionCorrect == Spec => RestrictedSettles
  <1>1. ASSUME ITypeOK, CopiesOK, [Next]_vars, book.restricted, stale = {}, book' # book
        PROVE  \E c \in Clients : req[c].op = "flip" /\ SaveBook(c)
    <2>1. Next
      BY <1>1 DEF vars
    <2>2. PICK c \in Clients : SaveBook(c)
      BY <1>1, <2>1, OnlySaves
    <2>3. CopyOK(c) /\ At(c, "save") /\ MaySave(req[c])
      BY <1>1, <2>2 DEF CopiesOK, SaveBook
    <2>4. req[c].op = "flip"
      BY <1>1, <2>3 DEF CopyOK, MaySave
    <2> QED BY <2>2, <2>4
  <1>2. ITypeOK /\ CopiesOK /\ [Next]_vars
          => [book.restricted /\ stale = {}
                => UNCHANGED book \/ \E c \in Clients : req[c].op = "flip" /\ SaveBook(c)]_vars
    BY <1>1
  <1> QED BY <1>2, CopiesCorrect, PTL DEF Spec, RestrictedSettles

\* No handler but the attachment of the import sets IsActive: once those who had
\* loaded the book before it was deleted are done, it stays deleted, whatever
\* whole rows the others save.
THEOREM DeletionCorrect == Spec => DeletedSettles
  <1>1. ASSUME ITypeOK, CopiesOK, [Next]_vars, ~book.active, stale = {},
               \A c \in Clients : req[c].op # "attach"
        PROVE  ~book'.active
    <2>1. CASE book' = book
      BY <1>1, <2>1
    <2>2. CASE book' # book
      <3>1. Next
        BY <1>1, <2>2 DEF vars
      <3>2. PICK c \in Clients : SaveBook(c)
        BY <2>2, <3>1, OnlySaves
      <3>3. CopyOK(c) /\ At(c, "save")
        BY <1>1, <3>2 DEF CopiesOK, SaveBook
      <3>4. ~req[c].copy.active
        BY <1>1, <3>3 DEF CopyOK
      <3>5. book'.active \in {book.active, req[c].copy.active}
        BY <1>1, <3>2, SaveBookFacts
      <3> QED BY <1>1, <3>4, <3>5
    <2> QED BY <2>1, <2>2
  <1>2. ITypeOK /\ CopiesOK /\ [Next]_vars
          => [~book.active /\ stale = {} /\ (\A c \in Clients : req[c].op # "attach")
                => ~book'.active]_vars
    BY <1>1
  <1> QED BY <1>2, CopiesCorrect, PTL DEF Spec, DeletedSettles
=============================================================================
