----------------------- MODULE GenresAndSeries_proofs -----------------------
(***************************************************************************)
(* Theorems about GenresAndSeries, for every number of requests, names,    *)
(* rows and books, and their proofs.                                       *)
(***************************************************************************)
EXTENDS GenresAndSeries, TLAPS

----------------------------------------------------------------------------
(* Sequences and requests.                                                 *)

\* What adding an element changes.
LEMMA AppendFacts ==
  ASSUME NEW S, NEW s \in Seq(S), NEW x \in S
  PROVE  /\ Append(s, x) \in Seq(S)
         /\ Len(Append(s, x)) = Len(s) + 1
         /\ DOMAIN Append(s, x) = 1..(Len(s) + 1)
         /\ Append(s, x)[Len(s) + 1] = x
         /\ \A i \in 1..Len(s) : Append(s, x)[i] = s[i]
  OBVIOUS

\* What replacing an element changes.
LEMMA UpdateFacts ==
  ASSUME NEW S, NEW s \in Seq(S), NEW i \in DOMAIN s, NEW x \in S
  PROVE  /\ [s EXCEPT ![i] = x] \in Seq(S)
         /\ Len([s EXCEPT ![i] = x]) = Len(s)
         /\ DOMAIN [s EXCEPT ![i] = x] = DOMAIN s
         /\ [s EXCEPT ![i] = x][i] = x
         /\ \A j \in DOMAIN s : j # i => [s EXCEPT ![i] = x][j] = s[j]
  OBVIOUS

\* The indices of the two tables.
LEMMA Indices ==
  ASSUME TypeOK
  PROVE  /\ Len(rows) \in Nat /\ DOMAIN rows = 1..Len(rows)
         /\ Len(books) \in Nat /\ DOMAIN books = 1..Len(books)
         /\ \A i \in DOMAIN rows : rows[i] \in Row
         /\ \A b \in DOMAIN books : books[b] \in Book
  BY DEF TypeOK

\* Only the request that goes on changes.
LEMMA GoesFacts ==
  ASSUME req \in [Requests -> Request], NEW c \in Requests, NEW q \in Request, Goes(c, q)
  PROVE  /\ req' \in [Requests -> Request]
         /\ req'[c] = q
         /\ \A d \in Requests : d # c => req'[d] = req[d]
  BY DEF Goes

----------------------------------------------------------------------------
(* What holds of a single request, with n rows and m books.                *)

\* Which operation is at which step, and what it refers to.
Shape(q, n, m) ==
  /\ q.step = "insert" => q.op \in {"add", "import"}
  /\ q.step = "saveRow" => q.op \in {"add", "rename", "delete", "import"} /\ q.row \in 1..n
  /\ q.op = "delete" => q.step = "saveRow"
  /\ q.step = "look" => q.op = "form"
  /\ q.step = "saveBook" => q.op \in {"form", "remove", "patch"}
  /\ q.op \in {"remove", "patch"} => q.book # 0 /\ q.page = 0
  /\ q.step \in {"addBook", "attach"} => q.op = "import"
  /\ q.step = "attach" => q.book # 0
  /\ q.row <= n /\ q.book <= m

\* Only a deletion hides a row; a form saves a book that is shown, under the row it
\* has chosen or none, a removal hides it, and a PATCH that shows a book saves it
\* under the row of its copy.
Writes(q, n) ==
  /\ q.step \in {"insert", "saveRow"} =>
       \A r \in q.copy : IF q.op = "delete" THEN ~r.active ELSE r.active
  /\ q.step = "saveBook" =>
       \A d \in q.draft : /\ d.row <= n
                          /\ q.op = "remove" => ~d.active
                          /\ q.op = "form" => d.row \in {0, q.row}
                          /\ q.op = "patch" /\ d.active => d.row = q.row

Fits(q, n, m) == Shape(q, n, m) /\ Writes(q, n)

IType == TypeOK /\ \A c \in Requests : Fits(req[c], Len(rows), Len(books))

\* A PATCH that saves a book as it is while it waits for its file.
Harmless(q, i) == q.op = "patch" /\ \A d \in q.draft : ~d.active /\ d.row = i

\* A book that waits for its file is hidden, is filed under the row the import has
\* chosen, and belongs to no other request but a PATCH that leaves it so.
Attached ==
  \A c \in Requests : At(c, "attach") =>
    /\ ~books[req[c].book].active /\ books[req[c].book].row = req[c].row
    /\ \A d \in Requests : d # c => req[d].book # req[c].book \/ Harmless(req[d], req[c].row)

\* A form or an import is about to file a book under the row it has chosen, or a PATCH
\* under that of its copy.
Holds(q) == /\ q.op \in {"form", "patch", "import"}
            /\ q.step \in {"look", "saveBook", "addBook", "attach"}
            /\ q.row # 0

\* Unless a deletion has met a form, a PATCH or an import: what is filed or about to be filed
\* is filed under a row that is shown, and the row that is deleted is not in use.
Clear ==
  "use" \notin raced =>
    /\ FiledUnderShown
    /\ \A c \in Requests : Holds(req[c]) => req[c].row \in Shown
    /\ \A c \in Requests, b \in DOMAIN books :
         req[c].op = "delete" /\ books[b].active => books[b].row # req[c].row
    /\ \A c, d \in Requests : req[c].op = "delete" /\ Files(d) => req[d].row # req[c].row

\* The name that is about to be written is not that of another row that is shown.
Free(q) ==
  \A r \in q.copy, i \in Shown : rows[i].name = r.name =>
    /\ q.step # "insert"
    /\ q.step = "saveRow" /\ q.op = "rename" => i = q.row

\* Unless two requests that change names have met.
NamesFree ==
  "names" \notin raced =>
    /\ \A c \in Requests : Free(req[c])
    /\ \A c, d \in Requests : c # d => ~(ChangesNames(c) /\ ChangesNames(d))

IInv == IType /\ Attached /\ Clear /\ NamesFree

\* A request that is not in progress fits any tables.
LEMMA IdleFits ==
  /\ Idle \in Request
  /\ \A n, m \in Nat : Fits(Idle, n, m)
  BY DEF Idle, Request, Operation, Step, Shape, Writes, Fits

\* A request still fits when the tables have grown.
LEMMA FitsGrows ==
  ASSUME NEW q \in Request, NEW n \in Nat, NEW m \in Nat, NEW n2 \in Nat, NEW m2 \in Nat,
         n <= n2, m <= m2, Fits(q, n, m)
  PROVE  Fits(q, n2, m2)
<1>1. q.row \in Nat /\ q.book \in Nat /\ \A d \in q.draft : d.row \in Nat
  BY DEF Request, Book
<1>2. QED
  BY <1>1 DEF Shape, Writes, Fits

----------------------------------------------------------------------------
(* What a step may do, and that a step within these limits preserves the   *)
(* invariant.                                                              *)

\* What a step of c, which goes on as q, may do to the tables.
Keeps(c, q) ==
  /\ Goes(c, q)
  /\ kind' = kind /\ rows' \in Seq(Row) /\ books' \in Seq(Book)
  /\ Len(rows) <= Len(rows') /\ Len(books) <= Len(books')
  /\ \A b \in DOMAIN books' : books'[b].row <= Len(rows')
  /\ Fits(q, Len(rows'), Len(books'))

\* Only a deletion hides a row, its own; a book comes to be shown only under the row
\* that is held for it.
KeepsUse(c, q) ==
  /\ \A i \in Shown : i \in Shown' \/ (req[c].op = "delete" /\ req[c].row = i)
  /\ \A b \in DOMAIN books' : books'[b].active /\ books'[b].row # 0 =>
       \/ b \in DOMAIN books /\ books[b].active /\ books[b].row = books'[b].row
       \/ Holds(req[c]) /\ books'[b].row = req[c].row
  /\ "use" \notin raced /\ Holds(q) => q.row \in Shown'
  /\ q.op = "delete" => \A b \in DOMAIN books' : books'[b].active => books'[b].row # q.row

\* A book that waits for its file is left alone.
KeepsAttached(c, q) ==
  /\ \A d \in Requests : d # c /\ At(d, "attach") =>
       /\ books'[req[d].book] = books[req[d].book]
       /\ q.book # req[d].book \/ Harmless(q, req[d].row)
  /\ q.step = "attach" =>
       /\ ~books'[q.book].active /\ books'[q.book].row = q.row
       /\ \A d \in Requests : d # c => req[d].book # q.book \/ Harmless(req[d], q.row)

\* Rows change only where names may, and a name is looked for before.
KeepsNames(c, q) == (rows' = rows \/ ChangesNames(c)) /\ Free(q)'

Keeping(c) == \E q \in Request : Keeps(c, q) /\ KeepsUse(c, q) /\ KeepsAttached(c, q) /\ KeepsNames(c, q)

\* The types and the shape of the requests are kept.
LEMMA KeepsType ==
  ASSUME IType, NEW c \in Requests, NEW q \in Request, Keeps(c, q), raced' = raced \cup Overlaps'
  PROVE  IType'
<1>1. /\ Len(rows) \in Nat /\ Len(books) \in Nat
      /\ Len(rows') \in Nat /\ Len(books') \in Nat
  BY DEF IType, TypeOK, Keeps
<1>2. /\ req' \in [Requests -> Request] /\ req'[c] = q
      /\ \A d \in Requests : d # c => req'[d] = req[d]
  BY GoesFacts DEF IType, TypeOK, Keeps
<1>3. TypeOK'
  BY <1>2 DEF IType, TypeOK, Overlaps, Keeps
<1>4. ASSUME NEW d \in Requests PROVE Fits(req'[d], Len(rows'), Len(books'))
  <2>1. CASE d = c
    BY <2>1, <1>2 DEF Keeps
  <2>2. CASE d # c
    BY <2>2, <1>1, <1>2, FitsGrows DEF IType, TypeOK, Keeps
  <2>3. QED
    BY <2>1, <2>2
<1>5. QED
  BY <1>3, <1>4 DEF IType

\* What is filed, held or deleted is kept apart.
LEMMA KeepsClear ==
  ASSUME IInv, NEW c \in Requests, NEW q \in Request, Keeps(c, q), KeepsUse(c, q),
         raced' = raced \cup Overlaps'
  PROVE  Clear'
<1> SUFFICES ASSUME "use" \notin raced' PROVE Clear'
  BY DEF Clear
<1>0. "use" \notin raced /\ "use" \notin Overlaps'
  OBVIOUS
<1>1. /\ FiledUnderShown
      /\ \A d \in Requests : Holds(req[d]) => req[d].row \in Shown
      /\ \A d \in Requests, b \in DOMAIN books :
           req[d].op = "delete" /\ books[b].active => books[b].row # req[d].row
      /\ \A d, e \in Requests : req[d].op = "delete" /\ Files(e) => req[e].row # req[d].row
  BY <1>0 DEF IInv, Clear
<1>2. /\ req'[c] = q
      /\ \A d \in Requests : d # c => req'[d] = req[d]
  BY GoesFacts DEF IInv, IType, TypeOK, Keeps
<1>3. ASSUME NEW d \in Requests, Holds(req[d]), req[d].row \notin Shown' PROVE FALSE
  <2>1. req[d].row \in Shown
    BY <1>1, <1>3
  <2>2. req[c].op = "delete" /\ req[c].row = req[d].row
    BY <1>3, <2>1 DEF KeepsUse
  <2>3. Files(d)
    BY <1>3 DEF Holds, Files
  <2>4. QED
    BY <1>1, <2>2, <2>3
<1>4. FiledUnderShown'
  <2> SUFFICES ASSUME NEW b \in DOMAIN books', books'[b].active, books'[b].row # 0
               PROVE  books'[b].row \in Shown'
    BY DEF FiledUnderShown
  <2>1. CASE b \in DOMAIN books /\ books[b].active /\ books[b].row = books'[b].row
    <3>1. books'[b].row \in Shown
      BY <1>0, <1>1, <2>1 DEF FiledUnderShown
    <3>2. ~(req[c].op = "delete" /\ req[c].row = books'[b].row)
      BY <1>1, <2>1
    <3>3. QED
      BY <3>1, <3>2 DEF KeepsUse
  <2>2. CASE Holds(req[c]) /\ books'[b].row = req[c].row
    BY <1>3, <2>2
  <2>3. QED
    BY <2>1, <2>2 DEF KeepsUse
<1>5. ASSUME NEW d \in Requests, Holds(req'[d]) PROVE req'[d].row \in Shown'
  <2>1. CASE d = c
    BY <1>0, <1>2, <1>5, <2>1 DEF KeepsUse
  <2>2. CASE d # c
    BY <1>2, <1>3, <1>5, <2>2
  <2>3. QED
    BY <2>1, <2>2
<1>6. ASSUME NEW d \in Requests, NEW b \in DOMAIN books', req'[d].op = "delete", books'[b].active
      PROVE  books'[b].row # req'[d].row
  <2>1. CASE d = c
    BY <1>2, <1>6, <2>1 DEF KeepsUse
  <2>2. CASE d # c
    <3>1. req[d].op = "delete" /\ req'[d] = req[d]
      BY <1>2, <1>6, <2>2
    <3>2. req[d].row # 0
      BY <3>1 DEF IInv, IType, Fits, Shape
    <3>3. CASE books'[b].row = 0
      BY <3>1, <3>2, <3>3
    <3>4. CASE b \in DOMAIN books /\ books[b].active /\ books[b].row = books'[b].row
      BY <1>1, <3>1, <3>4
    <3>5. CASE Holds(req[c]) /\ books'[b].row = req[c].row
      BY <1>1, <3>1, <3>5 DEF Holds, Files
    <3>6. QED
      BY <1>6, <3>3, <3>4, <3>5 DEF KeepsUse
  <2>3. QED
    BY <2>1, <2>2
<1>7. ASSUME NEW d \in Requests, NEW e \in Requests, req'[d].op = "delete", Files(e)'
      PROVE  req'[e].row # req'[d].row
  <2>1. d # e
    BY <1>7 DEF Files
  <2>2. QED
    BY <1>0, <1>7, <2>1 DEF Overlaps
<1>8. QED
  BY <1>4, <1>5, <1>6, <1>7 DEF Clear

\* The books that wait for a file stay as they are.
LEMMA KeepsAttachedBooks ==
  ASSUME IInv, NEW c \in Requests, NEW q \in Request, Keeps(c, q), KeepsAttached(c, q)
  PROVE  Attached'
<1>1. /\ req'[c] = q
      /\ \A d \in Requests : d # c => req'[d] = req[d]
  BY GoesFacts DEF IInv, IType, TypeOK, Keeps
<1> SUFFICES ASSUME NEW d \in Requests, req'[d].step = "attach"
             PROVE  /\ ~books'[req'[d].book].active /\ books'[req'[d].book].row = req'[d].row
                    /\ \A e \in Requests : e # d =>
                         req'[e].book # req'[d].book \/ Harmless(req'[e], req'[d].row)
  BY DEF Attached, At, Harmless
<1>2. CASE d = c
  BY <1>1, <1>2 DEF KeepsAttached
<1>3. CASE d # c
  <2>1. /\ req'[d] = req[d] /\ At(d, "attach")
        /\ books'[req[d].book] = books[req[d].book]
        /\ q.book # req[d].book \/ Harmless(q, req[d].row)
    BY <1>1, <1>3 DEF KeepsAttached, At
  <2>2. /\ ~books[req[d].book].active /\ books[req[d].book].row = req[d].row
        /\ \A e \in Requests : e # d =>
             req[e].book # req[d].book \/ Harmless(req[e], req[d].row)
    BY <2>1 DEF IInv, Attached
  <2>3. QED
    BY <1>1, <2>1, <2>2
<1>4. QED
  BY <1>2, <1>3

\* The names that are looked for stay free.
LEMMA KeepsNamesFree ==
  ASSUME IInv, NEW c \in Requests, NEW q \in Request, Keeps(c, q), KeepsNames(c, q),
         raced' = raced \cup Overlaps'
  PROVE  NamesFree'
<1> SUFFICES ASSUME "names" \notin raced' PROVE NamesFree'
  BY DEF NamesFree
<1>0. "names" \notin raced /\ "names" \notin Overlaps'
  OBVIOUS
<1>1. /\ \A d \in Requests : Free(req[d])
      /\ \A d, e \in Requests : d # e => ~(ChangesNames(d) /\ ChangesNames(e))
  BY <1>0 DEF IInv, NamesFree
<1>2. /\ req'[c] = q
      /\ \A d \in Requests : d # c => req'[d] = req[d]
  BY GoesFacts DEF IInv, IType, TypeOK, Keeps
<1>3. ASSUME NEW d \in Requests PROVE Free(req[d])'
  <2>1. CASE d = c
    BY <1>2, <2>1 DEF KeepsNames, Free
  <2>2. CASE d # c /\ rows' = rows
    BY <1>1, <1>2, <2>2 DEF Free, Shown
  <2>3. CASE d # c /\ ChangesNames(c)
    <3>1. ~ChangesNames(d) /\ req'[d] = req[d]
      BY <1>1, <1>2, <2>3
    <3>2. QED
      BY <3>1 DEF ChangesNames, At, Free
  <2>4. QED
    BY <2>1, <2>2, <2>3 DEF KeepsNames
<1>4. ASSUME NEW d \in Requests, NEW e \in Requests, d # e
      PROVE  ~(ChangesNames(d) /\ ChangesNames(e))'
  BY <1>0, <1>4 DEF Overlaps
<1>5. QED
  BY <1>3, <1>4 DEF NamesFree

\* A step within these limits preserves the invariant.
LEMMA KeepingPreserves ==
  ASSUME IInv, NEW c \in Requests, Keeping(c), raced' = raced \cup Overlaps'
  PROVE  IInv'
<1>1. PICK q \in Request : Keeps(c, q) /\ KeepsUse(c, q) /\ KeepsAttached(c, q) /\ KeepsNames(c, q)
  BY DEF Keeping
<1>2. QED
  BY <1>1, KeepsType, KeepsClear, KeepsAttachedBooks, KeepsNamesFree DEF IInv

\* Initially there is no row, no book and no request.
LEMMA TypeInit == Init => IType
<1> SUFFICES ASSUME Init PROVE IType
  OBVIOUS
<1>1. <<>> \in Seq(Row) /\ <<>> \in Seq(Book) /\ Len(<<>>) = 0 /\ DOMAIN <<>> = {}
  OBVIOUS
<1>2. TypeOK
  BY <1>1, IdleFits DEF Init, TypeOK
<1>3. \A c \in Requests : req[c] = Idle
  BY DEF Init
<1>4. QED
  BY <1>1, <1>2, <1>3, IdleFits DEF Init, IType

----------------------------------------------------------------------------
(* Every action keeps within these limits.                                 *)

\* The fields of Idle.
LEMMA IdleFields ==
  /\ Idle \in Request
  /\ Idle.op = "none" /\ Idle.step = "idle" /\ Idle.page = 0 /\ Idle.row = 0 /\ Idle.book = 0
  BY DEF Idle, Request, Operation, Step

\* What a request that has looked for the name it adds goes on to.
Looked(c, q) ==
  /\ Goes(c, q) /\ Fits(q, Len(rows), Len(books)) /\ Free(q)
  /\ q.op \in {"add", "import"} /\ q.step \in {"insert", "saveRow"} /\ q.book = 0

\* A request that has looked for the name it adds goes on only if there is no row
\* of that name, or only deleted ones.
LEMMA LookFits ==
  ASSUME TypeOK, NEW c \in Requests, NEW n \in Name, NEW found \in SUBSET DOMAIN rows,
         Named(n) \cap Shown \subseteq found,
         NEW next \in Request, next.op \in {"add", "import"}, next.row = 0, next.book = 0,
         LookToAdd(c, n, found, next)
  PROVE  \E q \in Request : Looked(c, q)
<1>0. /\ Len(rows) \in Nat /\ Len(books) \in Nat /\ DOMAIN rows = 1..Len(rows)
      /\ \A i \in DOMAIN rows : rows[i] \in Row
  BY Indices
<1>1. "insert" \in Step /\ "saveRow" \in Step
  BY DEF Step
<1>2. ASSUME found = {},
             Goes(c, [next EXCEPT !.step = "insert", !.copy = {[name |-> n, active |-> TRUE]}])
      PROVE  \E q \in Request : Looked(c, q)
  <2>1. PICK r : r = [name |-> n, active |-> TRUE]
    OBVIOUS
  <2>2. r \in Row /\ r.active
    BY <2>1 DEF Row
  <2>3. PICK q : q = [next EXCEPT !.step = "insert", !.copy = {r}]
    OBVIOUS
  <2>4. /\ q \in Request
        /\ q.op = next.op /\ q.step = "insert" /\ q.row = 0 /\ q.book = 0 /\ q.copy = {r}
    BY <1>1, <2>2, <2>3 DEF Request
  <2>5. Shape(q, Len(rows), Len(books))
    BY <1>0, <2>4 DEF Shape
  <2>6. Writes(q, Len(rows))
    BY <2>2, <2>4 DEF Writes
  <2>7. Free(q)
    BY <1>2, <2>1, <2>4 DEF Free, Named, Shown
  <2>8. QED
    BY <1>2, <2>1, <2>3, <2>4, <2>5, <2>6, <2>7 DEF Fits, Looked
<1>3. ASSUME NEW i \in found,
             Goes(c, [next EXCEPT !.step = "saveRow", !.row = i,
                                  !.copy = {[rows[i] EXCEPT !.active = TRUE]}])
      PROVE  \E q \in Request : Looked(c, q)
  <2>1. PICK r : r = [rows[i] EXCEPT !.active = TRUE]
    OBVIOUS
  <2>2. r \in Row /\ r.active /\ i \in 1..Len(rows)
    BY <1>0, <2>1 DEF Row
  <2>3. PICK q : q = [next EXCEPT !.step = "saveRow", !.row = i, !.copy = {r}]
    OBVIOUS
  <2>4. /\ q \in Request
        /\ q.op = next.op /\ q.step = "saveRow" /\ q.row = i /\ q.book = 0 /\ q.copy = {r}
    <3>1. i \in Nat
      BY <1>0, <2>2
    <3>2. QED
      BY <1>1, <2>2, <2>3, <3>1 DEF Request
  <2>5. Shape(q, Len(rows), Len(books))
    BY <1>0, <2>2, <2>4 DEF Shape
  <2>6. Writes(q, Len(rows))
    BY <2>2, <2>4 DEF Writes
  <2>7. Free(q)
    BY <2>4 DEF Free
  <2>8. QED
    BY <1>3, <2>1, <2>3, <2>4, <2>5, <2>6, <2>7 DEF Fits, Looked
<1>4. QED
  BY <1>2, <1>3 DEF LookToAdd


\* A step that changes no table, and the end of a request.
LEMMA SameTables ==
  ASSUME IInv, NEW c \in Requests, NEW q \in Request, Goes(c, q), UNCHANGED <<kind, rows, books>>,
         Fits(q, Len(rows), Len(books)), Free(q), q.step # "attach",
         \A d \in Requests : d # c /\ At(d, "attach") =>
           q.book # req[d].book \/ Harmless(q, req[d].row),
         "use" \notin raced /\ Holds(q) => q.row \in Shown,
         q.op = "delete" => \A b \in DOMAIN books : books[b].active => books[b].row # q.row
  PROVE  Keeping(c)
<1>1. /\ Len(rows) \in Nat /\ Len(books) \in Nat /\ rows \in Seq(Row) /\ books \in Seq(Book)
      /\ \A b \in DOMAIN books : books[b].row <= Len(rows)
  BY DEF IInv, IType, TypeOK
<1>2. Keeps(c, q)
  BY <1>1 DEF Keeps
<1>3. KeepsUse(c, q)
  BY DEF KeepsUse, Shown
<1>4. KeepsAttached(c, q)
  BY DEF KeepsAttached
<1>5. KeepsNames(c, q)
  BY DEF KeepsNames, Free, Shown
<1>6. QED
  BY <1>2, <1>3, <1>4, <1>5 DEF Keeping

\* The book of an import that waits for its file is one of the table.
LEMMA AttachedBook ==
  ASSUME IInv, NEW d \in Requests, At(d, "attach")
  PROVE  /\ req[d].book \in DOMAIN books /\ ~books[req[d].book].active
         /\ books[req[d].book].row = req[d].row
         /\ req[d].op = "import"
         /\ \A c \in Requests : c # d => req[c].book # req[d].book \/ Harmless(req[c], req[d].row)
<1>1. req[d] \in Request /\ Shape(req[d], Len(rows), Len(books))
  BY DEF IInv, IType, TypeOK, Fits
<1>2. DOMAIN books = 1..Len(books) /\ Len(books) \in Nat
  BY Indices DEF IInv, IType
<1>3. req[d].book \in Nat /\ req[d].book # 0 /\ req[d].book <= Len(books) /\ req[d].op = "import"
  BY <1>1 DEF At, Shape, Request
<1>4. QED
  BY <1>2, <1>3 DEF IInv, Attached

\* A request that fails or is left.
LEMMA FailsKeeps == ASSUME IInv, NEW c \in Requests, Fails(c) PROVE Keeping(c)
<1>1. Len(rows) \in Nat /\ Len(books) \in Nat
  BY DEF IInv, IType, TypeOK
<1>2. Idle \in Request /\ Fits(Idle, Len(rows), Len(books)) /\ Free(Idle) /\ ~Holds(Idle)
  BY <1>1, IdleFits, IdleFields DEF Free, Holds
<1>3. \A d \in Requests : d # c /\ At(d, "attach") => Idle.book # req[d].book
  <2>1. ASSUME NEW d \in Requests, At(d, "attach") PROVE req[d].book # 0
    BY <1>1, <2>1, AttachedBook, Indices DEF IInv, IType
  <2>2. QED
    BY <2>1, IdleFields
<1>4. QED
  BY <1>2, <1>3, IdleFields, SameTables DEF Fails, Ends

\* What the proofs about the actions start from.
LEMMA Facts ==
  ASSUME IInv
  PROVE  /\ Len(rows) \in Nat /\ DOMAIN rows = 1..Len(rows) /\ rows \in Seq(Row)
         /\ Len(books) \in Nat /\ DOMAIN books = 1..Len(books) /\ books \in Seq(Book)
         /\ \A i \in DOMAIN rows : rows[i] \in Row
         /\ \A b \in DOMAIN books : books[b] \in Book /\ books[b].row <= Len(rows)
         /\ \A c \in Requests : /\ req[c] \in Request
                                /\ Shape(req[c], Len(rows), Len(books))
                                /\ Writes(req[c], Len(rows))
         /\ \A d \in Requests : At(d, "attach") => req[d].book # 0
  BY Indices DEF IInv, IType, TypeOK, Fits, Shape, At

\* A request that is about rows starts, or goes on, with no book.
LEMMA NoBook ==
  ASSUME IInv, NEW c \in Requests, NEW q \in Request, Goes(c, q), UNCHANGED <<kind, rows, books>>,
         Fits(q, Len(rows), Len(books)), Free(q), q.step # "attach", q.book = 0,
         "use" \notin raced /\ Holds(q) => q.row \in Shown,
         q.op = "delete" => \A b \in DOMAIN books : books[b].active => books[b].row # q.row
  PROVE  Keeping(c)
<1>1. \A d \in Requests : d # c /\ At(d, "attach") => q.book # req[d].book
  BY Facts
<1>2. QED
  BY <1>1, SameTables

\* Requests that look at the table of rows.
LEMMA BeginAddKeeps == ASSUME IInv, NEW c \in Requests, BeginAdd(c) PROVE Keeping(c)
<1>1. PICK n \in Name : LookToAdd(c, n, FoundByAdd(n), [Idle EXCEPT !.op = "add"])
  BY DEF BeginAdd
<1>2. PICK next : next = [Idle EXCEPT !.op = "add"]
  OBVIOUS
<1>3. next \in Request /\ next.op = "add" /\ next.row = 0 /\ next.book = 0
  BY <1>2, IdleFields DEF Request, Operation
<1>4. FoundByAdd(n) \in SUBSET DOMAIN rows /\ Named(n) \cap Shown \subseteq FoundByAdd(n)
  BY DEF FoundByAdd, Named
<1>5. LookToAdd(c, n, FoundByAdd(n), next)
  BY <1>1, <1>2
<1>6. \E q \in Request : Looked(c, q)
  BY <1>3, <1>4, <1>5, LookFits DEF IInv, IType
<1>7. PICK q \in Request : Looked(c, q)
  BY <1>6
<1>8. ~Holds(q) /\ q.step # "attach" /\ q.op # "delete"
  BY <1>7 DEF Looked, Holds
<1>9. QED
  BY <1>7, <1>8, NoBook DEF Looked, BeginAdd

\* No other row that is shown has the new name.
LEMMA BeginRenameKeeps == ASSUME IInv, NEW c \in Requests, BeginRename(c) PROVE Keeping(c)
<1>0. /\ Len(rows) \in Nat /\ DOMAIN rows = 1..Len(rows) /\ Len(books) \in Nat
      /\ \A i \in DOMAIN rows : rows[i] \in Row
  BY Facts
<1>1. PICK i \in Shown, n \in Name :
        /\ ~Taken(i, n)
        /\ Goes(c, [Idle EXCEPT !.op = "rename", !.step = "saveRow", !.row = i,
                                !.copy = {[rows[i] EXCEPT !.name = n]}])
  BY DEF BeginRename
<1>2. PICK r : r = [rows[i] EXCEPT !.name = n]
  OBVIOUS
<1>3. r \in Row /\ r.active /\ r.name = n /\ i \in 1..Len(rows) /\ i \in Nat
  BY <1>0, <1>2 DEF Row, Shown
<1>4. PICK q : q = [Idle EXCEPT !.op = "rename", !.step = "saveRow", !.row = i, !.copy = {r}]
  OBVIOUS
<1>5. /\ q \in Request
      /\ q.op = "rename" /\ q.step = "saveRow" /\ q.row = i /\ q.book = 0 /\ q.copy = {r}
  BY <1>3, <1>4, IdleFields DEF Request, Operation, Step
<1>6. Shape(q, Len(rows), Len(books))
  BY <1>0, <1>3, <1>5 DEF Shape
<1>7. Writes(q, Len(rows))
  BY <1>3, <1>5 DEF Writes
<1>8. Free(q)
  BY <1>1, <1>3, <1>5 DEF Free, Taken, Named, Shown
<1>9. Goes(c, q)
  BY <1>1, <1>2, <1>4
<1>10. QED
  BY <1>5, <1>6, <1>7, <1>8, <1>9, NoBook DEF Holds, Fits, BeginRename

\* No book that is shown is filed under the row.
LEMMA BeginDeleteKeeps == ASSUME IInv, NEW c \in Requests, BeginDelete(c) PROVE Keeping(c)
<1>0. /\ Len(rows) \in Nat /\ DOMAIN rows = 1..Len(rows) /\ Len(books) \in Nat
      /\ \A i \in DOMAIN rows : rows[i] \in Row
  BY Facts
<1>1. PICK i \in Shown :
        /\ ~InUse(i)
        /\ Goes(c, [Idle EXCEPT !.op = "delete", !.step = "saveRow", !.row = i,
                                !.copy = {[rows[i] EXCEPT !.active = FALSE]}])
  BY DEF BeginDelete
<1>2. PICK r : r = [rows[i] EXCEPT !.active = FALSE]
  OBVIOUS
<1>3. r \in Row /\ ~r.active /\ i \in 1..Len(rows) /\ i \in Nat
  <2>1. i \in 1..Len(rows) /\ i \in Nat /\ rows[i] \in Row
    BY <1>0 DEF Shown
  <2>2. r \in Row
    BY <1>2, <2>1 DEF Row
  <2>3. r.active = FALSE
    BY <1>2, <2>1 DEF Row
  <2>4. QED
    BY <2>1, <2>2, <2>3
<1>4. PICK q : q = [Idle EXCEPT !.op = "delete", !.step = "saveRow", !.row = i, !.copy = {r}]
  OBVIOUS
<1>5. /\ q \in Request
      /\ q.op = "delete" /\ q.step = "saveRow" /\ q.row = i /\ q.book = 0 /\ q.copy = {r}
  BY <1>3, <1>4, IdleFields DEF Request, Operation, Step
<1>6. Shape(q, Len(rows), Len(books))
  BY <1>0, <1>3, <1>5 DEF Shape
<1>7. Writes(q, Len(rows))
  BY <1>3, <1>5 DEF Writes
<1>8. Free(q) /\ \A b \in DOMAIN books : books[b].active => books[b].row # q.row
  BY <1>1, <1>5 DEF Free, InUse
<1>9. Goes(c, q)
  BY <1>1, <1>2, <1>4
<1>10. QED
  BY <1>5, <1>6, <1>7, <1>8, <1>9, NoBook DEF Holds, Fits, BeginDelete

\* An import files books under a row that is shown, none, or a row it adds or revives.
LEMMA BeginImportKeeps == ASSUME IInv, NEW c \in Requests, BeginImport(c) PROVE Keeping(c)
<1>0. /\ Len(rows) \in Nat /\ DOMAIN rows = 1..Len(rows) /\ Len(books) \in Nat
  BY Facts
<1>1. PICK import : /\ import = [Idle EXCEPT !.op = "import"]
                    /\ \/ \E i \in Choices : Goes(c, [import EXCEPT !.step = "addBook", !.row = i])
                       \/ kind = "series" /\ \E n \in Name : LookToAdd(c, n, Named(n), import)
  BY Zenon DEF BeginImport
<1>2. /\ import \in Request /\ import.op = "import" /\ import.row = 0 /\ import.book = 0
      /\ import.step = "idle"
  BY <1>1, IdleFields DEF Request, Operation
<1>3. ASSUME NEW i \in Choices, Goes(c, [import EXCEPT !.step = "addBook", !.row = i])
      PROVE  Keeping(c)
  <2>1. i \in Nat /\ i <= Len(rows) /\ (i # 0 => i \in Shown)
    BY <1>0 DEF Choices, Shown
  <2>2. PICK q : q = [import EXCEPT !.step = "addBook", !.row = i]
    OBVIOUS
  <2>3. q \in Request /\ q.op = "import" /\ q.step = "addBook" /\ q.row = i /\ q.book = 0
    BY <1>2, <2>1, <2>2 DEF Request, Step
  <2>4. Shape(q, Len(rows), Len(books))
    BY <1>0, <2>1, <2>3 DEF Shape
  <2>5. Writes(q, Len(rows)) /\ Free(q)
    BY <2>3 DEF Writes, Free
  <2>6. Holds(q) => q.row \in Shown
    BY <2>1, <2>3 DEF Holds
  <2>7. QED
    BY <1>3, <2>2, <2>3, <2>4, <2>5, <2>6, NoBook DEF Fits, BeginImport
<1>4. ASSUME NEW n \in Name, LookToAdd(c, n, Named(n), import) PROVE Keeping(c)
  <2>1. Named(n) \in SUBSET DOMAIN rows /\ Named(n) \cap Shown \subseteq Named(n)
    BY DEF Named
  <2>2. \E q \in Request : Looked(c, q)
    BY <1>2, <1>4, <2>1, LookFits DEF IInv, IType
  <2>3. PICK q \in Request : Looked(c, q)
    BY <2>2
  <2>4. ~Holds(q) /\ q.step # "attach" /\ q.op # "delete"
    BY <2>3 DEF Looked, Holds
  <2>5. QED
    BY <2>3, <2>4, NoBook DEF Looked, BeginImport
<1>5. QED
  BY <1>1, <1>3, <1>4

\* A book that is shown waits for no file.
LEMMA ShownBook ==
  ASSUME IInv, NEW c \in Requests, NEW b \in DOMAIN books, books[b].active
  PROVE  \A d \in Requests : At(d, "attach") => b # req[d].book
  BY AttachedBook

\* A form holds a row that is shown, or that of a book that is shown.
LEMMA OpenFormKeeps == ASSUME IInv, NEW c \in Requests, OpenForm(c) PROVE Keeping(c)
<1>0. /\ Len(rows) \in Nat /\ DOMAIN rows = 1..Len(rows)
      /\ Len(books) \in Nat /\ DOMAIN books = 1..Len(books)
      /\ \A b \in DOMAIN books : books[b] \in Book /\ books[b].row <= Len(rows)
      /\ \A d \in Requests : At(d, "attach") => req[d].book # 0
  BY Facts
<1>1. PICK b \in {0} \cup {b \in DOMAIN books : Openable(b)} :
        \E i \in Choices \cup (IF b = 0 THEN {} ELSE {books[b].row}) :
          Goes(c, [Idle EXCEPT !.op = "form", !.step = "look", !.page = 1, !.row = i, !.book = b])
  BY DEF OpenForm
<1>2. PICK i \in Choices \cup (IF b = 0 THEN {} ELSE {books[b].row}) :
        Goes(c, [Idle EXCEPT !.op = "form", !.step = "look", !.page = 1, !.row = i, !.book = b])
  BY <1>1
<1>3. b \in Nat /\ b <= Len(books) /\ (b # 0 => b \in DOMAIN books /\ books[b].active)
  BY <1>0 DEF Openable
<1>4. i \in Nat /\ i <= Len(rows)
  <2>1. CASE i \in Choices
    BY <1>0, <2>1 DEF Choices, Shown
  <2>2. CASE b # 0 /\ i = books[b].row
    BY <1>0, <1>3, <2>2 DEF Book
  <2>3. QED
    BY <2>1, <2>2
<1>5. PICK q : q = [Idle EXCEPT !.op = "form", !.step = "look", !.page = 1, !.row = i, !.book = b]
  OBVIOUS
<1>6. 1 \in 0..2
  OBVIOUS
<1>7. q \in Request /\ q.op = "form" /\ q.step = "look" /\ q.row = i /\ q.book = b
  BY <1>3, <1>4, <1>5, <1>6, IdleFields DEF Request, Operation, Step
<1>8. Shape(q, Len(rows), Len(books))
  BY <1>0, <1>3, <1>4, <1>7 DEF Shape
<1>9. Writes(q, Len(rows)) /\ Free(q)
  BY <1>7 DEF Writes, Free
<1>10. "use" \notin raced /\ Holds(q) => q.row \in Shown
  <2> SUFFICES ASSUME "use" \notin raced, i # 0 PROVE i \in Shown
    BY <1>7 DEF Holds
  <2>1. CASE i \in Choices
    BY <2>1 DEF Choices
  <2>2. CASE b # 0 /\ i = books[b].row
    BY <1>3, <2>2 DEF IInv, Clear, FiledUnderShown
  <2>3. QED
    BY <2>1, <2>2
<1>11. \A d \in Requests : d # c /\ At(d, "attach") => q.book # req[d].book
  <2>1. CASE b = 0
    BY <1>0, <1>7, <2>1
  <2>2. CASE b # 0
    BY <1>3, <1>7, <2>2, ShownBook
  <2>3. QED
    BY <2>1, <2>2
<1>12. Goes(c, q) /\ UNCHANGED <<kind, rows, books>>
  BY <1>2, <1>5 DEF OpenForm
<1>13. QED
  BY <1>7, <1>8, <1>9, <1>10, <1>11, <1>12, SameTables DEF Fits

\* What is saved is filed under the row that is held, or none.
LEMMA LookAtBookKeeps == ASSUME IInv, NEW c \in Requests, LookAtBook(c) PROVE Keeping(c)
<1>0. /\ req[c] \in Request /\ Shape(req[c], Len(rows), Len(books)) /\ At(c, "look")
      /\ Len(rows) \in Nat /\ Len(books) \in Nat
  BY Facts DEF LookAtBook
<1>1. req[c].op = "form" /\ req[c].row \in Nat /\ req[c].row <= Len(rows) /\ req[c].book <= Len(books)
  BY <1>0 DEF Shape, At, Request
<1>2. PICK s : s = [row |-> OnPage(c), active |-> TRUE]
  OBVIOUS
<1>3. s.row = OnPage(c) /\ OnPage(c) \in {0, req[c].row} /\ s.active \in BOOLEAN
  BY <1>2 DEF OnPage
<1>4. OnPage(c) \in Nat /\ OnPage(c) <= Len(rows)
  BY <1>0, <1>1, <1>3
<1>5. s \in Book
  BY <1>2, <1>4 DEF Book
<1>6. PICK q : q = [req[c] EXCEPT !.step = "saveBook", !.draft = {s}]
  OBVIOUS
<1>7. /\ q \in Request
      /\ q.op = "form" /\ q.step = "saveBook" /\ q.row = req[c].row /\ q.book = req[c].book
      /\ q.draft = {s}
  BY <1>0, <1>1, <1>5, <1>6 DEF Request, Step
<1>8. Shape(q, Len(rows), Len(books))
  BY <1>1, <1>7 DEF Shape
<1>9. Writes(q, Len(rows)) /\ Free(q)
  BY <1>3, <1>4, <1>7 DEF Writes, Free
<1>10. "use" \notin raced /\ Holds(q) => q.row \in Shown
  <2> SUFFICES ASSUME "use" \notin raced, req[c].row # 0 PROVE req[c].row \in Shown
    BY <1>7 DEF Holds
  <2>1. Holds(req[c])
    BY <1>0, <1>1 DEF Holds, At
  <2>2. QED
    BY <2>1 DEF IInv, Clear
<1>11. \A d \in Requests : d # c /\ At(d, "attach") => q.book # req[d].book
  BY <1>1, <1>7, AttachedBook DEF Harmless
<1>12. Goes(c, q) /\ UNCHANGED <<kind, rows, books>>
  BY <1>2, <1>6 DEF LookAtBook
<1>13. QED
  BY <1>7, <1>8, <1>9, <1>10, <1>11, <1>12, SameTables DEF Fits

\* Only a book that is shown is removed.
LEMMA BeginRemoveKeeps == ASSUME IInv, NEW c \in Requests, BeginRemove(c) PROVE Keeping(c)
<1>0. /\ Len(rows) \in Nat /\ Len(books) \in Nat /\ DOMAIN books = 1..Len(books)
      /\ \A b \in DOMAIN books : books[b] \in Book /\ books[b].row <= Len(rows)
  BY Facts
<1>1. PICK b \in DOMAIN books :
        /\ books[b].active
        /\ Goes(c, [Idle EXCEPT !.op = "remove", !.step = "saveBook", !.book = b,
                                !.draft = {[books[b] EXCEPT !.active = FALSE]}])
  BY DEF BeginRemove
<1>2. PICK s : s = [books[b] EXCEPT !.active = FALSE]
  OBVIOUS
<1>3. s \in Book /\ s.row = books[b].row
  BY <1>0, <1>2 DEF Book
<1>4. s.active = FALSE
  BY <1>0, <1>2 DEF Book
<1>5. b \in Nat /\ b # 0 /\ b <= Len(books)
  BY <1>0
<1>6. PICK q : q = [Idle EXCEPT !.op = "remove", !.step = "saveBook", !.book = b, !.draft = {s}]
  OBVIOUS
<1>7. /\ q \in Request
      /\ q.op = "remove" /\ q.step = "saveBook" /\ q.page = 0 /\ q.row = 0 /\ q.book = b /\ q.draft = {s}
  BY <1>3, <1>5, <1>6, IdleFields DEF Request, Operation, Step
<1>8. Shape(q, Len(rows), Len(books))
  BY <1>0, <1>5, <1>7 DEF Shape
<1>9. Writes(q, Len(rows)) /\ Free(q)
  BY <1>0, <1>3, <1>4, <1>7 DEF Writes, Free
<1>10. ~Holds(q) /\ \A d \in Requests : d # c /\ At(d, "attach") => q.book # req[d].book
  BY <1>1, <1>7, ShownBook DEF Holds
<1>11. Goes(c, q) /\ UNCHANGED <<kind, rows, books>>
  BY <1>1, <1>2, <1>6 DEF BeginRemove
<1>12. QED
  BY <1>7, <1>8, <1>9, <1>10, <1>11, SameTables DEF Fits

\* A PATCH holds the row of a book that is shown, and does not hold that of another.
LEMMA BeginPatchKeeps == ASSUME IInv, NEW c \in Requests, BeginPatch(c) PROVE Keeping(c)
<1>0. /\ Len(rows) \in Nat /\ Len(books) \in Nat /\ DOMAIN books = 1..Len(books)
      /\ \A b \in DOMAIN books : books[b] \in Book /\ books[b].row <= Len(rows)
  BY Facts
<1>1. PICK b \in DOMAIN books :
        Goes(c, [Idle EXCEPT !.op = "patch", !.step = "saveBook", !.book = b, !.draft = {books[b]},
                             !.row = IF books[b].active THEN books[b].row ELSE 0])
  BY DEF BeginPatch
<1>2. PICK i : i = IF books[b].active THEN books[b].row ELSE 0
  OBVIOUS
<1>3. /\ i \in Nat /\ i <= Len(rows) /\ (books[b].active => books[b].row = i)
      /\ i # 0 => books[b].active
  BY <1>0, <1>2 DEF Book
<1>4. PICK s : s = books[b]
  OBVIOUS
<1>5. b \in Nat /\ b # 0 /\ b <= Len(books) /\ s \in Book
  BY <1>0, <1>4
<1>6. PICK q : q = [Idle EXCEPT !.op = "patch", !.step = "saveBook", !.book = b, !.draft = {s}, !.row = i]
  OBVIOUS
<1>7. /\ q \in Request
      /\ q.op = "patch" /\ q.step = "saveBook" /\ q.page = 0 /\ q.row = i /\ q.book = b /\ q.draft = {s}
  BY <1>3, <1>5, <1>6, IdleFields DEF Request, Operation, Step
<1>8. Shape(q, Len(rows), Len(books))
  BY <1>0, <1>3, <1>5, <1>7 DEF Shape
<1>9. Writes(q, Len(rows)) /\ Free(q)
  BY <1>0, <1>3, <1>4, <1>7 DEF Writes, Free
<1>10. "use" \notin raced /\ Holds(q) => q.row \in Shown
  BY <1>3, <1>7 DEF Holds, IInv, Clear, FiledUnderShown
<1>11. ASSUME NEW d \in Requests, d # c, At(d, "attach"), q.book = req[d].book
       PROVE  Harmless(q, req[d].row)
  BY <1>4, <1>7, <1>11, AttachedBook DEF Harmless
<1>12. Goes(c, q) /\ UNCHANGED <<kind, rows, books>>
  BY <1>1, <1>2, <1>4, <1>6 DEF BeginPatch
<1>13. q.op # "delete" /\ q.step # "attach"
  BY <1>7
<1>14. QED
  BY <1>7, <1>8, <1>9, <1>10, <1>11, <1>12, <1>13, SameTables DEF Fits

\* A change of the table of rows, which an import then uses.
LEMMA RowsKeep ==
  ASSUME IInv, NEW c \in Requests, NEW i \in Nat, Filed(c, i), ChangesNames(c),
         rows' \in Seq(Row), Len(rows) <= Len(rows'), i <= Len(rows'), UNCHANGED <<kind, books>>,
         \A j \in Shown : j \in Shown' \/ (req[c].op = "delete" /\ req[c].row = j),
         req[c].op = "import" => i \in Shown'
  PROVE  Keeping(c)
<1>0. /\ Len(rows) \in Nat /\ Len(rows') \in Nat /\ Len(books) \in Nat /\ books \in Seq(Book)
      /\ DOMAIN books = 1..Len(books)
      /\ \A b \in DOMAIN books : books[b] \in Book /\ books[b].row <= Len(rows)
      /\ \A d \in Requests : At(d, "attach") => req[d].book # 0
  BY Facts
<1>1. \E q \in Request : /\ Goes(c, q) /\ q.book = 0 /\ q.row \in {0, i}
                         /\ q.step \in {"idle", "addBook"} /\ q.op \in {"none", "import"}
                         /\ q.step = "addBook" => q.op = "import"
                         /\ q.op = "import" => req[c].op = "import"
  <2>1. CASE req[c].op = "import"
    <3>1. PICK q : q = [Idle EXCEPT !.op = "import", !.step = "addBook", !.row = i]
      OBVIOUS
    <3>2. q \in Request /\ q.op = "import" /\ q.step = "addBook" /\ q.row = i /\ q.book = 0
      BY <3>1, IdleFields DEF Request, Operation, Step
    <3>3. Goes(c, q)
      BY <2>1, <3>1 DEF Filed
    <3>4. QED
      BY <2>1, <3>2, <3>3
  <2>2. CASE req[c].op # "import"
    BY <2>2, IdleFields DEF Filed, Ends
  <2>3. QED
    BY <2>1, <2>2
<1>2. PICK q \in Request : /\ Goes(c, q) /\ q.book = 0 /\ q.row \in {0, i}
                           /\ q.step \in {"idle", "addBook"} /\ q.op \in {"none", "import"}
                           /\ q.step = "addBook" => q.op = "import"
                           /\ q.op = "import" => req[c].op = "import"
  BY <1>1
<1>3. Shape(q, Len(rows'), Len(books')) /\ Writes(q, Len(rows'))
  BY <1>0, <1>2 DEF Shape, Writes
<1>4. \A b \in DOMAIN books' : books'[b].row <= Len(rows')
  BY <1>0 DEF Book
<1>5. Keeps(c, q)
  BY <1>0, <1>2, <1>3, <1>4 DEF Keeps, Fits
<1>6. KeepsUse(c, q)
  BY <1>2 DEF KeepsUse, Holds
<1>7. KeepsAttached(c, q)
  BY <1>0, <1>2 DEF KeepsAttached
<1>8. KeepsNames(c, q)
  BY <1>2 DEF KeepsNames, Free
<1>9. QED
  BY <1>5, <1>6, <1>7, <1>8 DEF Keeping

\* A new row is shown.
LEMMA InsertKeeps == ASSUME IInv, NEW c \in Requests, Insert(c) PROVE Keeping(c)
<1>0. /\ Len(rows) \in Nat /\ DOMAIN rows = 1..Len(rows) /\ rows \in Seq(Row)
      /\ req[c] \in Request /\ Shape(req[c], Len(rows), Len(books)) /\ Writes(req[c], Len(rows))
  BY Facts
<1>1. PICK r \in req[c].copy : rows' = Append(rows, r)
  BY DEF Insert
<1>2. r \in Row /\ r.active
  BY <1>0, <1>1 DEF Insert, At, Request, Shape, Writes
<1>3. /\ rows' \in Seq(Row) /\ Len(rows') = Len(rows) + 1 /\ DOMAIN rows' = 1..(Len(rows) + 1)
      /\ rows'[Len(rows) + 1] = r
      /\ \A j \in 1..Len(rows) : rows'[j] = rows[j]
  BY <1>0, <1>1, <1>2, AppendFacts
<1>4. Len(rows) + 1 \in Shown' /\ \A j \in Shown : j \in Shown'
  BY <1>0, <1>2, <1>3 DEF Shown
<1>5. Len(rows) + 1 \in Nat /\ Len(rows) <= Len(rows') /\ Len(rows) + 1 <= Len(rows')
  BY <1>0, <1>3
<1>6. Filed(c, Len(rows) + 1) /\ ChangesNames(c) /\ UNCHANGED <<kind, books>>
  BY DEF Insert, ChangesNames
<1>7. QED
  BY <1>3, <1>4, <1>5, <1>6, RowsKeep

\* Only a deletion writes a row as hidden, if it is shown.
LEMMA SaveRowFacts ==
  ASSUME IInv, NEW c \in Requests, SaveRow(c)
  PROVE  LET i == req[c].row IN
         \E r \in req[c].copy :
           /\ i \in DOMAIN rows /\ Saved(req[c], r) \in Row
           /\ rows' \in Seq(Row) /\ Len(rows') = Len(rows) /\ DOMAIN rows' = DOMAIN rows
           /\ rows'[i] = Saved(req[c], r) /\ Saved(req[c], r).name = r.name
           /\ \A j \in DOMAIN rows : j # i => rows'[j] = rows[j]
           /\ req[c].op # "delete" /\ rows[i].active => Saved(req[c], r).active
           /\ req[c].op \notin {"delete", "rename"} => Saved(req[c], r).active
           /\ req[c].op = "delete" => ~Saved(req[c], r).active
<1> DEFINE i == req[c].row
<1>0. /\ Len(rows) \in Nat /\ DOMAIN rows = 1..Len(rows) /\ rows \in Seq(Row)
      /\ \A j \in DOMAIN rows : rows[j] \in Row
      /\ req[c] \in Request /\ Shape(req[c], Len(rows), Len(books)) /\ Writes(req[c], Len(rows))
  BY Facts
<1>1. PICK r \in req[c].copy : rows' = [rows EXCEPT ![i] = Saved(req[c], r)]
  BY DEF SaveRow
<1>2. i \in DOMAIN rows /\ r \in Row /\ rows[i] \in Row
  BY <1>0, <1>1 DEF SaveRow, At, Request, Shape
<1>3. /\ req[c].op = "delete" => ~r.active
      /\ req[c].op # "delete" => r.active
  BY <1>0, <1>1 DEF SaveRow, At, Writes
<1>4. /\ Saved(req[c], r) \in Row /\ Saved(req[c], r).name = r.name
      /\ Saved(req[c], r).active = IF req[c].op = "rename" /\ kind = "genre"
                                   THEN rows[i].active ELSE r.active
  BY <1>2 DEF Saved, Row
<1>5. /\ rows' \in Seq(Row) /\ Len(rows') = Len(rows) /\ DOMAIN rows' = DOMAIN rows
      /\ rows'[i] = Saved(req[c], r)
      /\ \A j \in DOMAIN rows : j # i => rows'[j] = rows[j]
  BY <1>0, <1>1, <1>2, <1>4, UpdateFacts
<1>6. /\ req[c].op # "delete" /\ rows[i].active => Saved(req[c], r).active
      /\ req[c].op \notin {"delete", "rename"} => Saved(req[c], r).active
      /\ req[c].op = "delete" => ~Saved(req[c], r).active
  BY <1>3, <1>4
<1>7. QED
  BY <1>1, <1>2, <1>4, <1>5, <1>6

\* A row is hidden only by a deletion.
LEMMA SaveRowKeeps == ASSUME IInv, NEW c \in Requests, SaveRow(c) PROVE Keeping(c)
<1> DEFINE i == req[c].row
<1>0. Len(rows) \in Nat /\ DOMAIN rows = 1..Len(rows)
  BY Facts
<1>1. PICK r \in req[c].copy :
        /\ i \in DOMAIN rows /\ Saved(req[c], r) \in Row
        /\ rows' \in Seq(Row) /\ Len(rows') = Len(rows) /\ DOMAIN rows' = DOMAIN rows
        /\ rows'[i] = Saved(req[c], r)
        /\ \A j \in DOMAIN rows : j # i => rows'[j] = rows[j]
        /\ req[c].op # "delete" /\ rows[i].active => Saved(req[c], r).active
        /\ req[c].op \notin {"delete", "rename"} => Saved(req[c], r).active
  BY SaveRowFacts
<1>2. \A j \in Shown : j \in Shown' \/ (req[c].op = "delete" /\ req[c].row = j)
  BY <1>1 DEF Shown
<1>3. req[c].op = "import" => i \in Shown'
  BY <1>1 DEF Shown
<1>4. i \in Nat /\ i <= Len(rows') /\ Len(rows) <= Len(rows')
  BY <1>0, <1>1
<1>5. Filed(c, i) /\ ChangesNames(c) /\ UNCHANGED <<kind, books>>
  BY DEF SaveRow, ChangesNames
<1>6. QED
  BY <1>1, <1>2, <1>3, <1>4, <1>5, RowsKeep

\* A change of the table of books: book b is new or changed, the request goes on
\* with it or with none.
LEMMA BooksKeep ==
  ASSUME IInv, NEW c \in Requests, NEW q \in Request, Goes(c, q), NEW b \in DOMAIN books',
         books' \in Seq(Book), Len(books) <= Len(books'), UNCHANGED <<kind, rows>>,
         books'[b].row <= Len(rows),
         \A x \in DOMAIN books' : x # b => x \in DOMAIN books /\ books'[x] = books[x],
         \A d \in Requests : d # c /\ At(d, "attach") => req[d].book # b,
         books'[b].active /\ books'[b].row # 0 => Holds(req[c]) /\ books'[b].row = req[c].row,
         Fits(q, Len(rows), Len(books')), q.book \in {0, b},
         q.step \notin {"insert", "saveRow"},
         "use" \notin raced /\ Holds(q) => q.row \in Shown,
         q.step = "attach" => /\ ~books'[b].active /\ books'[b].row = q.row
                              /\ \A d \in Requests : d # c => req[d].book # b
  PROVE  Keeping(c)
<1>0. /\ Len(rows) \in Nat /\ rows \in Seq(Row) /\ Len(books) \in Nat
      /\ DOMAIN books = 1..Len(books)
      /\ \A x \in DOMAIN books : books[x] \in Book /\ books[x].row <= Len(rows)
      /\ \A d \in Requests : At(d, "attach") => req[d].book # 0
  BY Facts
<1>1. Len(books') \in Nat /\ DOMAIN books' = 1..Len(books')
  OBVIOUS
<1>2. q.op # "delete" /\ (q.step = "attach" => q.book = b)
  BY <1>0 DEF Fits, Shape
<1>3. \A x \in DOMAIN books' : books'[x].row <= Len(rows')
  BY <1>0
<1>4. Keeps(c, q)
  BY <1>0, <1>3 DEF Keeps
<1>5. KeepsUse(c, q)
  BY <1>2 DEF KeepsUse, Shown
<1>6. ASSUME NEW d \in Requests, d # c, At(d, "attach")
      PROVE  books'[req[d].book] = books[req[d].book] /\ q.book # req[d].book
  <2>1. req[d].book \in DOMAIN books /\ req[d].book # b /\ req[d].book # 0
    BY <1>0, <1>6, AttachedBook
  <2>2. req[d].book \in DOMAIN books'
    BY <1>0, <1>1, <2>1
  <2>3. QED
    BY <2>1, <2>2
<1>7. KeepsAttached(c, q)
  BY <1>2, <1>6 DEF KeepsAttached
<1>8. KeepsNames(c, q)
  BY DEF KeepsNames, Free
<1>9. QED
  BY <1>4, <1>5, <1>7, <1>8 DEF Keeping

\* The form goes on to its second page, or the request ends.
LEMMA PageSavedFacts ==
  ASSUME IInv, NEW c \in Requests, NEW b \in Nat, NEW m \in Nat, PageSaved(c, b),
         At(c, "saveBook"), b <= m, b # 0
  PROVE  \E q \in Request : /\ Goes(c, q) /\ q.book \in {0, b} /\ Fits(q, Len(rows), m)
                            /\ q.step \in {"idle", "look"}
                            /\ Holds(q) => Holds(req[c]) /\ q.row = req[c].row
<1>0. /\ Len(rows) \in Nat /\ req[c] \in Request /\ Shape(req[c], Len(rows), Len(books))
  BY Facts
<1>1. CASE req[c].page = 1 /\ req[c].op = "form"
  <2>1. PICK q : q = [req[c] EXCEPT !.step = "look", !.page = 2, !.book = b, !.draft = {}]
    OBVIOUS
  <2>2. 2 \in 0..2
    OBVIOUS
  <2>3. /\ q \in Request
        /\ q.op = "form" /\ q.step = "look" /\ q.row = req[c].row /\ q.book = b
    BY <1>0, <1>1, <2>1, <2>2 DEF Request, Step
  <2>4. Shape(q, Len(rows), m)
    BY <1>0, <2>3 DEF Shape
  <2>5. Writes(q, Len(rows))
    BY <2>3 DEF Writes
  <2>6. Holds(q) => Holds(req[c])
    BY <1>1, <2>3 DEF Holds, At
  <2>7. Goes(c, q)
    BY <1>1, <2>1 DEF PageSaved
  <2>8. QED
    BY <2>3, <2>4, <2>5, <2>6, <2>7 DEF Fits
<1>2. CASE req[c].page # 1
  <2>1. Fits(Idle, Len(rows), m) /\ Idle \in Request /\ ~Holds(Idle)
    BY <1>0, IdleFits, IdleFields DEF Holds
  <2>2. QED
    BY <1>2, <2>1, IdleFields DEF PageSaved, Ends
<1>3. req[c].op \in {"form", "remove", "patch"} /\ (req[c].op \in {"remove", "patch"} => req[c].page = 0)
  BY <1>0 DEF Shape, At
<1>4. QED
  BY <1>1, <1>2, <1>3

\* What a form, a removal or a PATCH saves of a book.
LEMMA DraftFacts ==
  ASSUME IInv, NEW c \in Requests, At(c, "saveBook"), NEW s \in req[c].draft
  PROVE  /\ s \in Book /\ s.row <= Len(rows)
         /\ s.active /\ s.row # 0 => Holds(req[c]) /\ s.row = req[c].row
<1>1. /\ req[c] \in Request /\ Shape(req[c], Len(rows), Len(books)) /\ Writes(req[c], Len(rows))
  BY Facts
<1>2. s \in Book /\ s.row <= Len(rows)
  BY <1>1 DEF Request, Writes, At
<1>3. CASE req[c].op = "remove"
  BY <1>1, <1>2, <1>3 DEF Writes, At
<1>4. CASE req[c].op = "form"
  BY <1>1, <1>2, <1>4 DEF Writes, At, Holds
<1>5. CASE req[c].op = "patch"
  BY <1>1, <1>2, <1>5 DEF Writes, At, Holds
<1>6. QED
  BY <1>1, <1>3, <1>4, <1>5 DEF Shape, At

\* A new book.
LEMMA AddBookKeeps == ASSUME IInv, NEW c \in Requests, AddBook(c) PROVE Keeping(c)
<1> DEFINE b == Len(books) + 1
<1>0. /\ Len(books) \in Nat /\ DOMAIN books = 1..Len(books) /\ books \in Seq(Book)
      /\ \A d \in Requests : req[d] \in Request /\ Shape(req[d], Len(rows), Len(books))
  BY Facts
<1>1. PICK s \in req[c].draft : books' = Append(books, s)
  BY DEF AddBook
<1>2. /\ s \in Book /\ s.row <= Len(rows)
      /\ s.active /\ s.row # 0 => Holds(req[c]) /\ s.row = req[c].row
  BY DraftFacts DEF AddBook
<1>3. /\ books' \in Seq(Book) /\ Len(books') = b /\ DOMAIN books' = 1..b /\ books'[b] = s
      /\ \A x \in 1..Len(books) : books'[x] = books[x]
  BY <1>0, <1>1, <1>2, AppendFacts
<1>4. b \in Nat /\ b # 0 /\ b \in DOMAIN books' /\ Len(books) <= Len(books')
  BY <1>0, <1>3
<1>5. \A x \in DOMAIN books' : x # b => x \in DOMAIN books /\ books'[x] = books[x]
  BY <1>0, <1>3
<1>6. \A d \in Requests : req[d].book # b
  BY <1>0 DEF Shape, Request
<1>7. PICK q \in Request : /\ Goes(c, q) /\ q.book \in {0, b} /\ Fits(q, Len(rows), b)
                           /\ q.step \in {"idle", "look"}
                           /\ Holds(q) => Holds(req[c]) /\ q.row = req[c].row
  BY <1>4, PageSavedFacts DEF AddBook
<1>8. "use" \notin raced /\ Holds(q) => q.row \in Shown
  BY <1>7 DEF IInv, Clear
<1>9. UNCHANGED <<kind, rows>>
  BY DEF AddBook
<1>10. QED
  BY <1>2, <1>3, <1>4, <1>5, <1>6, <1>7, <1>8, <1>9, BooksKeep

\* A PATCH of a book that waits for its file saves it as it is.
LEMMA SaveWaitingKeeps ==
  ASSUME IInv, NEW c \in Requests, SaveBook(c),
         NEW e \in Requests, e # c, At(e, "attach"), req[e].book = req[c].book
  PROVE  Keeping(c)
<1> DEFINE b == req[c].book
<1>0. /\ Len(rows) \in Nat
      /\ Len(books) \in Nat /\ DOMAIN books = 1..Len(books) /\ books \in Seq(Book)
      /\ \A x \in DOMAIN books : books[x] \in Book
      /\ req[c] \in Request /\ Shape(req[c], Len(rows), Len(books))
      /\ \A d \in Requests : At(d, "attach") => req[d].book # 0
  BY Facts
<1>1. PICK s \in req[c].draft : books' = [books EXCEPT ![b] = s]
  BY DEF SaveBook
<1>2. /\ b \in DOMAIN books /\ ~books[b].active /\ books[b].row = req[e].row
      /\ Harmless(req[c], req[e].row)
  BY AttachedBook
<1>3. s \in Book /\ ~s.active /\ s.row = req[e].row /\ req[c].page = 0
  BY <1>0, <1>2 DEF Harmless, Request, Shape
<1>4. s = books[b]
  <2>1. s.active = FALSE /\ books[b].active = FALSE /\ books[b] \in Book
    BY <1>0, <1>2, <1>3 DEF Book
  <2>2. s.row = books[b].row
    BY <1>2, <1>3
  <2>3. QED
    BY <1>3, <2>1, <2>2 DEF Book
<1>5. books' = books
  BY <1>0, <1>1, <1>2, <1>4
<1>6. Goes(c, Idle) /\ UNCHANGED <<kind, rows, books>>
  BY <1>3, <1>5 DEF SaveBook, PageSaved, Ends
<1>7. Fits(Idle, Len(rows), Len(books)) /\ Free(Idle) /\ ~Holds(Idle)
  BY <1>0, IdleFits, IdleFields DEF Free, Holds, Idle
<1>8. QED
  BY <1>6, <1>7, IdleFields, NoBook

\* A book that is there and waits for no file.
LEMMA SaveBookKeeps == ASSUME IInv, NEW c \in Requests, SaveBook(c) PROVE Keeping(c)
<1> DEFINE b == req[c].book
<1>0. /\ Len(books) \in Nat /\ DOMAIN books = 1..Len(books) /\ books \in Seq(Book)
      /\ req[c] \in Request /\ Shape(req[c], Len(rows), Len(books))
  BY Facts
<1>1. PICK s \in req[c].draft : books' = [books EXCEPT ![b] = s]
  BY DEF SaveBook
<1>2. /\ s \in Book /\ s.row <= Len(rows)
      /\ s.active /\ s.row # 0 => Holds(req[c]) /\ s.row = req[c].row
  BY DraftFacts DEF SaveBook
<1>3. b \in Nat /\ b # 0 /\ b <= Len(books) /\ b \in DOMAIN books
  BY <1>0 DEF SaveBook, Request, Shape
<1>4. /\ books' \in Seq(Book) /\ Len(books') = Len(books) /\ DOMAIN books' = DOMAIN books
      /\ books'[b] = s
      /\ \A x \in DOMAIN books : x # b => books'[x] = books[x]
  BY <1>0, <1>1, <1>2, <1>3, UpdateFacts
<1>w. CASE \E d \in Requests : d # c /\ At(d, "attach") /\ req[d].book = b
  BY <1>w, SaveWaitingKeeps
<1> SUFFICES ASSUME \A d \in Requests : d # c /\ At(d, "attach") => req[d].book # b
             PROVE  Keeping(c)
  BY <1>w
<1>6. PICK q \in Request : /\ Goes(c, q) /\ q.book \in {0, b} /\ Fits(q, Len(rows), Len(books))
                           /\ q.step \in {"idle", "look"}
                           /\ Holds(q) => Holds(req[c]) /\ q.row = req[c].row
  BY <1>0, <1>3, PageSavedFacts DEF SaveBook
<1>7. "use" \notin raced /\ Holds(q) => q.row \in Shown
  BY <1>6 DEF IInv, Clear
<1>8. UNCHANGED <<kind, rows>> /\ Len(books) <= Len(books')
  BY <1>0, <1>4 DEF SaveBook
<1>9. QED
  BY <1>2, <1>3, <1>4, <1>6, <1>7, <1>8, BooksKeep

\* A book that waits for its file is new, so no other request has it.
LEMMA ImportBookKeeps == ASSUME IInv, NEW c \in Requests, ImportBook(c) PROVE Keeping(c)
<1> DEFINE b == Len(books) + 1
<1>0. /\ Len(rows) \in Nat
      /\ Len(books) \in Nat /\ DOMAIN books = 1..Len(books) /\ books \in Seq(Book)
      /\ \A d \in Requests : req[d] \in Request /\ Shape(req[d], Len(rows), Len(books))
  BY Facts
<1>1. req[c].op = "import" /\ req[c].row \in Nat /\ req[c].row <= Len(rows)
  BY <1>0 DEF ImportBook, At, Shape, Request
<1>2. PICK s : s = [row |-> req[c].row, active |-> FALSE]
  OBVIOUS
<1>3. s \in Book /\ s.row = req[c].row /\ s.active = FALSE
  BY <1>1, <1>2 DEF Book
<1>4. /\ books' \in Seq(Book) /\ Len(books') = b /\ DOMAIN books' = 1..b /\ books'[b] = s
      /\ \A x \in 1..Len(books) : books'[x] = books[x]
  BY <1>0, <1>2, <1>3, AppendFacts DEF ImportBook
<1>5. b \in Nat /\ b # 0 /\ b \in DOMAIN books' /\ Len(books) <= Len(books')
  BY <1>0, <1>4
<1>6. \A x \in DOMAIN books' : x # b => x \in DOMAIN books /\ books'[x] = books[x]
  BY <1>0, <1>4
<1>7. \A d \in Requests : req[d].book # b
  BY <1>0 DEF Shape, Request
<1>8. PICK q : q = [req[c] EXCEPT !.step = "attach", !.book = b]
  OBVIOUS
<1>9. /\ q \in Request
      /\ q.op = "import" /\ q.step = "attach" /\ q.row = req[c].row /\ q.book = b
  BY <1>0, <1>1, <1>5, <1>8 DEF Request, Step
<1>10. Shape(q, Len(rows), Len(books')) /\ Writes(q, Len(rows))
  BY <1>1, <1>4, <1>5, <1>9 DEF Shape, Writes
<1>11. "use" \notin raced /\ Holds(q) => q.row \in Shown
  <2>1. Holds(q) => Holds(req[c])
    BY <1>1, <1>9 DEF Holds, ImportBook, At
  <2>2. QED
    BY <1>9, <2>1 DEF IInv, Clear
<1>12. UNCHANGED <<kind, rows>> /\ Goes(c, q)
  BY <1>8 DEF ImportBook
<1>13. ~books'[b].active /\ books'[b].row = q.row /\ books'[b].row <= Len(rows)
  BY <1>1, <1>3, <1>4, <1>9
<1>14. QED
  BY <1>4, <1>5, <1>6, <1>7, <1>9, <1>10, <1>11, <1>12, <1>13, BooksKeep DEF Fits

\* The book comes to be shown under the row that was held for it.
LEMMA AttachFileKeeps == ASSUME IInv, NEW c \in Requests, AttachFile(c) PROVE Keeping(c)
<1> DEFINE b == req[c].book
<1>0. /\ Len(rows) \in Nat
      /\ Len(books) \in Nat /\ DOMAIN books = 1..Len(books) /\ books \in Seq(Book)
      /\ \A x \in DOMAIN books : books[x] \in Book /\ books[x].row <= Len(rows)
  BY Facts
<1>1. /\ b \in DOMAIN books /\ books[b].row = req[c].row /\ req[c].op = "import"
      /\ \A d \in Requests : d # c /\ At(d, "attach") => req[d].book # b
  BY AttachedBook DEF AttachFile, Harmless
<1>2. PICK s : s = [books[b] EXCEPT !.active = TRUE]
  OBVIOUS
<1>3. s \in Book /\ s.row = req[c].row
  BY <1>0, <1>1, <1>2 DEF Book
<1>4. books' = [books EXCEPT ![b] = s]
  BY <1>2 DEF AttachFile
<1>5. /\ books' \in Seq(Book) /\ Len(books') = Len(books) /\ DOMAIN books' = DOMAIN books
      /\ books'[b] = s
      /\ \A x \in DOMAIN books : x # b => books'[x] = books[x]
  BY <1>0, <1>1, <1>3, <1>4, UpdateFacts
<1>6. s.row # 0 => Holds(req[c])
  BY <1>1, <1>3 DEF Holds, AttachFile, At
<1>7. Fits(Idle, Len(rows), Len(books')) /\ Idle \in Request /\ ~Holds(Idle)
  BY <1>0, <1>5, IdleFits, IdleFields DEF Holds
<1>8. Goes(c, Idle) /\ UNCHANGED <<kind, rows>> /\ Len(books) <= Len(books')
  BY <1>0, <1>5 DEF AttachFile, Ends
<1>9. books'[b].row <= Len(rows)
  BY <1>0, <1>1, <1>3, <1>5
<1>10. QED
  BY <1>1, <1>3, <1>5, <1>6, <1>7, <1>8, <1>9, IdleFields, BooksKeep

----------------------------------------------------------------------------
(* The theorems.                                                           *)

\* The invariant holds initially.
LEMMA InvInit == Init => IInv
<1> SUFFICES ASSUME Init PROVE IInv
  OBVIOUS
<1>1. IType
  BY TypeInit
<1>2. /\ \A c \in Requests : req[c] = Idle
      /\ books = <<>> /\ DOMAIN books = {}
  BY DEF Init
<1>3. Attached
  BY <1>2, IdleFields DEF Attached, At
<1>4. Clear
  BY <1>2, IdleFields DEF Clear, FiledUnderShown, Holds
<1>5. NamesFree
  BY <1>2, IdleFields DEF NamesFree, Free, ChangesNames, At
<1>6. QED
  BY <1>1, <1>3, <1>4, <1>5 DEF IInv

\* Every action keeps within the limits, so every step preserves the invariant.
LEMMA InvStep == IInv /\ [Next]_vars => IInv'
<1> SUFFICES ASSUME IInv, [Next]_vars PROVE IInv'
  OBVIOUS
<1>1. CASE UNCHANGED vars
  BY <1>1 DEF vars, IInv, IType, TypeOK, Attached, Clear, NamesFree, FiledUnderShown, Shown, Free,
              ChangesNames, Files, At
<1>2. CASE Next
  <2>1. PICK c \in Requests : ChangeRows(c) \/ ChangeBooks(c) \/ Import(c) \/ Fails(c)
    BY <1>2 DEF Next
  <2>2. Keeping(c)
    <3>1. CASE ChangeRows(c)
      BY <3>1, BeginAddKeeps, BeginRenameKeeps, BeginDeleteKeeps, InsertKeeps, SaveRowKeeps
      DEF ChangeRows
    <3>2. CASE ChangeBooks(c)
      BY <3>2, OpenFormKeeps, LookAtBookKeeps, BeginRemoveKeeps, BeginPatchKeeps,
         AddBookKeeps, SaveBookKeeps
      DEF ChangeBooks
    <3>3. CASE Import(c)
      BY <3>3, BeginImportKeeps, ImportBookKeeps, AttachFileKeeps DEF Import
    <3>4. QED
      BY <2>1, <3>1, <3>2, <3>3, FailsKeeps
  <2>3. QED
    BY <1>2, <2>2, KeepingPreserves DEF Next
<1>3. QED
  BY <1>1, <1>2

\* The invariant that the three theorems follow from.
LEMMA Invariant == Spec => []IInv
  BY InvInit, InvStep, PTL DEF Spec

\* The tables and the requests hold what their types say, and a book is filed under a
\* row that exists or none.
THEOREM TypeCorrect == Spec => []TypeOK
<1>1. IInv => TypeOK
  BY DEF IInv, IType
<1>2. QED
  BY Invariant, <1>1, PTL

\* A book that is shown is filed under a row that is shown, unless the row was
\* deleted while a form or an import was about to use it, or while a PATCH held a copy
\* of a book filed there: the check that a row is not in use fails in no other way.
THEOREM FiledCorrect == Spec => []FiledUnderShown
<1>1. IInv => FiledUnderShown
  BY DEF IInv, Clear, FiledUnderShown
<1>2. QED
  BY Invariant, <1>1, PTL

\* Rows that are shown come to share a name only when two requests that change names
\* overlap or when a deleted row is revived.
THEOREM TwiceCorrect == Spec => TwiceByRevival
<1> DEFINE Revival == \E c \in Requests : req[c].op \in {"add", "import"} /\ SaveRow(c)
           Twice == Unique /\ ~Unique' => "names" \in raced' \/ Revival
<1>1. ASSUME IInv, [Next]_vars PROVE [Twice]_vars
  <2> SUFFICES ASSUME Next, Unique, "names" \notin raced', ~Revival PROVE Unique'
    BY <1>1
  <2>0. DOMAIN rows = 1..Len(rows) /\ Len(rows) \in Nat /\ rows \in Seq(Row)
    BY <1>1, Facts
  <2>1. PICK c \in Requests : ChangeRows(c) \/ ChangeBooks(c) \/ Import(c) \/ Fails(c)
    BY DEF Next
  <2>2. Free(req[c])
    BY <1>1 DEF IInv, NamesFree, Next
  <2>3. CASE UNCHANGED rows
    BY <2>3 DEF Unique, Shown
  <2>4. CASE Insert(c)
    <3>1. PICK r \in req[c].copy : rows' = Append(rows, r)
      BY <2>4 DEF Insert
    <3>2. r \in Row
      BY <1>1, Facts DEF Request
    <3>3. /\ DOMAIN rows' = 1..(Len(rows) + 1)
          /\ rows'[Len(rows) + 1] = r
          /\ \A j \in 1..Len(rows) : rows'[j] = rows[j]
      BY <2>0, <3>1, <3>2, AppendFacts
    <3>4. \A i \in Shown : rows[i].name # r.name
      BY <2>2, <2>4 DEF Free, Insert, At
    <3>5. \A j \in Shown' : j = Len(rows) + 1 \/ (j \in Shown /\ rows'[j] = rows[j])
      BY <2>0, <3>3 DEF Shown
    <3>6. QED
      BY <3>3, <3>4, <3>5 DEF Unique
  <2>5. CASE SaveRow(c)
    <3> DEFINE i == req[c].row
    <3>1. PICK r \in req[c].copy :
            /\ DOMAIN rows' = DOMAIN rows
            /\ rows'[i] = Saved(req[c], r) /\ Saved(req[c], r).name = r.name
            /\ \A j \in DOMAIN rows : j # i => rows'[j] = rows[j]
            /\ req[c].op = "delete" => ~Saved(req[c], r).active
      BY <1>1, <2>5, SaveRowFacts
    <3>2. \A j \in Shown' : j = i \/ (j \in Shown /\ rows'[j] = rows[j])
      BY <3>1 DEF Shown
    <3>3. CASE req[c].op = "delete"
      BY <3>1, <3>2, <3>3 DEF Unique, Shown
    <3>4. CASE req[c].op = "rename"
      <4>1. \A j \in Shown : rows[j].name = r.name => j = i
        BY <2>2, <2>5, <3>4 DEF Free, SaveRow, At
      <4>2. QED
        BY <3>1, <3>2, <4>1 DEF Unique
    <3>5. req[c].op \in {"delete", "rename"}
      BY <1>1, <2>5, Facts DEF SaveRow, At, Shape
    <3>6. QED
      BY <3>3, <3>4, <3>5
  <2>6. QED
    BY <2>1, <2>3, <2>4, <2>5
    DEF ChangeRows, ChangeBooks, Import, Fails, BeginAdd, BeginRename, BeginDelete, OpenForm,
        LookAtBook, BeginRemove, BeginPatch, AddBook, SaveBook, BeginImport, ImportBook, AttachFile
<1>2. QED
  BY Invariant, <1>1, PTL DEF Spec, TwiceByRevival
=============================================================================
