---------------------------- MODULE Pages_proofs ----------------------------
(***************************************************************************)
(* Proofs about the pages that keep lists, forms and tables, and about the *)
(* viewer.                                                                 *)
(* Each page has an invariant of its own, kept by the steps of its         *)
(* component; the page that is shown never changes, so the invariant holds *)
(* as long as it is shown.                                                 *)
(***************************************************************************)
EXTENDS Pages, Viewer, FiniteSetTheorems, SequenceTheorems, WellFoundedInduction, TLAPS

----------------------------------------------------------------------------
(* The page of bulk imports                                                *)

\* One visit: only a form that has its integration starts an import, and no
\* job has been made while it still has it.
VisitInv ==
  /\ valid => selected
  /\ start # "none" => valid
  /\ start = "sent" => jobs < MaxJobs
  /\ ~failed => /\ jobs <= 1
                /\ ~selected => jobs = 0
                /\ valid /\ start # "made" => jobs = 0

\* What the owner agrees to is what will be sent: the rows are the files that will
\* be imported, and while the dialog is open they do not change unless a picker or
\* a list was under way.
AgreedInv ==
  /\ DOMAIN files # {} \/ start = "dialog" => DOMAIN files = newFiles
  /\ start = "dialog" /\ dto.settled =>
       pickers = 0 /\ lists = 0 /\ dto.agreed = files
  /\ I!ImportsWhatRowsShow

LEMMA ImportConstants ==
  /\ Genres \subseteq Nat \ {0} /\ Genres # {}
  /\ Ages \subseteq Nat \ {0} /\ DefaultAge \in Ages
  /\ MaxLists \in Nat /\ MaxJobs \in Nat
BY PagesAssumption DEF I!ImportPageAssumption

\* A choice is a record with two fields.
LEMMA ChoiceParts ==
  ASSUME NEW c \in I!Choice
  PROVE  /\ c.genre \in Genres \union {0} /\ c.age \in Ages \union {0}
         /\ c = [genre |-> c.genre, age |-> c.age]
         /\ \A g \in Genres : [c EXCEPT !.genre = g] \in I!Choice
         /\ \A a \in Ages : [c EXCEPT !.age = a] \in I!Choice
BY DEF I!Choice

\* The rows of a table are files, and each has a choice.
LEMMA TableParts ==
  ASSUME NEW t
  PROVE  t \in I!Tables <=>
           DOMAIN t \subseteq Files /\ t \in [DOMAIN t -> I!Choice]
BY DEF I!Tables

LEMMA NoRowsType == I!NoRows \in I!Tables /\ DOMAIN I!NoRows = {}
<1>1. I!NoRows \in [{} -> I!Choice]
  BY DEF I!NoRows
<1>2. QED
  BY <1>1 DEF I!Tables, I!NoRows

LEMMA NoImportType == I!NoImport \in I!Import /\ I!NoImport.settled = FALSE
<1>1. I!NoChoice \in I!Choice
  BY DEF I!NoChoice, I!Choice
<1>2. QED
  BY <1>1, NoRowsType DEF I!NoImport, I!Import

\* Genres are numbers, so one is the lowest.
LEMMA FirstGenre ==
  (CHOOSE g \in Genres : \A h \in Genres : g <= h) \in Genres
<1> DEFINE Less == OpToRel(<, Nat)
<1>1. IsWellFoundedOn(Less, Nat)
  BY NatLessThanWellFounded
<1>2. Genres \subseteq Nat /\ Genres # {}
  BY ImportConstants
<1>3. \A x, y \in Nat : y < x => <<y, x>> \in Less
  BY DEF OpToRel
<1> HIDE DEF Less
<1>4. PICK g \in Genres : \A h \in Genres : <<h, g>> \notin Less
  BY <1>1, <1>2, WFMin
<1>5. \A h \in Genres : g <= h
  <2>1. SUFFICES ASSUME NEW h \in Genres PROVE ~(h < g)
    BY <1>2
  <2>2. h \in Nat /\ g \in Nat /\ <<h, g>> \notin Less
    BY <1>2, <1>4
  <2>3. QED
    BY <1>3, <2>2
<1>6. QED
  BY <1>5, Zenon

----------------------------------------------------------------------------
(* The steps of the page of bulk imports                                   *)

LEMMA ImportInit == I!Init => I!TypeOK /\ VisitInv /\ AgreedInv
<1> SUFFICES ASSUME I!Init PROVE I!TypeOK /\ VisitInv /\ AgreedInv
  OBVIOUS
<1>1. I!NoChoice \in I!Choice
  BY DEF I!NoChoice, I!Choice
<1>2. I!TypeOK
  <2>1. files \in I!Tables /\ dto \in I!Import /\ common \in I!Choice
    BY <1>1, NoRowsType, NoImportType DEF I!Init
  <2>2. QED
    <3>1. integrations \in 0..2 /\ selected \in BOOLEAN /\ valid \in BOOLEAN /\ failed \in BOOLEAN
      BY DEF I!Init
    <3>2. pickers \in Nat /\ lists \in Nat /\ pickers + lists <= MaxLists /\ jobs \in 0..MaxJobs
      BY ImportConstants DEF I!Init
    <3>3. newFiles \subseteq Files /\ start \in {"none", "dialog", "sent", "made"}
      BY DEF I!Init
    <3>4. QED
      BY <2>1, <3>1, <3>2, <3>3 DEF I!TypeOK
<1>3. VisitInv
  BY ImportConstants DEF I!Init, VisitInv
<1>4. AgreedInv
  BY NoRowsType DEF I!Init, AgreedInv, I!ImportsWhatRowsShow
<1>5. QED
  BY <1>2, <1>3, <1>4

\* The number of jobs, of lists, and the flags keep their types.
LEMMA ImportTypeStep ==
  ASSUME I!TypeOK, VisitInv, I!Next
  PROVE  I!TypeOK'
<1> USE ImportConstants
<1>0. /\ common \in I!Choice /\ files \in I!Tables /\ newFiles \subseteq Files
      /\ pickers \in Nat /\ lists \in Nat /\ jobs \in Nat /\ dto \in I!Import
  BY DEF I!TypeOK
<1>1. CASE I!IntegrationsListed
  BY <1>1 DEF I!TypeOK, I!IntegrationsListed, I!table, I!picking
<1>2. CASE I!GenresListed
  <2>1. common' \in I!Choice
    BY <1>0, <1>2, FirstGenre, ChoiceParts DEF I!GenresListed
  <2>2. QED
    BY <1>2, <2>1 DEF I!TypeOK, I!GenresListed, I!account, I!picking
<1>3. CASE I!AgesListed
  <2>1. common' \in I!Choice
    BY <1>0, <1>3, ChoiceParts DEF I!AgesListed
  <2>2. QED
    BY <1>3, <2>1 DEF I!TypeOK, I!AgesListed, I!account, I!picking
<1>4. CASE I!OpenPicker \/ I!PickFolder \/ I!PickNothing
  BY <1>0, <1>4 DEF I!TypeOK, I!OpenPicker, I!PickFolder, I!PickNothing, I!account, I!table
<1>5. CASE I!ListFails
  BY <1>5 DEF I!TypeOK, I!ListFails, I!account, I!table, I!picking
<1>6. ASSUME NEW S \in SUBSET Files, I!FilesListed(S) PROVE I!TypeOK'
  <2>1. files' \in I!Tables
    BY <1>0, <1>6 DEF I!FilesListed, I!Tables
  <2>2. QED
    BY <1>6, <2>1 DEF I!TypeOK, I!FilesListed, I!account
<1>7. ASSUME NEW g \in Genres, I!ApplyGlobalGenre(g) PROVE I!TypeOK'
  <2>1. common' \in I!Choice
    BY <1>0, <1>7, ChoiceParts DEF I!ApplyGlobalGenre
  <2>2. \A f \in DOMAIN files : [files[f] EXCEPT !.genre = g] \in I!Choice
    BY <1>0, TableParts, ChoiceParts
  <2>3. files' \in I!Tables
    BY <1>0, <1>7, <2>2, TableParts DEF I!ApplyGlobalGenre, I!FileRows
  <2>4. QED
    BY <1>7, <2>1, <2>3 DEF I!TypeOK, I!ApplyGlobalGenre, I!account, I!picking
<1>8. ASSUME NEW a \in Ages, I!ApplyGlobalAge(a) PROVE I!TypeOK'
  <2>1. common' \in I!Choice
    BY <1>0, <1>8, ChoiceParts DEF I!ApplyGlobalAge
  <2>2. \A f \in DOMAIN files : [files[f] EXCEPT !.age = a] \in I!Choice
    BY <1>0, TableParts, ChoiceParts
  <2>3. files' \in I!Tables
    BY <1>0, <1>8, <2>2, TableParts DEF I!ApplyGlobalAge, I!FileRows
  <2>4. QED
    BY <1>8, <2>1, <2>3 DEF I!TypeOK, I!ApplyGlobalAge, I!account, I!picking
<1>9. ASSUME NEW g \in Genres, NEW f \in I!FileRows, I!OverrideGenre(f, g) PROVE I!TypeOK'
  <2>1. [files[f] EXCEPT !.genre = g] \in I!Choice
    BY <1>0, TableParts, ChoiceParts DEF I!FileRows
  <2>2. files' \in I!Tables
    BY <1>0, <1>9, <2>1, TableParts DEF I!OverrideGenre, I!FileRows
  <2>3. QED
    BY <1>9, <2>2 DEF I!TypeOK, I!OverrideGenre, I!account, I!picking
<1>10. ASSUME NEW a \in Ages, NEW f \in I!FileRows, I!OverrideAge(f, a) PROVE I!TypeOK'
  <2>1. [files[f] EXCEPT !.age = a] \in I!Choice
    BY <1>0, TableParts, ChoiceParts DEF I!FileRows
  <2>2. files' \in I!Tables
    BY <1>0, <1>10, <2>1, TableParts DEF I!OverrideAge, I!FileRows
  <2>3. QED
    BY <1>10, <2>2 DEF I!TypeOK, I!OverrideAge, I!account, I!picking
<1>11. CASE I!Submit
  <2>1. dto' \in I!Import
    BY <1>0, <1>11, NoImportType DEF I!Submit, I!Import
  <2>2. QED
    BY <1>11, <2>1 DEF I!TypeOK, I!Submit, I!account, I!table, I!picking
<1>12. CASE I!Decline
  BY <1>12, NoImportType DEF I!TypeOK, I!Decline, I!account, I!table, I!picking
<1>13. CASE I!Confirm
  <2>1. I!Restrict(files, I!Overridden) \in I!Tables
    <3>1. /\ I!Restrict(files, I!Overridden) = [f \in I!Overridden |-> files[f]]
          /\ I!Overridden \subseteq DOMAIN files
      BY DEF I!Restrict, I!Overridden, I!FileRows
    <3>2. QED
      BY <1>0, <3>1, TableParts
  <2>2. dto' \in I!Import
    BY <1>0, <1>13, <2>1 DEF I!Confirm, I!Import
  <2>3. QED
    BY <1>13, <2>2 DEF I!TypeOK, I!Confirm, I!account, I!table, I!picking
<1>14. CASE I!MakeJob
  BY <1>14 DEF I!TypeOK, VisitInv, I!MakeJob, I!account, I!table, I!picking
<1>15. CASE I!Started
  BY <1>15, NoImportType, NoRowsType DEF I!TypeOK, I!Started, I!account, I!picking
<1>16. CASE I!StartFails
  BY <1>16, NoImportType DEF I!TypeOK, I!StartFails, I!account, I!table, I!picking
<1>17. QED
  BY <1>1, <1>2, <1>3, <1>4, <1>5, <1>6, <1>7, <1>8, <1>9, <1>10, <1>11, <1>12, <1>13,
     <1>14, <1>15, <1>16 DEF I!Next

LEMMA VisitStep ==
  ASSUME I!TypeOK, VisitInv, I!Next
  PROVE  VisitInv'
<1>0. jobs \in Nat /\ MaxJobs \in Nat
  BY ImportConstants DEF I!TypeOK
<1>1. CASE I!IntegrationsListed
  BY <1>0, <1>1 DEF VisitInv, I!IntegrationsListed
<1>2. CASE UNCHANGED <<selected, valid, start, jobs, failed>>
  BY <1>2 DEF VisitInv
<1>3. CASE I!Submit
  BY <1>0, <1>3 DEF VisitInv, I!Submit, I!Covered, I!account
<1>4. CASE I!Decline
  BY <1>0, <1>4 DEF VisitInv, I!Decline, I!account
<1>5. CASE I!Confirm
  BY <1>0, <1>5 DEF VisitInv, I!Confirm, I!account
<1>6. CASE I!MakeJob
  BY <1>0, <1>6 DEF VisitInv, I!MakeJob, I!account
<1>7. CASE I!Started
  BY <1>0, <1>7 DEF VisitInv, I!Started, I!account, I!picking
<1>8. CASE I!StartFails
  BY <1>0, <1>8 DEF VisitInv, I!StartFails, I!account
<1>9. QED
  BY <1>1, <1>2, <1>3, <1>4, <1>5, <1>6, <1>7, <1>8
  DEF I!Next, I!GenresListed, I!AgesListed, I!OpenPicker, I!PickFolder, I!PickNothing, I!ListFails, I!FilesListed,
      I!ApplyGlobalGenre, I!OverrideGenre, I!ApplyGlobalAge, I!OverrideAge, I!account, I!picking

\* What a row shows is what the service makes of it, if the rows that are sent
\* are the ones that differ from the common choice.
LEMMA SentAsShown ==
  ASSUME I!TypeOK, NEW f \in DOMAIN files
  PROVE  (IF f \in I!Overridden THEN I!Given(files[f], common) ELSE common)
           = I!Given(files[f], common)
<1>1. CASE f \in I!Overridden
  BY <1>1
<1>2. CASE f \notin I!Overridden
  <2>1. files[f].genre = common.genre /\ files[f].age = common.age
    BY <1>2 DEF I!Overridden, I!FileRows
  <2>2. common = [genre |-> common.genre, age |-> common.age]
    BY ChoiceParts DEF I!TypeOK
  <2>3. QED
    BY <1>2, <2>1, <2>2 DEF I!Given
<1>3. QED
  BY <1>1, <1>2

LEMMA AgreedStep ==
  ASSUME I!TypeOK, AgreedInv, I!Next
  PROVE  AgreedInv'
<1>0. pickers \in Nat /\ lists \in Nat /\ dto \in I!Import
  BY ImportConstants DEF I!TypeOK
<1>1. CASE UNCHANGED <<files, newFiles, pickers, lists, start, dto>>
  <2>1. I!ImportsWhatRowsShow' = I!ImportsWhatRowsShow
    BY <1>1 DEF I!ImportsWhatRowsShow, I!Imported
  <2>2. QED
    BY <1>1, <2>1 DEF AgreedInv
<1>2. CASE /\ start # "dialog" /\ UNCHANGED <<start, dto>>
           /\ DOMAIN files' # {} => DOMAIN files' = newFiles'
  <2>1. I!ImportsWhatRowsShow' = I!ImportsWhatRowsShow
    BY <1>2 DEF I!ImportsWhatRowsShow, I!Imported
  <2>2. QED
    BY <1>2, <2>1 DEF AgreedInv
<1>3. CASE I!OpenPicker \/ I!PickFolder \/ I!PickNothing
  <2>1. I!ImportsWhatRowsShow' = I!ImportsWhatRowsShow
    BY <1>3 DEF I!OpenPicker, I!PickFolder, I!PickNothing, I!table, I!ImportsWhatRowsShow, I!Imported
  <2>2. QED
    BY <1>0, <1>3, <2>1
    DEF I!OpenPicker, I!PickFolder, I!PickNothing, I!Covered, I!table, AgreedInv
<1>4. CASE I!ListFails
  <2>1. I!ImportsWhatRowsShow' = I!ImportsWhatRowsShow
    BY <1>4 DEF I!ListFails, I!ImportsWhatRowsShow, I!Imported
  <2>2. QED
    BY <1>0, <1>4, <2>1 DEF I!ListFails, I!table, AgreedInv
<1>5. ASSUME NEW S \in SUBSET Files, I!FilesListed(S) PROVE AgreedInv'
  <2>1. I!ImportsWhatRowsShow' = I!ImportsWhatRowsShow
    BY <1>5 DEF I!FilesListed, I!ImportsWhatRowsShow, I!Imported
  <2>2. DOMAIN files' = newFiles'
    BY <1>5 DEF I!FilesListed
  <2>3. ~(start = "dialog" /\ dto.settled)
    BY <1>0, <1>5 DEF I!FilesListed, AgreedInv
  <2>4. QED
    BY <1>5, <2>1, <2>2, <2>3 DEF I!FilesListed, AgreedInv
<1>6. ASSUME NEW g \in Genres, I!ApplyGlobalGenre(g) PROVE AgreedInv'
  BY <1>2, <1>6 DEF I!ApplyGlobalGenre, I!Choosable, I!Covered, I!FileRows, AgreedInv
<1>7. ASSUME NEW a \in Ages, I!ApplyGlobalAge(a) PROVE AgreedInv'
  BY <1>2, <1>7 DEF I!ApplyGlobalAge, I!Choosable, I!Covered, I!FileRows, AgreedInv
<1>8. ASSUME NEW g \in Genres, NEW f \in I!FileRows, I!OverrideGenre(f, g) PROVE AgreedInv'
  BY <1>2, <1>8 DEF I!OverrideGenre, I!Choosable, I!Covered, AgreedInv
<1>9. ASSUME NEW a \in Ages, NEW f \in I!FileRows, I!OverrideAge(f, a) PROVE AgreedInv'
  BY <1>2, <1>9 DEF I!OverrideAge, I!Choosable, I!Covered, AgreedInv
<1>10. CASE I!Submit
  <2>1. (dto'.settled => pickers = 0 /\ lists = 0) /\ dto'.agreed = files
    <3>1. dto'.settled = (pickers + lists = 0) /\ dto'.agreed = files
      BY <1>10 DEF I!Submit, I!NoImport
    <3>2. pickers + lists = 0 => pickers = 0 /\ lists = 0
      BY <1>0
    <3>3. QED
      BY <3>1, <3>2, Zenon
  <2>2. ~(start' \in {"sent", "made"})
    BY <1>10 DEF I!Submit
  <2>3. QED
    BY <1>10, <2>1, <2>2 DEF I!Submit, I!FileRows, I!table, I!picking, I!ImportsWhatRowsShow, AgreedInv
<1>11. CASE I!Decline
  BY <1>11 DEF I!Decline, I!table, I!picking, I!ImportsWhatRowsShow, AgreedInv
<1>12. CASE I!Confirm
  <2>1. /\ dto'.settled = dto.settled /\ dto'.agreed = dto.agreed
        /\ dto'.ids = newFiles /\ dto'.common = common
        /\ dto'.overrides = I!Restrict(files, I!Overridden) /\ dto'.shown = files
    BY <1>0, <1>12 DEF I!Confirm, I!Import
  <2>2. /\ DOMAIN I!Restrict(files, I!Overridden) = I!Overridden
        /\ \A f \in I!Overridden : I!Restrict(files, I!Overridden)[f] = files[f]
    BY DEF I!Restrict
  <2>3. I!ImportsWhatRowsShow'
    <3>1. dto'.ids = DOMAIN files /\ (dto'.settled => dto'.shown = dto'.agreed)
      BY <1>12, <2>1 DEF I!Confirm, AgreedInv
    <3>2. ASSUME NEW f \in DOMAIN files
          PROVE  I!Imported(f)' = IF f \in I!Overridden THEN I!Given(files[f], common) ELSE common
      BY <2>1, <2>2 DEF I!Imported, I!Given
    <3>3. \A f \in DOMAIN files : I!Imported(f)' = I!Given(dto'.shown[f], dto'.common)
      BY <2>1, <3>2, SentAsShown
    <3>4. QED
      BY <2>1, <3>1, <3>3 DEF I!ImportsWhatRowsShow, I!Given
  <2>4. QED
    BY <1>12, <2>3 DEF I!Confirm, I!table, I!picking, AgreedInv
<1>13. CASE I!MakeJob
  <2>1. I!ImportsWhatRowsShow'
    BY <1>13 DEF I!MakeJob, I!ImportsWhatRowsShow, I!Imported, AgreedInv
  <2>2. QED
    BY <1>13, <2>1 DEF I!MakeJob, I!table, I!picking, AgreedInv
<1>14. CASE I!Started
  <2>1. DOMAIN files' = {} /\ start' = "none"
    BY <1>14, NoRowsType DEF I!Started
  <2>2. QED
    BY <2>1 DEF I!ImportsWhatRowsShow, AgreedInv
<1>15. CASE I!StartFails
  BY <1>15 DEF I!StartFails, I!table, I!picking, I!ImportsWhatRowsShow, AgreedInv
<1>16. QED
  BY <1>1, <1>3, <1>4, <1>5, <1>6, <1>7, <1>8, <1>9, <1>10, <1>11, <1>12, <1>13, <1>14, <1>15
  DEF I!Next, I!IntegrationsListed, I!GenresListed, I!AgesListed, I!table, I!picking

----------------------------------------------------------------------------
(* Sequences.                                                              *)

\* A function on an initial interval of the numbers is a sequence.
LEMMA IsSeq ==
  ASSUME NEW S, NEW n \in Nat, NEW f \in [1..n -> S]
  PROVE  f \in Seq(S) /\ Len(f) = n /\ DOMAIN f = 1..n
<1>1. f \in Seq(S)
  BY SeqDef
<1>2. QED
  BY <1>1

LEMMA Halves ==
  ASSUME NEW n \in Nat, NEW i \in 1..n
  PROVE  (i - 1) + (n - i) = n - 1 /\ \A k \in 1..n - 1 : k \in Nat /\ k <= n - 1
OBVIOUS

LEMMA NotEmpty == \A s : Len(s) = 1 => s # <<>>
OBVIOUS

\* A sequence from which its element i is taken.
LEMMA TakenOut ==
  ASSUME NEW S, NEW s \in Seq(S), NEW i \in 1..Len(s)
  PROVE  /\ F!RemoveAt(s, i) \in Seq(S) /\ Len(F!RemoveAt(s, i)) = Len(s) - 1
         /\ \A k \in 1..Len(s) - 1 :
              F!RemoveAt(s, i)[k] = IF k < i THEN s[k] ELSE s[k + 1]
         /\ Len(s) = 1 => F!RemoveAt(s, i) = <<>>
<1> DEFINE a == SubSeq(s, 1, i - 1)
           b == SubSeq(s, i + 1, Len(s))
           t == F!RemoveAt(s, i)
<1>a. t = a \o b
  BY DEF F!RemoveAt
<1> HIDE DEF t
<1>0. Len(s) \in Nat /\ i \in Nat /\ 1 <= i /\ i <= Len(s)
  BY LenProperties
<1>1. Len(s) \in Nat /\ \A k \in 1..Len(s) : s[k] \in S
  BY ElementOfSeq, LenProperties
<1>2. a \in Seq(S) /\ Len(a) = i - 1 /\ \A k \in 1..i - 1 : a[k] = s[k]
  <2>1. 1 \in Int /\ i - 1 \in Int /\ \A k \in 1..i - 1 : s[k] \in S
    BY <1>1
  <2>2. /\ a \in Seq(S) /\ Len(a) = IF 1 <= i - 1 THEN (i - 1) - 1 + 1 ELSE 0
        /\ \A k \in 1..(i - 1) - 1 + 1 : a[k] = s[1 + k - 1]
    BY <2>1, SubSeqProperties
  <2>3. i - 1 \in Nat /\ (i - 1) - 1 + 1 = i - 1 /\ \A k \in 1..i - 1 : 1 + k - 1 = k
    BY <1>1
  <2>4. QED
    BY <2>2, <2>3
<1>3. b \in Seq(S) /\ Len(b) = Len(s) - i /\ \A k \in 1..Len(s) - i : b[k] = s[i + k]
  <2>1. i + 1 \in Int /\ Len(s) \in Int /\ \A k \in i + 1..Len(s) : s[k] \in S
    BY <1>1
  <2>2. /\ b \in Seq(S) /\ Len(b) = IF i + 1 <= Len(s) THEN Len(s) - (i + 1) + 1 ELSE 0
        /\ \A k \in 1..Len(s) - (i + 1) + 1 : b[k] = s[i + 1 + k - 1]
    BY <2>1, SubSeqProperties
  <2>3. /\ Len(s) - i \in Nat /\ Len(s) - (i + 1) + 1 = Len(s) - i
        /\ \A k \in 1..Len(s) - i : i + 1 + k - 1 = i + k
    BY <1>0
  <2>4. Len(b) = Len(s) - i
    BY <1>0, <2>2
  <2>5. QED
    BY <2>2, <2>3, <2>4
<1> HIDE DEF a, b
<1>4. /\ t \in Seq(S) /\ Len(t) = Len(a) + Len(b)
      /\ \A k \in 1..Len(a) + Len(b) : t[k] = IF k <= Len(a) THEN a[k] ELSE b[k - Len(a)]
  BY <1>a, <1>2, <1>3, ConcatProperties
<1>5. Len(t) = Len(s) - 1
  <2>1. Len(t) = Len(a) + Len(b) /\ Len(a) = i - 1 /\ Len(b) = Len(s) - i
    BY <1>2, <1>3, <1>4
  <2>2. (i - 1) + (Len(s) - i) = Len(s) - 1
    BY <1>0, Halves
  <2>3. QED
    BY <2>1, <2>2, Zenon
<1>6. ASSUME NEW k \in 1..Len(t) PROVE t[k] = IF k < i THEN s[k] ELSE s[k + 1]
  <2>1. CASE k < i
    BY <1>1, <1>2, <1>3, <1>4, <1>5, <2>1
  <2>2. CASE ~(k < i)
    <3>0. k \in Nat /\ k <= Len(s) - 1
      BY <1>0, <1>5, Halves
    <3>1. k - (i - 1) \in 1..Len(s) - i /\ i + (k - (i - 1)) = k + 1 /\ ~(k <= i - 1)
      BY <1>0, <2>2, <3>0
    <3>2. t[k] = b[k - (i - 1)]
      BY <1>1, <1>2, <1>3, <1>4, <1>5, <3>1
    <3>3. QED
      BY <1>3, <2>2, <3>1, <3>2
  <2>3. QED
    BY <2>1, <2>2
<1>7. Len(s) = 1 => t = <<>>
  BY <1>4, <1>5, EmptySeq
<1>8. QED
  BY <1>4, <1>5, <1>6, <1>7 DEF t

----------------------------------------------------------------------------
(* The book form                                                           *)

\* What the catalog keeps of the required fields, and what it found to them.
Found(v) == [F!KeptOf(F!Required) EXCEPT !.found = v]

\* The save that is under way is the only one, and what it will leave in the
\* catalog is what the form claims about it.
InFlight(s) ==
  /\ Len(saves) = 1 /\ overlay
  /\ s.kind = "post" =>
       /\ route = 0 /\ bookId = 0
       /\ seen.last \in {"none", "post"}
       /\ ~s.done => catalog = <<>> /\ (seen.last = "post" => s.row = F!Required)
       /\ s.done => /\ Len(catalog) = 1 /\ s.id = 1 /\ catalog[1] = s.row
                    /\ seen.last = "post" => s.row = Found(s.row.found)
  /\ s.kind = "put" =>
       /\ bookId = 1 /\ s.id = 1 /\ Len(catalog) = 1
       /\ seen.last # "post"
       /\ seen.last = "put1" => IF s.done THEN catalog[1] = F!KeptOf(F!Required)
                                ELSE s.row = F!Required
       /\ seen.last = "put2" => IF s.done THEN catalog[1] = F!KeptOf(form)
                                ELSE s.row = form

\* No save is under way: the form knows the book that is there, and the catalog
\* has what was saved last.
Quiet ==
  /\ bookId = 0 => Len(catalog) = route
  /\ bookId = 1 => Len(catalog) = 1
  /\ seen.last = "post" => bookId = 1 /\ catalog[1] = Found(form.found)
  /\ seen.last = "put1" => bookId = 1 /\ catalog[1] = F!KeptOf(F!Required)
  /\ seen.last = "put2" => bookId = 1 /\ catalog[1] = F!KeptOf(form)

Undoubted ==
  /\ bookId \in 0..1
  /\ route = 0 => fetches = <<>>
  /\ route = 1 => Len(catalog) = 1
  /\ saves = <<>> => Quiet
  /\ saves # <<>> => InFlight(saves[1])

FormInv == IF seen.doubtful THEN seen.last = "none" ELSE Undoubted

\* The sequences of the form by their indices.
LEMMA FormParts ==
  ASSUME F!TypeOK
  PROVE  /\ Len(catalog) \in Nat /\ DOMAIN catalog = 1..Len(catalog)
         /\ \A i \in 1..Len(catalog) : catalog[i] \in F!Fields
         /\ Len(fetches) \in Nat /\ DOMAIN fetches = 1..Len(fetches)
         /\ \A i \in 1..Len(fetches) : fetches[i] \in F!Fetch
         /\ Len(saves) \in Nat /\ DOMAIN saves = 1..Len(saves)
         /\ \A i \in 1..Len(saves) : saves[i] \in F!Save
         /\ Len(names) \in Nat /\ DOMAIN names = 1..Len(names)
         /\ \A i \in 1..Len(names) : names[i] \in F!Name
         /\ DOMAIN form = {"required", "found", "own"}
BY ElementOfSeq, LenProperties DEF F!TypeOK, F!Fields

\* The fields of a save are written one by one.
Written(s, i, row, id) == [s EXCEPT ![i].done = TRUE, ![i].row = row, ![i].id = id]

LEMMA SaveWritten ==
  ASSUME NEW s \in Seq(F!Save), NEW i \in 1..Len(s), NEW row \in F!Fields, NEW id \in Nat
  PROVE  /\ Written(s, i, row, id) \in Seq(F!Save) /\ Len(Written(s, i, row, id)) = Len(s)
         /\ Written(s, i, row, id)[i].kind = s[i].kind
         /\ Written(s, i, row, id)[i].done
         /\ Written(s, i, row, id)[i].row = row
         /\ Written(s, i, row, id)[i].id = id
<1> DEFINE w == [s[i] EXCEPT !.done = TRUE, !.row = row, !.id = id]
<1>1. s[i] \in F!Save /\ DOMAIN s = 1..Len(s)
  BY ElementOfSeq, LenProperties
<1>2. w \in F!Save /\ w.kind = s[i].kind /\ w.done = TRUE /\ w.row = row /\ w.id = id
  BY <1>1 DEF F!Save
<1>3. Written(s, i, row, id) = [s EXCEPT ![i] = w]
  BY <1>1 DEF Written
<1> HIDE DEF w
<1>4. /\ Written(s, i, row, id) \in Seq(F!Save) /\ Len(Written(s, i, row, id)) = Len(s)
      /\ Written(s, i, row, id)[i] = w
  BY <1>1, <1>2, <1>3, ExceptSeq
<1>5. QED
  BY <1>2, <1>4

\* What is known of the last save is given up.
LEMMA SeenParts ==
  ASSUME NEW h \in F!Seen
  PROVE  /\ F!Touched(h) \in F!Seen /\ F!Touched(h).last = "none"
         /\ F!Touched(h).doubtful = h.doubtful
         /\ F!Doubtful \in F!Seen /\ F!Doubtful.last = "none" /\ F!Doubtful.doubtful = TRUE
         /\ \A l \in {"post", "put1", "put2"} :
              /\ [h EXCEPT !.last = l] \in F!Seen /\ [h EXCEPT !.last = l].last = l
              /\ [h EXCEPT !.last = l].doubtful = h.doubtful
BY DEF F!Seen, F!Touched, F!Doubtful

\* The fields of the form.
LEMMA FieldsParts ==
  ASSUME NEW r \in F!Fields
  PROVE  /\ r.required \in F!Field /\ r.found \in F!Field /\ r.own \in F!Field
         /\ \A field \in {"required", "found", "own"}, v \in F!Field :
              [r EXCEPT ![field] = v] \in F!Fields
         /\ \A v \in F!Field :
              /\ [r EXCEPT !.found = v] \in F!Fields
              /\ [r EXCEPT !.found = v].found = v
              /\ [[r EXCEPT !.found = v] EXCEPT !.found = 0, !.own = 0]
                   = [r EXCEPT !.found = 0, !.own = 0]
         /\ [r EXCEPT !.found = 0, !.own = 0] \in F!Fields
<1>1. r = [required |-> r.required, found |-> r.found, own |-> r.own]
  BY DEF F!Fields
<1>2. r.required \in F!Field /\ r.found \in F!Field /\ r.own \in F!Field /\ 0 \in F!Field
  BY DEF F!Fields, F!Field
<1>3. QED
  BY <1>1, <1>2 DEF F!Fields

\* What the catalog keeps are fields again.
LEMMA KeptParts ==
  ASSUME NEW r \in F!Fields
  PROVE  F!KeptOf(r) \in F!Fields
<1>1. Kept \in [F!Field -> F!Field]
  BY PagesAssumption DEF F!BookFormAssumption
<1>2. Kept[r.required] \in F!Field /\ Kept[r.found] \in F!Field /\ Kept[r.own] \in F!Field
  BY <1>1, FieldsParts
<1>3. QED
  BY <1>2 DEF F!KeptOf, F!Fields

\* Only what is found is filled.
LEMMA EnrichedParts ==
  ASSUME NEW r \in F!Fields, NEW q \in F!Enriched(r)
  PROVE  q \in F!Fields /\ q = [r EXCEPT !.found = q.found]
<1>1. PICK v \in F!Field : q = [r EXCEPT !.found = v]
  BY FieldsParts DEF F!Enriched
<1>2. QED
  BY <1>1, FieldsParts

LEMMA FormInit == F!Init => F!TypeOK /\ FormInv
<1> SUFFICES ASSUME F!Init PROVE F!TypeOK /\ FormInv
  OBVIOUS
<1>1. /\ catalog \in Seq(F!Fields) /\ Len(catalog) = route
  <2>1. CASE route = 0
    BY <2>1, EmptySeq DEF F!Init
  <2>2. CASE route = 1
    <3>1. catalog \in [1..1 -> [required : Values, found : F!Field, own : F!Field]]
      BY <2>2 DEF F!Init
    <3>2. [required : Values, found : F!Field, own : F!Field] \subseteq F!Fields
      BY DEF F!Fields, F!Field
    <3>3. catalog \in [1..1 -> F!Fields]
      BY <3>1, <3>2
    <3>4. QED
      BY <2>2, <3>3, IsSeq
  <2>3. QED
    BY <2>1, <2>2 DEF F!Init
<1>2. F!Blank \in F!Fields
  BY DEF F!Blank, F!Fields, F!Field
<1>3. F!TypeOK
  <2>1. bookId \in 0..Len(catalog) /\ route \in 0..1
    BY <1>1 DEF F!Init
  <2>2. fetches \in Seq(F!Fetch) /\ saves \in Seq(F!Save) /\ names \in Seq(F!Name)
    BY EmptySeq DEF F!Init
  <2>3. step \in 1..3 /\ overlay \in BOOLEAN /\ stray \in BOOLEAN /\ seen \in F!Seen
    <3>1. step \in 1..3 /\ stray \in BOOLEAN
      BY DEF F!Init
    <3>2. overlay \in BOOLEAN
      BY <3>1 DEF F!Init
    <3>3. seen \in F!Seen
      BY DEF F!Init, F!Seen
    <3>4. QED
      BY <3>1, <3>2, <3>3
  <2>4. QED
    BY <1>1, <1>2, <2>1, <2>2, <2>3 DEF F!TypeOK, F!Init
<1>4. FormInv
  BY <1>1 DEF F!Init, FormInv, Undoubted, Quiet
<1>5. QED
  BY <1>3, <1>4

LEMMA FormTypeStep ==
  ASSUME F!TypeOK, FormInv, F!Next
  PROVE  F!TypeOK'
<1> USE FormParts
<1>0. /\ route \in 0..1 /\ catalog \in Seq(F!Fields) /\ bookId \in 0..Len(catalog)
      /\ form \in F!Fields /\ step \in 1..3
      /\ fetches \in Seq(F!Fetch) /\ saves \in Seq(F!Save) /\ names \in Seq(F!Name)
      /\ overlay \in BOOLEAN /\ stray \in BOOLEAN /\ seen \in F!Seen
  BY DEF F!TypeOK
<1>a. Undoubted
  BY DEF FormInv, F!Next
<1>b. bookId \in Nat /\ route <= Len(catalog) /\ (fetches # <<>> => route = 1 /\ Len(catalog) = 1)
  BY <1>0, <1>a DEF Undoubted
<1>1. CASE F!StrayAnswer
  BY <1>0, <1>1, SeenParts DEF F!StrayAnswer, F!Hide, F!calls, F!TypeOK
<1>2. CASE F!ProfileEmits
  <2>1. [stage |-> "check", row |-> F!Blank] \in F!Fetch
    BY DEF F!Fetch, F!Fields, F!Blank, F!Field
  <2>2. fetches' \in Seq(F!Fetch)
    BY <1>0, <1>2, <2>1, AppendProperties DEF F!ProfileEmits
  <2>3. QED
    BY <1>0, <1>2, <2>2 DEF F!ProfileEmits, F!TypeOK
<1>3. ASSUME NEW i \in DOMAIN fetches, F!MayEdit(i) PROVE F!TypeOK'
  <2>1. [fetches[i] EXCEPT !.stage = "load"] \in F!Fetch
    BY <1>0 DEF F!Fetch
  <2>2. fetches' \in Seq(F!Fetch)
    BY <1>0, <1>3, <2>1, ExceptSeq DEF F!MayEdit
  <2>3. QED
    BY <1>0, <1>b, <1>3, <2>2 DEF F!MayEdit, F!TypeOK
<1>4. ASSUME NEW i \in DOMAIN fetches, F!ReadBook(i) PROVE F!TypeOK'
  <2>1. catalog[route] \in F!Fields
    BY <1>0, <1>b, EmptySeq
  <2>2. [stage |-> "read", row |-> catalog[route]] \in F!Fetch
    BY <2>1 DEF F!Fetch
  <2>3. fetches' \in Seq(F!Fetch)
    BY <1>0, <1>4, <2>2, ExceptSeq DEF F!ReadBook
  <2>4. QED
    BY <1>0, <1>4, <2>3 DEF F!ReadBook, F!TypeOK
<1>5. ASSUME NEW i \in DOMAIN fetches, F!LoadBook(i) PROVE F!TypeOK'
  <2>1. fetches[i].row \in F!Fields
    BY <1>0 DEF F!Fetch
  <2>2. fetches' \in Seq(F!Fetch)
    BY <1>0, <1>5, TakenOut DEF F!LoadBook
  <2>3. seen' \in F!Seen
    BY <1>0, <1>5, SeenParts DEF F!LoadBook
  <2>4. bookId' \in 0..Len(catalog)
    BY <1>0, <1>b, <1>5 DEF F!LoadBook
  <2>5. QED
    BY <1>0, <1>5, <2>1, <2>2, <2>3, <2>4 DEF F!LoadBook, F!TypeOK
<1>6. ASSUME NEW i \in DOMAIN fetches, F!FetchFails(i) PROVE F!TypeOK'
  <2>1. fetches' \in Seq(F!Fetch)
    BY <1>0, <1>6, TakenOut DEF F!FetchFails
  <2>2. QED
    BY <1>0, <1>6, <2>1 DEF F!FetchFails, F!TypeOK
<1>7. ASSUME NEW field \in DOMAIN form, NEW v \in F!Field, F!Type(field, v) PROVE F!TypeOK'
  <2>0. field \in {"required", "found", "own"} /\ form' = [form EXCEPT ![field] = v]
    BY <1>0, <1>7 DEF F!Type
  <2>1. form' \in F!Fields
    BY <1>0, <2>0, FieldsParts, Zenon
  <2>2. seen' \in F!Seen
    BY <1>0, <1>7, SeenParts DEF F!Type
  <2>3. QED
    BY <1>0, <1>7, <2>1, <2>2 DEF F!Type, F!calls, F!TypeOK
<1>8. ASSUME NEW field \in DOMAIN form, NEW v \in F!Field, v # 0, F!SaveName(field, v)
      PROVE  F!TypeOK'
  <2>1. [field |-> field, value |-> v] \in F!Name
    BY <1>0, <1>8 DEF F!SaveName, F!Name, F!Field
  <2>2. names' \in Seq(F!Name)
    BY <1>0, <1>8, <2>1, AppendProperties DEF F!SaveName
  <2>3. QED
    BY <1>0, <1>8, <2>2 DEF F!SaveName, F!TypeOK
<1>9. ASSUME NEW i \in DOMAIN names, F!NameSaved(i) PROVE F!TypeOK'
  <2>1. names[i].field \in {"required", "found", "own"} /\ names[i].value \in F!Field
    BY <1>0 DEF F!Name, F!Field
  <2>2. names' \in Seq(F!Name)
    BY <1>0, <1>9, TakenOut DEF F!NameSaved
  <2>3. form' \in F!Fields
    BY <1>0, <1>9, <2>1, FieldsParts DEF F!NameSaved
  <2>4. QED
    BY <1>0, <1>9, <2>2, <2>3, SeenParts DEF F!NameSaved, F!TypeOK
<1>10. ASSUME NEW i \in DOMAIN names, F!NameFails(i) PROVE F!TypeOK'
  <2>1. names' \in Seq(F!Name)
    BY <1>0, <1>10, TakenOut DEF F!NameFails
  <2>2. QED
    BY <1>0, <1>10, <2>1 DEF F!NameFails, F!TypeOK
<1>11. ASSUME NEW n \in 1..3, F!Go(n) PROVE F!TypeOK'
  BY <1>0, <1>11 DEF F!Go, F!calls, F!TypeOK
<1>12. ASSUME NEW kind \in {"post", "put"}, NEW row \in F!Fields,
              NEW last \in {"post", "put1", "put2"}, step \in 1..2, F!Send(kind, row, last)
       PROVE  F!TypeOK'
  <2>1. [kind |-> kind, id |-> bookId, row |-> row, done |-> FALSE] \in F!Save
    BY <1>b DEF F!Save
  <2>2. saves' \in Seq(F!Save)
    BY <1>0, <1>12, <2>1, AppendProperties DEF F!Send
  <2>3. seen' \in F!Seen
    BY <1>0, <1>12, SeenParts DEF F!Send
  <2>4. step' \in 1..3
    BY <1>12 DEF F!Send
  <2>5. QED
    BY <1>0, <1>12, <2>2, <2>3, <2>4 DEF F!Send, F!Show, F!TypeOK
<1>13. CASE F!SaveStep1
  <2>1. F!Required \in F!Fields
    BY <1>0, FieldsParts DEF F!Required
  <2>2. QED
    BY <1>12, <1>13, <2>1 DEF F!SaveStep1
<1>14. CASE F!SaveStep2
  BY <1>0, <1>12, <1>14 DEF F!SaveStep2
<1>15. CASE F!SaveNothing
  BY <1>0, <1>15 DEF F!SaveNothing, F!calls, F!TypeOK
<1>16. ASSUME NEW i \in DOMAIN saves, F!PostBook(i) PROVE F!TypeOK'
  <2>1. PICK row \in F!Enriched(F!KeptOf(saves[i].row)) :
          /\ catalog' = Append(catalog, row)
          /\ saves' = Written(saves, i, row, Len(catalog) + 1)
    BY <1>16 DEF F!PostBook, Written
  <2>2. row \in F!Fields
    <3>1. saves[i].row \in F!Fields
      BY <1>0 DEF F!Save
    <3>2. F!KeptOf(saves[i].row) \in F!Fields
      BY <3>1, KeptParts
    <3>3. QED
      BY <2>1, <3>2, EnrichedParts
  <2>3. catalog' \in Seq(F!Fields) /\ Len(catalog') = Len(catalog) + 1
    BY <1>0, <2>1, <2>2, AppendProperties
  <2>4. saves' \in Seq(F!Save)
    <3>1. Len(catalog) + 1 \in Nat /\ i \in 1..Len(saves)
      OBVIOUS
    <3>2. QED
      BY <1>0, <2>1, <2>2, <3>1, SaveWritten
  <2>5. bookId \in 0..Len(catalog')
    BY <1>0, <2>3
  <2>6. QED
    BY <1>0, <1>16, <2>3, <2>4, <2>5 DEF F!PostBook, F!TypeOK
<1>17. ASSUME NEW i \in DOMAIN saves, F!PutBook(i) PROVE F!TypeOK'
  <2>1. saves[i] \in F!Save /\ saves[i].row \in F!Fields
    BY <1>0 DEF F!Save
  <2>2. saves[i].id \in 1..Len(catalog)
    BY <1>0, <1>a, <1>17, EmptySeq DEF F!PutBook, Undoubted, InFlight
  <2>3. catalog' \in Seq(F!Fields) /\ Len(catalog') = Len(catalog)
    BY <1>0, <1>17, <2>1, <2>2, KeptParts, ExceptSeq DEF F!PutBook
  <2>4. saves' \in Seq(F!Save)
    <3>1. F!Blank \in F!Fields
      BY DEF F!Blank, F!Fields, F!Field
    <3>2. [saves[i] EXCEPT !.done = TRUE, !.row = F!Blank] \in F!Save
      BY <2>1, <3>1 DEF F!Save
    <3>3. saves' = [saves EXCEPT ![i] = [saves[i] EXCEPT !.done = TRUE, !.row = F!Blank]]
      BY <1>0, <1>17 DEF F!PutBook
    <3>4. QED
      BY <1>0, <3>2, <3>3, ExceptSeq
  <2>5. QED
    BY <1>0, <1>17, <2>3, <2>4 DEF F!PutBook, F!TypeOK
<1>18. ASSUME NEW i \in DOMAIN saves, F!Posted(i) PROVE F!TypeOK'
  <2>1. saves' \in Seq(F!Save)
    BY <1>0, <1>18, TakenOut DEF F!Posted
  <2>2. saves[i].row \in F!Fields
    BY <1>0 DEF F!Save
  <2>3. saves[i].row.found \in F!Field
    BY <2>2, FieldsParts
  <2>4. form' \in F!Fields
    BY <1>0, <1>18, <2>3, FieldsParts DEF F!Posted
  <2>5. saves[i].id \in 0..Len(catalog)
    BY <1>0, <1>a, <1>18, EmptySeq DEF F!Posted, Undoubted, InFlight
  <2>6. QED
    BY <1>0, <1>18, <2>1, <2>4, <2>5 DEF F!Posted, F!Hide, F!TypeOK
<1>19. ASSUME NEW i \in DOMAIN saves, F!PutDone(i) PROVE F!TypeOK'
  <2>1. saves' \in Seq(F!Save)
    BY <1>0, <1>19, TakenOut DEF F!PutDone
  <2>2. QED
    BY <1>0, <1>19, <2>1 DEF F!PutDone, F!Hide, F!TypeOK
<1>20. ASSUME NEW i \in DOMAIN saves, F!SaveFails(i) PROVE F!TypeOK'
  <2>1. saves' \in Seq(F!Save)
    BY <1>0, <1>20, TakenOut DEF F!SaveFails
  <2>2. QED
    BY <1>0, <1>20, <2>1, SeenParts DEF F!SaveFails, F!Hide, F!TypeOK
<1>21. QED
  BY <1>1, <1>2, <1>3, <1>4, <1>5, <1>6, <1>7, <1>8, <1>9, <1>10, <1>11, <1>13, <1>14,
     <1>15, <1>16, <1>17, <1>18, <1>19, <1>20 DEF F!Next

\* A step that saves nothing: the saves, the catalog and the overlay stay, and
\* if a field changes the last save is given up.
LEMMA FormFrame ==
  ASSUME F!TypeOK, Undoubted,
         UNCHANGED <<route, catalog, saves>>,
         overlay' = overlay \/ saves = <<>>,
         bookId' = bookId \/ (bookId' = 1 /\ route = 1),
         route = 0 => fetches' = <<>>,
         \/ form' = form /\ seen'.last = seen.last
         \/ seen'.last = "none"
  PROVE  Undoubted'
<1>1. bookId' \in 0..1 /\ (route' = 1 => Len(catalog') = 1)
  BY DEF Undoubted
<1>0. form' = form => /\ F!Required' = F!Required /\ F!KeptOf(form)' = F!KeptOf(form)
                      /\ F!KeptOf(F!Required)' = F!KeptOf(F!Required)
  BY DEF F!Required, F!KeptOf
<1>2. saves = <<>> => Quiet'
  BY <1>0 DEF Undoubted, Quiet, Found
<1>3. saves # <<>> => InFlight(saves[1])'
  BY <1>0 DEF Undoubted, InFlight, Found
<1>4. QED
  BY <1>1, <1>2, <1>3 DEF Undoubted

\* Nothing that is fetched is fetched for a new book.
LEMMA OnlySave ==
  ASSUME F!TypeOK, Undoubted
  PROVE  /\ \A i \in DOMAIN fetches : route = 1 /\ Len(catalog) = 1
         /\ \A i \in DOMAIN saves : i = 1 /\ Len(saves) = 1 /\ InFlight(saves[1])
<1>1. ASSUME NEW i \in DOMAIN fetches PROVE route = 1 /\ Len(catalog) = 1
  BY FormParts, EmptySeq DEF Undoubted, F!TypeOK
<1>2. ASSUME NEW i \in DOMAIN saves
      PROVE  i = 1 /\ Len(saves) = 1 /\ InFlight(saves[1])
  <2>1. saves # <<>>
    BY FormParts, EmptySeq
  <2>2. Len(saves) = 1 /\ InFlight(saves[1])
    BY <2>1 DEF Undoubted, InFlight
  <2>3. QED
    BY <2>2, FormParts
<1>3. QED
  BY <1>1, <1>2

LEMMA FormStep ==
  ASSUME F!TypeOK, FormInv, F!Next
  PROVE  FormInv'
<1>0. /\ catalog \in Seq(F!Fields) /\ saves \in Seq(F!Save) /\ fetches \in Seq(F!Fetch)
      /\ route \in 0..1 /\ form \in F!Fields /\ seen \in F!Seen
  BY DEF F!TypeOK
<1>a. Undoubted /\ ~seen.doubtful
  BY DEF FormInv, F!Next
<1>b. seen' = F!Doubtful => FormInv'
  BY <1>0, SeenParts DEF FormInv
<1>c. /\ F!Touched(seen).last = "none" /\ F!Touched(seen).doubtful = seen.doubtful
  BY <1>0, SeenParts
<1>1. CASE F!StrayAnswer
  <2>1. CASE saves = <<>>
    <3>1. Undoubted' /\ seen' = seen
      BY <1>a, <1>1, <2>1, FormFrame DEF F!StrayAnswer, F!calls, Undoubted
    <3>2. QED
      BY <1>a, <3>1 DEF FormInv
  <2>2. QED
    BY <1>b, <1>1, <2>1 DEF F!StrayAnswer
<1>2. CASE F!ProfileEmits
  <2>1. Undoubted'
    BY <1>a, <1>2, FormFrame DEF F!ProfileEmits
  <2>2. QED
    BY <1>a, <1>2, <2>1 DEF F!ProfileEmits, FormInv
<1>3. ASSUME NEW i \in DOMAIN fetches,
             F!MayEdit(i) \/ F!ReadBook(i) \/ F!LoadBook(i) \/ F!FetchFails(i)
      PROVE  FormInv'
  <2>1. route = 1
    BY <1>a, OnlySave
  <2>2. CASE F!LoadBook(i)
    <3>1. Undoubted'
      BY <1>a, <1>c, <2>1, <2>2, FormFrame DEF F!LoadBook
    <3>2. QED
      BY <1>a, <1>c, <2>2, <3>1 DEF F!LoadBook, FormInv
  <2>3. CASE F!MayEdit(i) \/ F!ReadBook(i) \/ F!FetchFails(i)
    <3>1. Undoubted'
      BY <1>a, <2>1, <2>3, FormFrame DEF F!MayEdit, F!ReadBook, F!FetchFails
    <3>2. seen' = seen
      BY <2>3 DEF F!MayEdit, F!ReadBook, F!FetchFails
    <3>3. QED
      BY <1>a, <3>1, <3>2 DEF FormInv
  <2>4. QED
    BY <1>3, <2>2, <2>3
<1>4. ASSUME NEW field \in DOMAIN form, NEW v \in F!Field, F!Type(field, v) PROVE FormInv'
  <2>1. Undoubted'
    BY <1>a, <1>c, <1>4, FormFrame DEF F!Type, F!calls, Undoubted
  <2>2. QED
    BY <1>a, <1>c, <1>4, <2>1 DEF F!Type, FormInv
<1>5. ASSUME NEW i \in DOMAIN names, F!NameSaved(i) PROVE FormInv'
  <2>1. Undoubted'
    BY <1>a, <1>c, <1>5, FormFrame DEF F!NameSaved, Undoubted
  <2>2. QED
    BY <1>a, <1>c, <1>5, <2>1 DEF F!NameSaved, FormInv
<1>6. CASE UNCHANGED <<route, catalog, bookId, form, fetches, saves, overlay, seen>>
  <2>1. Undoubted'
    BY <1>a, <1>6, FormFrame DEF Undoubted
  <2>2. QED
    BY <1>a, <1>6, <2>1 DEF FormInv
<1>7. ASSUME NEW kind, NEW row, NEW last, ~overlay, F!Send(kind, row, last),
             row \in F!Fields, kind \in {"post", "put"}, last \in {"post", "put1", "put2"},
             kind = "post" => bookId = 0 /\ last = "post" /\ row = F!Required,
             kind = "put" => bookId # 0 /\ last # "post",
             last = "put1" => row = F!Required, last = "put2" => row = form
      PROVE  FormInv'
  <2>1. saves = <<>> /\ Quiet
    BY <1>a, <1>7, OnlySave, EmptySeq DEF Undoubted, InFlight
  <2>2. CASE kind = "post" /\ route # 0
    BY <1>b, <1>7, <2>2 DEF F!Send
  <2>3. CASE ~(kind = "post" /\ route # 0)
    <3> DEFINE s == [kind |-> kind, id |-> bookId, row |-> row, done |-> FALSE]
    <3>1. bookId \in Nat /\ s \in F!Save
      BY <1>a, <1>7 DEF Undoubted, F!Save
    <3>2. s.kind = kind /\ s.id = bookId /\ s.row = row /\ s.done = FALSE
      OBVIOUS
    <3>3. saves' = Append(<<>>, s) /\ overlay'
      BY <1>7, <2>1 DEF F!Send, F!Show
    <3>4. Len(saves') = 1 /\ saves'[1] = s /\ saves' # <<>>
      BY <3>1, <3>3, EmptySeq, AppendProperties
    <3>5. /\ seen'.last = last
          /\ UNCHANGED <<route, catalog, bookId, form, fetches>>
      BY <1>0, <1>a, <1>7, <2>3, SeenParts DEF F!Send
    <3> HIDE DEF s
    <3>6. kind = "post" => catalog = <<>> /\ route = 0
      BY <1>0, <1>7, <2>1, <2>3, EmptySeq DEF Quiet
    <3>7. kind = "put" => bookId = 1 /\ Len(catalog) = 1
      BY <1>a, <1>7, <2>1 DEF Quiet, Undoubted
    <3>0. F!Required' = F!Required
      BY <3>5 DEF F!Required
    <3>8. InFlight(saves[1])'
      BY <1>7, <3>0, <3>2, <3>3, <3>4, <3>5, <3>6, <3>7 DEF InFlight
    <3>9. Undoubted'
      BY <1>a, <3>4, <3>5, <3>8 DEF Undoubted
    <3>10. seen'.doubtful = FALSE
      BY <1>0, <1>a, <1>7, <2>3, SeenParts DEF F!Send
    <3>11. QED
      BY <3>9, <3>10 DEF FormInv
  <2>4. QED
    BY <2>2, <2>3
<1>8. CASE F!SaveStep1
  <2>1. F!Required \in F!Fields
    BY <1>0, FieldsParts DEF F!Required
  <2>2. QED
    BY <1>7, <1>8, <2>1 DEF F!SaveStep1
<1>9. CASE F!SaveStep2
  BY <1>0, <1>7, <1>9 DEF F!SaveStep2
<1>10. ASSUME NEW i \in DOMAIN saves, F!PostBook(i) PROVE FormInv'
  <2>1. i = 1 /\ Len(saves) = 1 /\ InFlight(saves[1]) /\ saves # <<>>
    BY <1>0, <1>a, OnlySave, EmptySeq
  <2>2. PICK row \in F!Enriched(F!KeptOf(saves[1].row)) :
          /\ catalog' = Append(catalog, row)
          /\ saves' = Written(saves, 1, row, Len(catalog) + 1)
    BY <1>10, <2>1 DEF F!PostBook, Written
  <2>3. saves[1].kind = "post" /\ ~saves[1].done /\ catalog = <<>>
    BY <1>10, <2>1 DEF F!PostBook, InFlight
  <2>4. saves[1].row \in F!Fields
    BY <1>0, <2>1, FormParts DEF F!Save
  <2>5. row \in F!Fields /\ row = [F!KeptOf(saves[1].row) EXCEPT !.found = row.found]
    BY <2>2, <2>4, KeptParts, EnrichedParts
  <2>6. Len(catalog') = 1 /\ catalog'[1] = row /\ Len(catalog) + 1 = 1
    BY <1>0, <2>2, <2>3, <2>5, EmptySeq, AppendProperties
  <2>7. /\ Len(saves') = 1
        /\ saves'[1].kind = "post" /\ saves'[1].done
        /\ saves'[1].row = row /\ saves'[1].id = 1
    <3>1. saves' = Written(saves, 1, row, 1)
      BY <2>2, <2>6
    <3>2. 1 \in 1..Len(saves) /\ 1 \in Nat
      BY <2>1
    <3>3. saves \in Seq(F!Save) /\ row \in F!Fields
      BY <1>0, <2>5
    <3>4. /\ Len(saves') = Len(saves) /\ saves'[1].kind = saves[1].kind
          /\ saves'[1].done /\ saves'[1].row = row /\ saves'[1].id = 1
      BY <3>1, <3>2, <3>3, SaveWritten
    <3>5. QED
      BY <2>1, <2>3, <3>4
  <2>8. UNCHANGED <<route, bookId, form, fetches, overlay, seen>>
    BY <1>10 DEF F!PostBook
  <2>9. seen.last = "post" => row = Found(row.found)'
    <3>1. seen.last = "post" => saves[1].row = F!Required
      BY <2>1, <2>3 DEF InFlight
    <3>2. F!KeptOf(F!Required)' = F!KeptOf(F!Required)
      BY <2>8 DEF F!Required, F!KeptOf
    <3>3. QED
      BY <2>5, <3>1, <3>2 DEF Found
  <2>10. InFlight(saves[1])'
    BY <2>1, <2>3, <2>6, <2>7, <2>8, <2>9 DEF InFlight
  <2>11. saves' # <<>>
    BY <2>7, NotEmpty, Zenon
  <2>12. Undoubted'
    BY <1>a, <2>1, <2>3, <2>6, <2>8, <2>10, <2>11 DEF Undoubted, InFlight
  <2>13. QED
    BY <1>a, <2>8, <2>12 DEF FormInv
<1>11. ASSUME NEW i \in DOMAIN saves, F!PutBook(i) PROVE FormInv'
  <2>1. i = 1 /\ Len(saves) = 1 /\ InFlight(saves[1]) /\ saves # <<>>
    BY <1>0, <1>a, OnlySave, EmptySeq
  <2>2. saves[1].kind = "put" /\ saves[1].done = FALSE
    BY <1>0, <1>11, <2>1, FormParts DEF F!PutBook, F!Save
  <2>3. saves[1] \in F!Save /\ saves[1].row \in F!Fields
    BY <1>0, <2>1, FormParts DEF F!Save
  <2>4. saves[1].id = 1 /\ Len(catalog) = 1
    BY <2>1, <2>2 DEF InFlight
  <2>5. Len(catalog') = 1 /\ catalog'[1] = F!KeptOf(saves[1].row)
    BY <1>0, <1>11, <2>1, <2>3, <2>4, KeptParts, ExceptSeq DEF F!PutBook
  <2>6. Len(saves') = 1 /\ saves'[1].kind = "put" /\ saves'[1].done = TRUE /\ saves'[1].id = 1
    <3> DEFINE w == [saves[1] EXCEPT !.done = TRUE, !.row = F!Blank]
    <3>1. F!Blank \in F!Fields
      BY DEF F!Blank, F!Fields, F!Field
    <3>2. w \in F!Save /\ w.kind = "put" /\ w.done = TRUE /\ w.id = 1
      BY <2>2, <2>3, <2>4, <3>1 DEF F!Save
    <3>3. saves' = [saves EXCEPT ![1] = w]
      BY <1>11, <2>1, FormParts DEF F!PutBook
    <3> HIDE DEF w
    <3>4. Len(saves') = 1 /\ saves'[1] = w
      BY <1>0, <2>1, <3>2, <3>3, ExceptSeq
    <3>5. QED
      BY <3>2, <3>4
  <2>7. UNCHANGED <<route, bookId, form, fetches, overlay, seen>>
    BY <1>11 DEF F!PutBook
  <2>8. InFlight(saves[1])'
    <3>1. /\ F!KeptOf(F!Required)' = F!KeptOf(F!Required)
          /\ F!KeptOf(form)' = F!KeptOf(form)
      BY <2>7 DEF F!Required, F!KeptOf
    <3>2. QED
      BY <2>1, <2>2, <2>4, <2>5, <2>6, <2>7, <3>1 DEF InFlight
  <2>9. saves' # <<>>
    BY <2>6, EmptySeq
  <2>10. Undoubted'
    BY <1>a, <2>5, <2>7, <2>8, <2>9 DEF Undoubted
  <2>11. QED
    BY <1>a, <2>7, <2>10 DEF FormInv
<1>12. ASSUME NEW i \in DOMAIN saves, F!Posted(i) PROVE FormInv'
  <2>1. i = 1 /\ Len(saves) = 1 /\ InFlight(saves[1]) /\ saves # <<>>
    BY <1>0, <1>a, OnlySave, EmptySeq
  <2>2. saves' = <<>>
    BY <1>0, <1>12, <2>1, TakenOut DEF F!Posted
  <2>3. saves[1].kind = "post" /\ saves[1].done = TRUE
    BY <1>0, <1>12, <2>1, FormParts DEF F!Posted, F!Save
  <2>4. /\ route = 0 /\ Len(catalog) = 1 /\ saves[1].id = 1 /\ catalog[1] = saves[1].row
        /\ seen.last \in {"none", "post"}
        /\ seen.last = "post" => saves[1].row = Found(saves[1].row.found)
    BY <2>1, <2>3 DEF InFlight
  <2>5. saves[1].row \in F!Fields
    BY <1>0, <2>1, FormParts DEF F!Save
  <2>6. /\ bookId' = 1 /\ form' = [form EXCEPT !.found = saves[1].row.found]
        /\ UNCHANGED <<route, catalog, fetches, seen>>
    BY <1>12, <2>1, <2>4 DEF F!Posted
  <2>7. seen.last = "post" => catalog'[1] = Found(form.found)'
    <3>1. saves[1].row.found \in F!Field
      BY <2>5, FieldsParts
    <3>2. F!Required' = F!Required /\ form'.found = saves[1].row.found
      BY <1>0, <2>6, <3>1, FieldsParts DEF F!Required
    <3>3. F!KeptOf(F!Required)' = F!KeptOf(F!Required)
      BY <3>2 DEF F!KeptOf
    <3>4. QED
      BY <2>4, <2>6, <3>2, <3>3 DEF Found
  <2>8. Quiet'
    BY <2>4, <2>6, <2>7 DEF Quiet
  <2>9. Undoubted'
    BY <1>a, <2>2, <2>4, <2>6, <2>8 DEF Undoubted
  <2>10. QED
    BY <1>a, <2>6, <2>9 DEF FormInv
<1>13. ASSUME NEW i \in DOMAIN saves, F!PutDone(i) PROVE FormInv'
  <2>1. i = 1 /\ Len(saves) = 1 /\ InFlight(saves[1]) /\ saves # <<>>
    BY <1>0, <1>a, OnlySave, EmptySeq
  <2>2. saves' = <<>>
    BY <1>0, <1>13, <2>1, TakenOut DEF F!PutDone
  <2>3. saves[1].kind = "put" /\ saves[1].done = TRUE
    BY <1>0, <1>13, <2>1, FormParts DEF F!PutDone, F!Save
  <2>4. UNCHANGED <<route, catalog, bookId, form, fetches, seen>>
    BY <1>13 DEF F!PutDone
  <2>5. Quiet'
    <3>1. /\ F!KeptOf(F!Required)' = F!KeptOf(F!Required)
          /\ F!KeptOf(form)' = F!KeptOf(form)
      BY <2>4 DEF F!Required, F!KeptOf
    <3>2. QED
      BY <2>1, <2>3, <2>4, <3>1 DEF InFlight, Quiet
  <2>6. Undoubted'
    BY <1>a, <2>2, <2>4, <2>5 DEF Undoubted
  <2>7. QED
    BY <1>a, <2>4, <2>6 DEF FormInv
<1>14. ASSUME NEW i \in DOMAIN saves, F!SaveFails(i) PROVE FormInv'
  BY <1>b, <1>14 DEF F!SaveFails
<1>15. ASSUME NEW field \in DOMAIN form, NEW v \in F!Field, F!SaveName(field, v) PROVE FormInv'
  BY <1>6, <1>15 DEF F!SaveName
<1>16. ASSUME NEW i \in DOMAIN names, F!NameFails(i) PROVE FormInv'
  BY <1>6, <1>16 DEF F!NameFails
<1>17. ASSUME NEW n \in 1..3, F!Go(n) PROVE FormInv'
  BY <1>6, <1>17 DEF F!Go, F!calls
<1>18. CASE F!SaveNothing
  BY <1>6, <1>18 DEF F!SaveNothing, F!calls
<1>19. QED
  BY <1>1, <1>2, <1>3, <1>4, <1>5, <1>8, <1>9, <1>10, <1>11, <1>12, <1>13, <1>14, <1>15,
     <1>16, <1>17, <1>18 DEF F!Next

----------------------------------------------------------------------------
(* The tables: the parts of the invariant                                  *)

\* A change of which the page may have shown the result, or the service may
\* have saved it, and after whose answer the list is loaded again.
Pending(w) == w.step = "saved" \/ (w.step = "sent" /\ page = "users" /\ w.op = "rename")

Due(r) == \E j \in DOMAIN writes : writes[j].row = r /\ Pending(writes[j])

SavedDue(r) == \E j \in DOMAIN writes : writes[j].row = r /\ writes[j].step = "saved"

\* The list that will come last has been read.
LastRead == loads # <<>> /\ loads[Len(loads)].read

\* Pages that load the list again: the list that comes last has row r as it is
\* saved, and so has the page if no list is to come, unless a change to the row is
\* on its way after which another list will be asked for.
ReloadRow(r) ==
  /\ LastRead => loads[Len(loads)].list[r] = saved[r] \/ SavedDue(r)
  /\ loads = <<>> /\ listed => shown[r] = T!View(saved)[r] \/ Due(r)

ReloadInv ==
  \A j \in DOMAIN writes :
    writes[j].step = "checking" => page = "users" /\ writes[j].op = "rename"

\* The changes of a page that changes the row it holds.
Fits(w) ==
  /\ w.op \in (IF page = "integrations" THEN {"delete", "folder"} ELSE {"switch"})
  /\ w.step # "checking"

PatchInv ==
  /\ \A i \in DOMAIN writes :
       Fits(writes[i]) /\ (writes[i].step = "saved" /\ writes[i].op = "delete"
                              => saved[writes[i].row] = T!Gone)
  /\ dialog # T!NoDialog => Fits(dialog)

\* A switch that has hold of row r, and a change whose answer will set the row to
\* what is saved.
Holds(w, r) == w.row = r /\ w.op = "switch" /\ w.mine

SetDue(r) ==
  \E j \in DOMAIN writes :
    /\ writes[j].row = r /\ writes[j].step = "saved"
    /\ writes[j].op = "delete" \/ Holds(writes[j], r)

\* Pages that change the row they hold: the switches that have hold of row r ask for
\* one value, which is what is saved once one of them is.
PatchRow(r) ==
  /\ LastRead => loads[Len(loads)].list[r] = saved[r]
  /\ loads = <<>> /\ listed =>
       /\ page # "integrations" => shown[r].name = saved[r].name
       /\ \A i, j \in DOMAIN writes :
            Holds(writes[i], r) /\ Holds(writes[j], r) => writes[i].to = writes[j].to
       /\ \A i \in DOMAIN writes :
            Holds(writes[i], r) /\ writes[i].step = "saved" => saved[r].on = writes[i].to.on
       /\ shown[r] = saved[r] \/ SetDue(r)

RowInv(r) == IF page \in T!Reloading THEN ReloadRow(r) ELSE PatchRow(r)

TableInv ==
  /\ dialog # T!NoDialog => dialog.step = "sent"
  /\ IF page \in T!Reloading THEN ReloadInv ELSE PatchInv
  /\ \A r \in Rows \ stale : RowInv(r)

----------------------------------------------------------------------------
(* The tables: rows, changes and lists                                     *)

Load == [read : BOOLEAN, list : T!Table]

LEMMA TablesParts ==
  ASSUME T!TypeOK
  PROVE  /\ page \in T!Pages /\ saved \in [Rows -> T!Row] /\ shown \in [Rows -> T!Row]
         /\ loads \in Seq(Load) /\ writes \in Seq(T!Write)
         /\ Len(loads) \in Nat /\ DOMAIN loads = 1..Len(loads)
         /\ \A i \in 1..Len(loads) :
              loads[i] \in Load /\ loads[i].read \in BOOLEAN /\ loads[i].list \in [Rows -> T!Row]
         /\ Len(writes) \in Nat /\ DOMAIN writes = 1..Len(writes)
         /\ \A i \in 1..Len(writes) : writes[i] \in T!Write
<1>1. loads \in Seq(Load) /\ writes \in Seq(T!Write)
  BY DEF T!TypeOK, Load
<1>2. \A q \in Load : q.read \in BOOLEAN /\ q.list \in [Rows -> T!Row]
  BY DEF Load, T!Table
<1>3. QED
  BY <1>1, <1>2, ElementOfSeq, LenProperties DEF T!TypeOK, T!Table

LEMMA WriteParts ==
  ASSUME NEW w \in T!Write
  PROVE  /\ w.op \in T!Ops /\ w.row \in Rows /\ w.to \in T!Row /\ w.mine \in BOOLEAN
         /\ w.step \in {"checking", "sent", "saved"}
BY DEF T!Write

\* A change lets go of its row.
LEMMA LetGo ==
  ASSUME NEW w \in T!Write
  PROVE  /\ [w EXCEPT !.mine = FALSE] \in T!Write
         /\ [w EXCEPT !.mine = FALSE].op = w.op /\ [w EXCEPT !.mine = FALSE].row = w.row
         /\ [w EXCEPT !.mine = FALSE].to = w.to /\ [w EXCEPT !.mine = FALSE].step = w.step
BY DEF T!Write

\* A change is saved.
LEMMA Advanced ==
  ASSUME NEW w \in T!Write
  PROVE  /\ [w EXCEPT !.step = "saved"] \in T!Write
         /\ [w EXCEPT !.step = "saved"].op = w.op /\ [w EXCEPT !.step = "saved"].row = w.row
         /\ [w EXCEPT !.step = "saved"].to = w.to /\ [w EXCEPT !.step = "saved"].step = "saved"
         /\ [w EXCEPT !.step = "saved"].mine = w.mine
BY DEF T!Write

LEMMA RowParts ==
  ASSUME NEW q \in T!Row
  PROVE  /\ q.name \in 0..2 /\ q.on \in BOOLEAN /\ q = [name |-> q.name, on |-> q.on]
         /\ \A n \in 0..2 : [q EXCEPT !.name = n] \in T!Row
         /\ \A b \in BOOLEAN : /\ [q EXCEPT !.on = b] \in T!Row
                               /\ [q EXCEPT !.on = b].name = q.name
                               /\ [q EXCEPT !.on = b].on = b
BY DEF T!Row

LEMMA GoneType == T!Gone \in T!Row /\ T!Nothing \in [Rows -> T!Row] /\ T!Unread \in Load
                  /\ T!Unread.read = FALSE
<1>1. T!Gone \in T!Row
  BY DEF T!Gone, T!Row
<1>2. T!Nothing \in [Rows -> T!Row]
  BY <1>1 DEF T!Nothing
<1>3. QED
  BY <1>1, <1>2 DEF T!Unread, Load, T!Table

\* What a change does to the rows.
LEMMA AppliedParts ==
  ASSUME saved \in [Rows -> T!Row], NEW w \in T!Write
  PROVE  /\ T!Applied(w) \in [Rows -> T!Row]
         /\ \A r \in Rows : r # w.row => T!Applied(w)[r] = saved[r]
         /\ w.op = "switch" => /\ T!Applied(w)[w.row].name = saved[w.row].name
                               /\ T!Applied(w)[w.row].on = T!Turned(w)
         /\ w.op = "delete" => T!Applied(w)[w.row] = T!Gone
         /\ w.op = "folder" => T!Applied(w) = saved
<1>1. /\ w.op \in {"rename", "switch", "delete", "create", "folder"} /\ w.row \in Rows
      /\ w.to \in T!Row
  BY WriteParts DEF T!Ops
<1>2. saved[w.row] \in T!Row /\ w.to.name \in 0..2 /\ T!Turned(w) \in BOOLEAN
  <2>1. saved[w.row] \in T!Row /\ w.to.name \in 0..2 /\ w.to.on \in BOOLEAN
    BY <1>1, RowParts
  <2>2. (~saved[w.row].on) \in BOOLEAN
    OBVIOUS
  <2>3. QED
    BY <2>1, <2>2 DEF T!Turned
<1>3. /\ [saved[w.row] EXCEPT !.name = w.to.name] \in T!Row
      /\ [saved[w.row] EXCEPT !.on = T!Turned(w)] \in T!Row
      /\ [saved[w.row] EXCEPT !.on = T!Turned(w)].name = saved[w.row].name
      /\ [saved[w.row] EXCEPT !.on = T!Turned(w)].on = T!Turned(w)
  BY <1>2, RowParts
<1>4. CASE w.op = "rename"
  <2>1. T!Applied(w) = [saved EXCEPT ![w.row] = [saved[w.row] EXCEPT !.name = w.to.name]]
    BY <1>1, <1>4 DEF T!Applied
  <2>2. QED
    BY <1>1, <1>3, <1>4, <2>1
<1>5. CASE w.op = "switch"
  <2>1. T!Applied(w) = [saved EXCEPT ![w.row] = [saved[w.row] EXCEPT !.on = T!Turned(w)]]
    BY <1>1, <1>5 DEF T!Applied
  <2>2. QED
    BY <1>1, <1>3, <1>5, <2>1
<1>6. CASE w.op = "delete"
  BY <1>1, <1>6, GoneType DEF T!Applied
<1>7. CASE w.op = "create"
  BY <1>1, <1>7 DEF T!Applied
<1>8. CASE w.op = "folder"
  BY <1>1, <1>8 DEF T!Applied
<1>9. QED
  BY <1>1, <1>4, <1>5, <1>6, <1>7, <1>8

LEMMA ViewType ==
  ASSUME NEW l \in [Rows -> T!Row]
  PROVE  T!View(l) \in [Rows -> T!Row] /\ (page # "users" => T!View(l) = l)
BY GoneType DEF T!View

\* A row is shown or left out for what it is itself.
LEMMA ViewAt ==
  ASSUME NEW l \in [Rows -> T!Row], NEW k \in [Rows -> T!Row], NEW r \in Rows, l[r] = k[r]
  PROVE  T!View(l)[r] = T!View(k)[r]
BY DEF T!View

----------------------------------------------------------------------------
(* The tables: the kinds of steps                                          *)

\* Change w is sent, after it was confirmed or at once.
Sent(w) ==
  /\ w \in T!Write /\ w.step # "saved"
  /\ w.step = "checking" => page = "users" /\ w.op = "rename"
  /\ page \notin T!Reloading => Fits(w)
  /\ T!Send(w) /\ dialog' \in {dialog, T!NoDialog}
  /\ \/ shown' = shown
     \/ /\ shown' \in [Rows -> T!Row] /\ page = "users" /\ Pending(w)
        /\ \A q \in Rows \ {w.row} : shown'[q] = shown[q]
  /\ UNCHANGED <<page, saved, inactiveToo, listed, loads>>

\* Change w waits to be confirmed.
Asked(w) ==
  /\ w \in T!Write /\ w.step = "sent"
  /\ page \notin T!Reloading => Fits(w)
  /\ dialog' = w
  /\ UNCHANGED <<page, saved, shown, inactiveToo, listed, loads, writes, stale>>

Dismissed ==
  /\ dialog' = T!NoDialog
  /\ UNCHANGED <<page, saved, shown, inactiveToo, listed, loads, writes, stale>>

\* Another list is asked for.
Refreshed ==
  /\ T!SendLoad
  /\ inactiveToo' \in BOOLEAN /\ dialog' \in {dialog, T!NoDialog}
  /\ UNCHANGED <<page, saved, shown, listed, writes>>

\* Change i is answered, and another list is asked for.
Reloaded(i) ==
  /\ T!SendLoad
  /\ writes' = T!RemoveAt(writes, i) /\ shown' \in [Rows -> T!Row]
  /\ UNCHANGED <<page, saved, inactiveToo, listed, dialog>>

\* Change i is answered, and the row is changed.
RowPatched(i) ==
  /\ page \in {"tenants", "books"} /\ writes[i].step = "saved" /\ T!Patched(i)
  /\ writes' = T!RemoveAt(writes, i)
  /\ UNCHANGED <<page, saved, inactiveToo, listed, dialog>>

Kinds ==
  \/ \E i \in DOMAIN loads : T!ReadList(i) \/ T!Arrives(i) \/ T!ListLost(i)
  \/ \E i \in DOMAIN writes :
       \/ T!SaveChange(i) \/ T!Refused(i) \/ T!AnswerLost(i)
       \/ T!EmailFree(i) \/ T!EmailTaken(i)
       \/ Reloaded(i) \/ RowPatched(i) \/ T!IntegrationRemoved(i)
  \/ \E r \in Rows : T!ChangedElsewhere(r)
  \/ \E w : Sent(w) \/ Asked(w)
  \/ Dismissed \/ Refreshed

\* A change that is sent at once is of the kinds above.
LEMMA SendsKinds ==
  ASSUME T!TypeOK, TableInv, NEW r \in Rows, T!Sends(r)
  PROVE  \E w : Sent(w) \/ Asked(w)
<1> USE TablesParts
<1>1. ASSUME NEW w \in T!Write, w.step = "sent", page \notin T!Reloading => Fits(w),
             T!SendsOnly(w)
      PROVE  Sent(w)
  BY <1>1 DEF T!SendsOnly, T!view, Sent
<1>2. ASSUME NEW w \in T!Write, w.step = "sent", page \notin T!Reloading => Fits(w),
             T!AsksOnly(w)
      PROVE  Asked(w)
  BY <1>2 DEF T!AsksOnly, T!Ask, T!view, Asked
<1>3. ASSUME NEW n \in 1..2
      PROVE  /\ T!Renamed(r, n) \in T!Write /\ T!Renamed(r, n).op = "rename"
             /\ T!Renamed(r, n).step = "sent" /\ T!Renamed(r, n).row = r
             /\ T!Created(r, n) \in T!Write /\ T!Created(r, n).step = "sent"
  <2>1. n \in 0..2 /\ "rename" \in T!Ops /\ "create" \in T!Ops
    BY DEF T!Ops
  <2>2. /\ T!Renamed(r, n) \in T!Write /\ T!Renamed(r, n).op = "rename"
        /\ T!Renamed(r, n).step = "sent" /\ T!Renamed(r, n).row = r
    BY <2>1 DEF T!Renamed, T!Change, T!Write, T!Row
  <2>3. T!Created(r, n) \in T!Write /\ T!Created(r, n).step = "sent"
    BY <2>1 DEF T!Created, T!Change, T!Write, T!Row
  <2>4. QED
    BY <2>2, <2>3
<1>4. /\ T!Switched(r) \in T!Write /\ T!Switched(r).op = "switch" /\ T!Switched(r).step = "sent"
      /\ T!Deleted(r) \in T!Write /\ T!Deleted(r).op = "delete" /\ T!Deleted(r).step = "sent"
      /\ T!Change("folder", r, 0, FALSE) \in T!Write
      /\ T!Change("folder", r, 0, FALSE).op = "folder"
      /\ T!Change("folder", r, 0, FALSE).step = "sent"
  <2>1. /\ 0 \in 0..2 /\ "switch" \in T!Ops /\ "delete" \in T!Ops /\ "folder" \in T!Ops
        /\ (~shown[r].on) \in BOOLEAN
    BY DEF T!Ops
  <2>2. /\ T!Switched(r) \in T!Write /\ T!Switched(r).op = "switch"
        /\ T!Switched(r).step = "sent"
    BY <2>1 DEF T!Switched, T!Change, T!Write, T!Row
  <2>3. T!Deleted(r) \in T!Write /\ T!Deleted(r).op = "delete" /\ T!Deleted(r).step = "sent"
    BY <2>1 DEF T!Deleted, T!Change, T!Write, T!Row
  <2>4. /\ T!Change("folder", r, 0, FALSE) \in T!Write
        /\ T!Change("folder", r, 0, FALSE).op = "folder"
        /\ T!Change("folder", r, 0, FALSE).step = "sent"
    BY <2>1 DEF T!Change, T!Write, T!Row
  <2>5. QED
    BY <2>2, <2>3, <2>4
<1>5. ASSUME NEW n \in 1..2,
             \/ T!SaveGenreEdit(r, n) \/ T!SaveSeriesEdit(r, n)
             \/ T!CreateGenre(r, n) \/ T!CreateSeries(r, n) \/ T!AddUser(r, n)
      PROVE  \E w : Sent(w)
  <2>1. page \in T!Reloading
    BY <1>5 DEF T!SaveGenreEdit, T!SaveSeriesEdit, T!CreateGenre, T!CreateSeries, T!AddUser,
                T!On, T!Reloading
  <2>2. T!SendsOnly(T!Renamed(r, n)) \/ T!SendsOnly(T!Created(r, n))
    BY <1>5 DEF T!SaveGenreEdit, T!SaveSeriesEdit, T!CreateGenre, T!CreateSeries, T!AddUser
  <2>3. QED
    BY <1>1, <1>3, <2>1, <2>2
<1>6. ASSUME NEW n \in 1..2, T!ApplyUpdate(r, n) PROVE \E w : Sent(w)
  <2>1. page = "users" /\ page \in T!Reloading
    BY <1>6 DEF T!ApplyUpdate, T!On, T!Reloading
  <2>2. shown' \in [Rows -> T!Row]
    <3>1. [shown[r] EXCEPT !.name = n] \in T!Row
      <4>1. shown[r] \in T!Row /\ n \in 0..2
        OBVIOUS
      <4>2. QED
        BY <4>1, RowParts
    <3>2. shown' = [shown EXCEPT ![r] = [shown[r] EXCEPT !.name = n]]
      BY <1>6 DEF T!ApplyUpdate
    <3>3. QED
      BY <3>1, <3>2
  <2>3. Pending(T!Renamed(r, n)) /\ T!Renamed(r, n).row = r
    BY <1>3, <2>1 DEF Pending
  <2>0. \A q \in Rows \ {r} : shown'[q] = shown[q]
    BY <1>6 DEF T!ApplyUpdate
  <2>4. Sent(T!Renamed(r, n))
    BY <1>3, <1>6, <2>0, <2>1, <2>2, <2>3 DEF T!ApplyUpdate, Sent
  <2>5. QED
    BY <2>4
<1>7. ASSUME NEW n \in 1..2, T!CheckEmail(r, n) PROVE \E w : Sent(w)
  <2>1. page = "users" /\ page \in T!Reloading
    BY <1>7 DEF T!CheckEmail, T!On, T!Reloading
  <2>2. PICK w : w = [T!Renamed(r, n) EXCEPT !.step = "checking", !.mine = TRUE]
    OBVIOUS
  <2>3. w \in T!Write /\ w.step = "checking" /\ w.op = "rename"
    BY <1>3, <2>2 DEF T!Write
  <2>4. T!SendsOnly(w)
    BY <1>7, <2>2 DEF T!CheckEmail
  <2>5. Sent(w)
    BY <2>1, <2>3, <2>4 DEF T!SendsOnly, T!view, Sent
  <2>6. QED
    BY <2>5
<1>8. CASE T!DeleteGenre(r) \/ T!DeleteSeries(r) \/ T!DeleteUser(r)
  <2>1. page \in T!Reloading /\ T!AsksOnly(T!Deleted(r))
    BY <1>8 DEF T!DeleteGenre, T!DeleteSeries, T!DeleteUser, T!On, T!Reloading
  <2>2. QED
    BY <1>2, <1>4, <2>1
<1>9. CASE T!ToggleUserStatus(r)
  <2>1. page \in T!Reloading /\ T!AsksOnly(T!Switched(r))
    BY <1>9 DEF T!ToggleUserStatus, T!On, T!Reloading
  <2>2. QED
    BY <1>2, <1>4, <2>1
<1>10. CASE T!RemoveIntegration(r)
  <2>1. page = "integrations" /\ T!AsksOnly(T!Deleted(r))
    BY <1>10 DEF T!RemoveIntegration, T!On
  <2>2. QED
    BY <1>2, <1>4, <2>1 DEF Fits
<1>11. CASE T!ToggleTenant(r)
  <2>1. page = "tenants" /\ T!AsksOnly(T!Switched(r))
    BY <1>11 DEF T!ToggleTenant, T!On
  <2>2. QED
    BY <1>2, <1>4, <2>1 DEF Fits, T!Reloading
<1>12. CASE T!ToggleRestricted(r)
  <2>1. page = "books" /\ T!SendsOnly(T!Switched(r))
    BY <1>12 DEF T!ToggleRestricted, T!On
  <2>2. QED
    BY <1>1, <1>4, <2>1 DEF Fits, T!Reloading
<1>13. CASE T!AddFolder(r)
  <2>1. page = "integrations" /\ T!SendsOnly(T!Change("folder", r, 0, FALSE))
    BY <1>13 DEF T!AddFolder, T!On
  <2>2. QED
    BY <1>1, <1>4, <2>1 DEF Fits
<1>14. QED
  BY <1>5, <1>6, <1>7, <1>8, <1>9, <1>10, <1>11, <1>12, <1>13 DEF T!Sends

LEMMA AnswersKinds ==
  ASSUME T!TypeOK, NEW i \in DOMAIN writes, T!Answers(i)
  PROVE  Reloaded(i) \/ RowPatched(i) \/ T!IntegrationRemoved(i)
<1> USE TablesParts
<1>1. ASSUME NEW p, NEW ops, T!Answered(i, p, ops), T!Reload
      PROVE  Reloaded(i)
  BY <1>1 DEF T!Answered, T!Reload, Reloaded
<1>2. ASSUME NEW p, NEW ops, T!Answered(i, p, ops), T!Pushed(i)
      PROVE  Reloaded(i)
  <2>1. writes[i].to \in T!Row
    BY WriteParts
  <2>2. shown' = [shown EXCEPT ![writes[i].row] = writes[i].to]
    BY <1>2 DEF T!Pushed
  <2>3. shown' \in [Rows -> T!Row]
    BY <2>1, <2>2
  <2>4. QED
    BY <1>2, <2>3 DEF T!Answered, T!Pushed, Reloaded
<1>3. ASSUME NEW p \in {"tenants", "books"}, NEW ops, T!Answered(i, p, ops), T!Patched(i)
      PROVE  RowPatched(i)
  BY <1>3 DEF T!Answered, RowPatched
<1>4. QED
  BY <1>1, <1>2, <1>3 DEF T!Answers, T!GenreSaved, T!GenreCreated, T!GenreDeleted,
     T!SeriesSaved, T!SeriesCreated, T!SeriesDeleted, T!UserAdded, T!UserStatusChanged,
     T!UserDeleted, T!UserUpdated, T!TenantToggled, T!BookToggled, T!FolderAdded

LEMMA StepKinds ==
  ASSUME T!TypeOK, TableInv, T!Next
  PROVE  Kinds
<1> USE DEF Kinds
<1>0. dialog # T!NoDialog => dialog \in T!Write /\ dialog.step = "sent"
  BY DEF T!TypeOK, TableInv
<1>1. ASSUME NEW i \in DOMAIN loads, T!Listed(i) PROVE T!Arrives(i)
  BY <1>1 DEF T!Listed, T!GenresListed, T!SeriesListed, T!UsersListed, T!TenantsListed,
              T!BooksListed, T!IntegrationsListed
<1>2. CASE \E i \in DOMAIN loads : T!ReadList(i) \/ T!Listed(i) \/ T!ListLost(i)
  BY <1>1, <1>2
<1>3. ASSUME NEW i \in DOMAIN writes,
             \/ T!SaveChange(i) \/ T!Refused(i) \/ T!AnswerLost(i)
             \/ T!EmailFree(i) \/ T!EmailTaken(i) \/ T!Answers(i)
      PROVE  Kinds
  BY <1>3, AnswersKinds
<1>4. ASSUME NEW r \in Rows, T!Sends(r) \/ T!ChangedElsewhere(r) PROVE Kinds
  BY <1>4, SendsKinds
<1>5. CASE T!CategoriesListed
  <2>1. Refreshed
    BY <1>5 DEF T!CategoriesListed, T!view, T!TypeOK, Refreshed
  <2>2. QED
    BY <2>1
<1>6. CASE T!ToggleInactiveUsers
  <2>1. (~inactiveToo) \in BOOLEAN
    OBVIOUS
  <2>2. Refreshed
    BY <1>6, <2>1 DEF T!ToggleInactiveUsers, T!TypeOK, Refreshed
  <2>3. QED
    BY <2>2
<1>7. CASE T!Confirm
  <2>1. dialog \in T!Write /\ dialog.step = "sent"
    BY <1>0, <1>7 DEF T!Confirm
  <2>2. page \notin T!Reloading => Fits(dialog)
    BY <1>7 DEF T!Confirm, TableInv, PatchInv
  <2>3. Sent(dialog)
    BY <1>7, <2>1, <2>2 DEF T!Confirm, T!view, Sent
  <2>4. QED
    BY <2>3
<1>8. CASE T!Dismiss
  <2>1. Dismissed
    BY <1>8 DEF T!Dismiss, T!view, Dismissed
  <2>2. QED
    BY <2>1
<1>9. CASE T!DismissTenant
  <2>1. Refreshed
    BY <1>9 DEF T!DismissTenant, T!view, T!TypeOK, Refreshed
  <2>2. QED
    BY <2>1
<1>10. QED
  BY <1>2, <1>3, <1>4, <1>5, <1>6, <1>7, <1>8, <1>9 DEF T!Next

----------------------------------------------------------------------------
(* The tables: types                                                       *)

LEMMA OneWay ==
  ASSUME NEW s, NEW i
  PROVE  T!RemoveAt(s, i) = F!RemoveAt(s, i)
BY DEF T!RemoveAt, F!RemoveAt

LEMMA RowsOfType == T!RowsOf(page) \subseteq T!Row
<1>1. T!Gone \in T!Row /\ [name |-> 1, on |-> TRUE] \in T!Row
  BY GoneType DEF T!Row
<1>2. [name : {1}, on : BOOLEAN] \subseteq T!Row
  BY DEF T!Row
<1>3. QED
  BY <1>1, <1>2 DEF T!RowsOf

LEMMA TableTypeInit == T!Init => T!TypeOK
<1> SUFFICES ASSUME T!Init PROVE T!TypeOK
  OBVIOUS
<1>1. T!RowsOf(page) \subseteq T!Row
  BY RowsOfType
<1>2. saved \in [Rows -> T!Row]
  BY <1>1 DEF T!Init
<1>3. <<T!Unread>> \in Seq(Load)
  <2>1. PICK u \in Load : u = T!Unread
    BY GoneType
  <2>2. <<u>> \in Seq(Load)
    OBVIOUS
  <2>3. QED
    BY <2>1, <2>2
<1>4. loads \in Seq(Load)
  BY <1>3, EmptySeq DEF T!Init
<1>5. writes \in Seq(T!Write)
  BY EmptySeq DEF T!Init
<1>6. inactiveToo \in BOOLEAN /\ listed \in BOOLEAN /\ stale \subseteq Rows
  BY DEF T!Init
<1>7. QED
  BY <1>2, <1>4, <1>5, <1>6, GoneType DEF T!Init, T!TypeOK, T!Table, Load

LEMMA TableTypeStep ==
  ASSUME T!TypeOK, Kinds
  PROVE  T!TypeOK'
<1> USE TablesParts
<1>0. /\ page \in T!Pages /\ saved \in [Rows -> T!Row] /\ shown \in [Rows -> T!Row]
      /\ inactiveToo \in BOOLEAN /\ listed \in BOOLEAN /\ stale \subseteq Rows
      /\ loads \in Seq(Load) /\ writes \in Seq(T!Write)
      /\ dialog = T!NoDialog \/ dialog \in T!Write
  BY DEF T!TypeOK, T!Table, Load
<1>1. SUFFICES /\ page' \in T!Pages /\ saved' \in [Rows -> T!Row] /\ shown' \in [Rows -> T!Row]
               /\ inactiveToo' \in BOOLEAN /\ listed' \in BOOLEAN /\ stale' \subseteq Rows
               /\ loads' \in Seq(Load) /\ writes' \in Seq(T!Write)
               /\ dialog' = T!NoDialog \/ dialog' \in T!Write
  BY DEF T!TypeOK, T!Table, Load
<1> DEFINE Typed ==
      /\ page' \in T!Pages /\ saved' \in [Rows -> T!Row] /\ shown' \in [Rows -> T!Row]
      /\ inactiveToo' \in BOOLEAN /\ listed' \in BOOLEAN /\ stale' \subseteq Rows
      /\ loads' \in Seq(Load) /\ writes' \in Seq(T!Write)
      /\ dialog' = T!NoDialog \/ dialog' \in T!Write
<1>2. ASSUME NEW i \in DOMAIN loads, T!ReadList(i) PROVE Typed
  <2>1. PICK l : l = [read |-> TRUE, list |-> saved]
    OBVIOUS
  <2>2. l \in Load
    BY <2>1 DEF Load, T!Table
  <2>3. loads' = [loads EXCEPT ![i] = l]
    BY <1>2, <2>1 DEF T!ReadList
  <2>4. loads' \in Seq(Load)
    BY <1>0, <2>2, <2>3, ExceptSeq
  <2>5. QED
    BY <1>0, <1>2, <2>4 DEF T!ReadList, T!view
<1>3. ASSUME NEW i \in DOMAIN loads, T!Arrives(i) PROVE Typed
  <2>1. loads' \in Seq(Load)
    BY <1>0, <1>3, OneWay, TakenOut DEF T!Arrives
  <2>2. shown' \in [Rows -> T!Row]
    BY <1>3, ViewType DEF T!Arrives
  <2>3. writes' \in Seq(T!Write)
    <3>1. writes' = [j \in 1..Len(writes) |-> [writes[j] EXCEPT !.mine = FALSE]]
      BY <1>3 DEF T!Arrives
    <3>2. \A j \in 1..Len(writes) : [writes[j] EXCEPT !.mine = FALSE] \in T!Write
      BY LetGo
    <3>3. writes' \in [1..Len(writes) -> T!Write]
      BY <3>1, <3>2
    <3>4. QED
      BY <3>3, IsSeq
  <2>4. dialog' = T!NoDialog \/ dialog' \in T!Write
    BY <1>0, <1>3, LetGo DEF T!Arrives
  <2>5. stale' \subseteq Rows /\ listed' \in BOOLEAN
    BY <1>0, <1>3 DEF T!Arrives, T!Overtaken
  <2>6. QED
    BY <1>0, <1>3, <2>1, <2>2, <2>3, <2>4, <2>5 DEF T!Arrives
<1>4. ASSUME NEW i \in DOMAIN loads, T!ListLost(i) PROVE Typed
  <2>1. loads' \in Seq(Load)
    BY <1>0, <1>4, OneWay, TakenOut DEF T!ListLost
  <2>2. QED
    BY <1>0, <1>4, <2>1 DEF T!ListLost, T!Overtaken, T!view
<1>a. \A q \in Rows : \A left : T!Stale(q, left) => stale' \subseteq Rows
  BY <1>0 DEF T!Stale
<1>b. \A i \in DOMAIN writes : writes[i].row \in Rows
  BY WriteParts
<1>5. ASSUME NEW i \in DOMAIN writes, writes' = T!RemoveAt(writes, i)
      PROVE  writes' \in Seq(T!Write)
  BY <1>0, <1>5, OneWay, TakenOut
<1>6. ASSUME NEW i \in DOMAIN writes, T!SaveChange(i) PROVE Typed
  <2>1. saved' \in [Rows -> T!Row]
    BY <1>0, <1>6, AppliedParts DEF T!SaveChange
  <2>2. [writes[i] EXCEPT !.step = "saved"] \in T!Write
    BY Advanced
  <2>3. writes' \in Seq(T!Write)
    BY <1>0, <1>6, <2>2, ExceptSeq DEF T!SaveChange
  <2>4. QED
    BY <1>0, <1>a, <1>b, <1>6, <2>1, <2>3 DEF T!SaveChange, T!view
<1>7. ASSUME NEW i \in DOMAIN writes, T!Refused(i) PROVE Typed
  <2>1. stale' \subseteq Rows /\ writes' \in Seq(T!Write)
    BY <1>a, <1>b, <1>5, <1>7 DEF T!Refused
  <2>2. QED
    BY <1>0, <1>7, <2>1 DEF T!Refused, T!view
<1>8. ASSUME NEW i \in DOMAIN writes, T!AnswerLost(i) PROVE Typed
  <2>1. stale' \subseteq Rows /\ writes' \in Seq(T!Write)
    BY <1>a, <1>b, <1>5, <1>8 DEF T!AnswerLost
  <2>2. QED
    BY <1>0, <1>8, <2>1 DEF T!AnswerLost, T!view
<1>9. ASSUME NEW i \in DOMAIN writes, T!EmailFree(i) PROVE Typed
  <2>1. writes[i] \in T!Write /\ writes[i].to \in T!Row /\ writes[i].to.name \in 0..2
    BY WriteParts, RowParts
  <2>2. shown' \in [Rows -> T!Row]
    <3>1. writes[i].row \in Rows /\ shown[writes[i].row] \in T!Row
      BY <1>0, <2>1, WriteParts
    <3>2. [shown[writes[i].row] EXCEPT !.name = writes[i].to.name] \in T!Row
      BY <2>1, <3>1, RowParts
    <3>3. [shown EXCEPT ![writes[i].row].name = writes[i].to.name] \in [Rows -> T!Row]
      BY <1>0, <3>1, <3>2
    <3>4. QED
      BY <1>0, <1>9, <3>3 DEF T!EmailFree
  <2>3. writes' \in Seq(T!Write)
    <3>1. PICK w : w = [writes[i] EXCEPT !.step = "sent", !.mine = FALSE]
      OBVIOUS
    <3>2. w \in T!Write
      BY <2>1, <3>1 DEF T!Write
    <3>3. writes' = [writes EXCEPT ![i] = w]
      BY <1>9, <3>1 DEF T!EmailFree
    <3>4. QED
      BY <1>0, <3>2, <3>3, ExceptSeq
  <2>4. QED
    BY <1>0, <1>9, <2>2, <2>3 DEF T!EmailFree
<1>10. ASSUME NEW i \in DOMAIN writes, T!EmailTaken(i) PROVE Typed
  BY <1>0, <1>5, <1>10 DEF T!EmailTaken, T!view
<1>11. T!SendLoad => loads' \in Seq(Load) /\ stale' \subseteq Rows
  BY <1>0, GoneType, AppendProperties DEF T!SendLoad
<1>12. ASSUME NEW i \in DOMAIN writes, Reloaded(i) PROVE Typed
  BY <1>0, <1>5, <1>11, <1>12 DEF Reloaded
<1>13. ASSUME NEW i \in DOMAIN writes, RowPatched(i) PROVE Typed
  <2>1. writes[i].row \in Rows /\ writes[i].to \in T!Row /\ shown[writes[i].row] \in T!Row
    BY <1>0, WriteParts
  <2>2. [shown[writes[i].row] EXCEPT !.on = writes[i].to.on] \in T!Row
    BY <2>1, RowParts
  <2>3. [shown EXCEPT ![writes[i].row].on = writes[i].to.on] \in [Rows -> T!Row]
    BY <1>0, <2>1, <2>2
  <2>4. shown' \in [Rows -> T!Row]
    BY <1>0, <1>13, <2>3 DEF RowPatched, T!Patched
  <2>5. QED
    BY <1>0, <1>5, <1>13, <2>4 DEF RowPatched, T!Patched
<1>14. ASSUME NEW i \in DOMAIN writes, T!IntegrationRemoved(i) PROVE Typed
  <2>1. shown' \in [Rows -> T!Row]
    BY <1>0, <1>14, GoneType DEF T!IntegrationRemoved
  <2>2. QED
    BY <1>0, <1>5, <1>14, <2>1 DEF T!IntegrationRemoved, T!Answered
<1>15. ASSUME NEW r \in Rows, T!ChangedElsewhere(r) PROVE Typed
  <2>1. PICK row \in T!Row : saved' = [saved EXCEPT ![r] = row]
    BY <1>15, RowsOfType DEF T!ChangedElsewhere
  <2>2. QED
    BY <1>0, <1>a, <1>15, <2>1 DEF T!ChangedElsewhere, T!view
<1>16. ASSUME NEW w, Sent(w) PROVE Typed
  <2>1. writes' \in Seq(T!Write)
    BY <1>0, <1>16, AppendProperties DEF Sent, T!Send
  <2>2. stale' \subseteq Rows
    BY <1>a, <1>16, WriteParts DEF Sent, T!Send
  <2>3. QED
    BY <1>0, <1>16, <2>1, <2>2 DEF Sent
<1>17. ASSUME NEW w, Asked(w) PROVE Typed
  BY <1>0, <1>17 DEF Asked
<1>18. Dismissed => Typed
  BY <1>0 DEF Dismissed
<1>19. Refreshed => Typed
  BY <1>0, <1>11 DEF Refreshed
<1>20. QED
  BY <1>2, <1>3, <1>4, <1>6, <1>7, <1>8, <1>9, <1>10, <1>12, <1>13, <1>14, <1>15, <1>16,
     <1>17, <1>18, <1>19 DEF Kinds

----------------------------------------------------------------------------
(* The tables: sequences of changes                                        *)

\* What is left when element i is taken out.
LEMMA Left ==
  ASSUME NEW S, NEW s \in Seq(S), NEW i \in 1..Len(s)
  PROVE  /\ Len(T!RemoveAt(s, i)) = Len(s) - 1
         /\ DOMAIN T!RemoveAt(s, i) = 1..Len(s) - 1
         /\ \A j \in 1..Len(s) - 1 : \E k \in 1..Len(s) : k # i /\ T!RemoveAt(s, i)[j] = s[k]
         /\ \A k \in 1..Len(s) : k # i =>
              \E j \in 1..Len(s) - 1 : T!RemoveAt(s, i)[j] = s[k]
<1> DEFINE t == T!RemoveAt(s, i)
<1>a. /\ t \in Seq(S) /\ Len(t) = Len(s) - 1
      /\ \A k \in 1..Len(s) - 1 : t[k] = IF k < i THEN s[k] ELSE s[k + 1]
  BY OneWay, TakenOut
<1> HIDE DEF t
<1>0. Len(s) \in Nat /\ i \in Nat /\ 1 <= i /\ i <= Len(s)
  BY LenProperties
<1>1. /\ Len(t) = Len(s) - 1 /\ DOMAIN t = 1..Len(s) - 1
      /\ \A k \in 1..Len(s) - 1 : t[k] = IF k < i THEN s[k] ELSE s[k + 1]
  BY <1>a, LenProperties
<1>2. ASSUME NEW j \in DOMAIN t PROVE \E k \in 1..Len(s) : k # i /\ t[j] = s[k]
  <2>1. j \in 1..Len(s) - 1 /\ j \in Nat
    BY <1>0, <1>1
  <2>2. CASE j < i
    BY <1>0, <1>1, <2>1, <2>2
  <2>3. CASE ~(j < i)
    <3>1. j + 1 \in 1..Len(s) /\ j + 1 # i /\ t[j] = s[j + 1]
      BY <1>0, <1>1, <2>1, <2>3
    <3>2. QED
      BY <3>1
  <2>4. QED
    BY <2>2, <2>3
<1>3. ASSUME NEW k \in 1..Len(s), k # i PROVE \E j \in DOMAIN t : t[j] = s[k]
  <2>1. CASE k < i
    <3>1. k \in 1..Len(s) - 1
      BY <1>0, <2>1
    <3>2. QED
      BY <1>1, <2>1, <3>1
  <2>2. CASE ~(k < i)
    <3>1. k - 1 \in 1..Len(s) - 1 /\ ~(k - 1 < i) /\ (k - 1) + 1 = k
      BY <1>0, <1>3, <2>2
    <3>2. t[k - 1] = s[k]
      BY <1>1, <3>1
    <3>3. QED
      BY <1>1, <3>1, <3>2
  <2>3. QED
    BY <2>1, <2>2
<1>4. QED
  BY <1>1, <1>2, <1>3 DEF t

\* One element more.
LEMMA Longer ==
  ASSUME NEW S, NEW s \in Seq(S), NEW e \in S, NEW t, t = Append(s, e)
  PROVE  /\ t \in Seq(S) /\ Len(t) = Len(s) + 1 /\ DOMAIN t = 1..Len(t) /\ t # <<>>
         /\ t[Len(t)] = e /\ Len(t) \in DOMAIN t
         /\ \A j \in 1..Len(s) : j \in DOMAIN t /\ j # Len(t) /\ t[j] = s[j]
         /\ \A j \in DOMAIN t : j = Len(t) \/ (j \in 1..Len(s) /\ t[j] = s[j])
<1>1. Len(s) \in Nat
  BY LenProperties
<1>2. /\ t \in Seq(S) /\ Len(t) = Len(s) + 1 /\ t # <<>> /\ t[Len(s) + 1] = e
      /\ \A j \in 1..Len(s) : t[j] = s[j]
  BY AppendProperties
<1>3. DOMAIN t = 1..Len(t)
  BY <1>2, LenProperties
<1>4. \A j \in 1..Len(s) + 1 : j = Len(s) + 1 \/ j \in 1..Len(s)
  BY <1>1
<1>5. \A j \in 1..Len(s) : j \in 1..Len(s) + 1 /\ j # Len(s) + 1
  BY <1>1
<1>6. Len(s) + 1 \in 1..Len(s) + 1
  BY <1>1
<1>7. QED
  BY <1>2, <1>3, <1>4, <1>5, <1>6

\* The changes that are left when one is answered.
LEMMA WritesLeft ==
  ASSUME T!TypeOK, NEW i \in DOMAIN writes, writes' = T!RemoveAt(writes, i)
  PROVE  /\ \A j \in DOMAIN writes' : \E k \in DOMAIN writes : k # i /\ writes'[j] = writes[k]
         /\ \A k \in DOMAIN writes : k # i => \E j \in DOMAIN writes' : writes'[j] = writes[k]
<1>1. writes \in Seq(T!Write) /\ DOMAIN writes = 1..Len(writes) /\ i \in 1..Len(writes)
  BY TablesParts
<1>2. /\ DOMAIN T!RemoveAt(writes, i) = 1..Len(writes) - 1
      /\ \A j \in 1..Len(writes) - 1 :
           \E k \in 1..Len(writes) : k # i /\ T!RemoveAt(writes, i)[j] = writes[k]
      /\ \A k \in 1..Len(writes) : k # i =>
           \E j \in 1..Len(writes) - 1 : T!RemoveAt(writes, i)[j] = writes[k]
  BY <1>1, Left, Zenon
<1>3. QED
  BY <1>1, <1>2, Zenon

\* What is due to a row when another change is taken out.
LEMMA DueLeft ==
  ASSUME T!TypeOK, NEW i \in DOMAIN writes, writes' = T!RemoveAt(writes, i), page' = page,
         NEW r
  PROVE  /\ writes[i].row # r \/ writes[i].step # "saved" =>
              (SavedDue(r) => SavedDue(r)') /\ (SetDue(r) => SetDue(r)')
         /\ writes[i].row # r \/ ~Pending(writes[i]) => (Due(r) => Due(r)')
         /\ \A j \in DOMAIN writes' : \E k \in DOMAIN writes : writes'[j] = writes[k]
<1>1. /\ \A j \in DOMAIN writes' : \E k \in DOMAIN writes : k # i /\ writes'[j] = writes[k]
      /\ \A k \in DOMAIN writes : k # i => \E j \in DOMAIN writes' : writes'[j] = writes[k]
  BY WritesLeft
<1>2. ASSUME writes[i].row # r \/ writes[i].step # "saved"
      PROVE  (SavedDue(r) => SavedDue(r)') /\ (SetDue(r) => SetDue(r)')
  <2>1. SavedDue(r) => SavedDue(r)'
    BY <1>1, <1>2 DEF SavedDue
  <2>2. SetDue(r) => SetDue(r)'
    BY <1>1, <1>2 DEF SetDue, Holds
  <2>3. QED
    BY <2>1, <2>2
<1>3. ASSUME writes[i].row # r \/ ~Pending(writes[i]), Due(r) PROVE Due(r)'
  <2>1. PICK k \in DOMAIN writes : writes[k].row = r /\ Pending(writes[k])
    BY <1>3 DEF Due
  <2>2. k # i
    BY <1>3, <2>1
  <2>3. PICK j \in DOMAIN writes' : writes'[j] = writes[k]
    BY <1>1, <2>2
  <2>4. QED
    BY <2>1, <2>3 DEF Due, Pending
<1>4. QED
  BY <1>1, <1>2, <1>3

\* And when one is sent.
LEMMA DueLonger ==
  ASSUME T!TypeOK, page' = page, NEW w \in T!Write, T!Send(w), NEW r
  PROVE  /\ SavedDue(r) => SavedDue(r)'
         /\ SetDue(r) => SetDue(r)'
         /\ Due(r) => Due(r)'
         /\ w.row = r /\ Pending(w) => Due(r)'
         /\ \A j \in DOMAIN writes' : writes'[j] = w \/ \E k \in DOMAIN writes : writes'[j] = writes[k]
<1>1. writes \in Seq(T!Write) /\ DOMAIN writes = 1..Len(writes) /\ writes' = Append(writes, w)
  BY TablesParts DEF T!Send
<1>2. /\ writes'[Len(writes')] = w /\ Len(writes') \in DOMAIN writes'
      /\ \A j \in 1..Len(writes) : j \in DOMAIN writes' /\ writes'[j] = writes[j]
      /\ \A j \in DOMAIN writes' : j = Len(writes') \/ (j \in 1..Len(writes) /\ writes'[j] = writes[j])
  BY <1>1, Longer
<1>3. /\ \A k \in DOMAIN writes : \E j \in DOMAIN writes' : writes'[j] = writes[k]
      /\ \E j \in DOMAIN writes' : writes'[j] = w
      /\ \A j \in DOMAIN writes' : writes'[j] = w \/ \E k \in DOMAIN writes : writes'[j] = writes[k]
  BY <1>1, <1>2
<1>4. SavedDue(r) => SavedDue(r)'
  BY <1>3 DEF SavedDue
<1>5. SetDue(r) => SetDue(r)'
  BY <1>3 DEF SetDue, Holds
<1>6. Due(r) => Due(r)'
  BY <1>3 DEF Due, Pending
<1>7. w.row = r /\ Pending(w) => Due(r)'
  BY <1>3 DEF Due, Pending
<1>8. QED
  BY <1>3, <1>4, <1>5, <1>6, <1>7

----------------------------------------------------------------------------
(* The tables: lists that come                                             *)

\* As long as the list that comes last is not read, nothing is claimed.
LEMMA ToBeRead ==
  ASSUME NEW r, loads' # <<>>, ~loads'[Len(loads')].read
  PROVE  RowInv(r)'
BY DEF RowInv, ReloadRow, PatchRow, LastRead

LEMMA NoneRead ==
  ASSUME ~T!NoneToRead
  PROVE  loads # <<>> /\ ~loads[Len(loads)].read
BY DEF T!NoneToRead, T!Last

LEMMA AskedAgain ==
  ASSUME T!TypeOK, T!SendLoad, NEW r
  PROVE  RowInv(r)'
<1>1. loads \in Seq(Load) /\ T!Unread \in Load /\ loads' = Append(loads, T!Unread)
  BY TablesParts, GoneType DEF T!SendLoad
<1>2. loads' # <<>> /\ loads'[Len(loads')] = T!Unread
  BY <1>1, Longer
<1>3. QED
  BY <1>2, ToBeRead, GoneType

\* A list goes, and the one that comes last is not it.
LEMMA ListGone ==
  ASSUME T!TypeOK, NEW i \in DOMAIN loads, loads' = T!RemoveAt(loads, i), T!Overtaken(i),
         NEW r \in Rows \ stale', RowInv(r), page' = page, saved' = saved,
         SavedDue(r) => SavedDue(r)'
  PROVE  RowInv(r)'
<1>1. /\ loads \in Seq(Load) /\ i \in 1..Len(loads) /\ Len(loads) \in Nat
      /\ Len(loads') = Len(loads) - 1
      /\ \A k \in 1..Len(loads) - 1 : loads'[k] = IF k < i THEN loads[k] ELSE loads[k + 1]
  BY TablesParts, OneWay, TakenOut
<1>2. i # Len(loads)
  BY DEF T!Overtaken
<1>3. /\ Len(loads) - 1 \in 1..Len(loads) - 1 /\ ~(Len(loads) - 1 < i)
      /\ (Len(loads) - 1) + 1 = Len(loads) /\ Len(loads) - 1 # 0
  BY <1>1, <1>2
<1>4. loads'[Len(loads')] = loads[Len(loads)]
  BY <1>1, <1>3
<1>5. loads' # <<>> /\ loads # <<>>
  BY <1>1, <1>3, EmptySeq
<1>6. CASE page \in T!Reloading
  BY <1>4, <1>5, <1>6 DEF RowInv, ReloadRow, LastRead, T!Reloading
<1>7. CASE page \notin T!Reloading
  BY <1>4, <1>5, <1>7 DEF RowInv, PatchRow, LastRead, T!Reloading
<1>8. QED
  BY <1>6, <1>7

\* The only list comes, and the page shows it.
LEMMA ListComes ==
  ASSUME T!TypeOK, NEW i \in DOMAIN loads, T!Arrives(i), Len(loads) = 1,
         NEW r \in Rows, RowInv(r), SavedDue(r) => SavedDue(r)'
  PROVE  RowInv(r)'
<1>0. /\ loads \in Seq(Load) /\ i \in 1..Len(loads)
      /\ saved \in [Rows -> T!Row] /\ loads[i].list \in [Rows -> T!Row]
  BY TablesParts
<1>1. i = 1 /\ loads # <<>>
  BY <1>0, NotEmpty
<1>2. LastRead /\ loads[Len(loads)] = loads[i]
  BY <1>1 DEF T!Arrives, LastRead
<1>3. loads' = <<>>
  BY <1>0, OneWay, TakenOut DEF T!Arrives
<1>4. /\ shown' = T!View(loads[i].list) /\ T!View(saved)' = T!View(saved)
      /\ page' = page /\ saved' = saved
  BY DEF T!Arrives, T!View
<1>5. CASE page \in T!Reloading
  <2>1. loads[i].list[r] = saved[r] \/ SavedDue(r)
    BY <1>2, <1>5 DEF RowInv, ReloadRow
  <2>2. SavedDue(r)' => Due(r)'
    BY DEF SavedDue, Due, Pending
  <2>3. loads[i].list[r] = saved[r] => shown'[r] = T!View(saved)'[r]
    BY <1>0, <1>4, ViewAt
  <2>4. QED
    BY <1>3, <1>4, <1>5, <2>1, <2>2, <2>3 DEF RowInv, ReloadRow, LastRead, T!Reloading
<1>6. CASE page \notin T!Reloading
  <2>1. loads[i].list[r] = saved[r]
    BY <1>2, <1>6 DEF RowInv, PatchRow
  <2>2. shown'[r] = saved'[r]
    BY <1>0, <1>4, <1>6, <2>1, ViewType DEF T!Reloading
  <2>3. \A j \in DOMAIN writes' : ~writes'[j].mine
    <3>1. writes' = [j \in 1..Len(writes) |-> [writes[j] EXCEPT !.mine = FALSE]]
      BY TablesParts DEF T!Arrives
    <3>2. \A w \in T!Write : [w EXCEPT !.mine = FALSE].mine = FALSE
      BY DEF T!Write
    <3>3. QED
      BY <3>1, <3>2, TablesParts
  <2>4. QED
    BY <1>3, <1>4, <1>6, <2>2, <2>3 DEF RowInv, PatchRow, LastRead, Holds, T!Reloading
<1>7. QED
  BY <1>5, <1>6

LEMMA ListsStep ==
  ASSUME T!TypeOK, NEW i \in DOMAIN loads, T!ReadList(i) \/ T!Arrives(i) \/ T!ListLost(i),
         TableInv, NEW r \in Rows \ stale'
  PROVE  RowInv(r)'
<1>1. r \notin stale /\ RowInv(r)
  <2>1. stale \subseteq stale'
    BY DEF T!TypeOK, T!ReadList, T!Arrives, T!ListLost, T!Overtaken
  <2>2. QED
    BY <2>1 DEF TableInv
<1>2. CASE T!ReadList(i)
  <2>0. loads \in Seq(Load) /\ i \in 1..Len(loads) /\ Len(loads) \in Nat
    BY TablesParts
  <2>1. PICK l : l = [read |-> TRUE, list |-> saved]
    OBVIOUS
  <2>2. /\ loads' = [loads EXCEPT ![i] = l] /\ l.list = saved
        /\ UNCHANGED <<page, saved, shown, inactiveToo, listed, writes>>
    BY <1>2, <2>1 DEF T!ReadList, T!view
  <2>3. l \in Load
    BY <2>1, TablesParts DEF Load, T!Table
  <2>4. loads' \in Seq(Load) /\ Len(loads') = Len(loads)
    BY <2>0, <2>2, <2>3, ExceptSeq
  <2>5. loads' # <<>> /\ loads # <<>>
    BY <2>0, <2>4, EmptySeq
  <2>6. \/ loads'[Len(loads')] = loads[Len(loads)]
        \/ loads'[Len(loads')].list = saved
    BY <2>0, <2>2, <2>4
  <2>7. CASE page \in T!Reloading
    BY <1>1, <2>2, <2>5, <2>6, <2>7 DEF RowInv, ReloadRow, LastRead, SavedDue, T!Reloading
  <2>8. CASE page \notin T!Reloading
    BY <1>1, <2>2, <2>5, <2>6, <2>8 DEF RowInv, PatchRow, LastRead, T!Reloading
  <2>9. QED
    BY <2>7, <2>8
<1>3. ASSUME T!Arrives(i) PROVE SavedDue(r) => SavedDue(r)'
  <2>1. writes' = [j \in 1..Len(writes) |-> [writes[j] EXCEPT !.mine = FALSE]]
    BY <1>3, TablesParts DEF T!Arrives
  <2>2. \A j \in 1..Len(writes) :
          j \in DOMAIN writes' /\ writes'[j].row = writes[j].row /\ writes'[j].step = writes[j].step
    BY <2>1, TablesParts, LetGo
  <2>3. QED
    BY <2>2, TablesParts DEF SavedDue
<1>4. CASE T!Arrives(i) /\ Len(loads) = 1
  BY <1>1, <1>3, <1>4, ListComes
<1>5. CASE T!Arrives(i) /\ Len(loads) # 1
  <2>1. loads' = T!RemoveAt(loads, i) /\ T!Overtaken(i) /\ page' = page /\ saved' = saved
    BY <1>5 DEF T!Arrives
  <2>2. QED
    BY <1>1, <1>3, <1>5, <2>1, ListGone
<1>6. CASE T!ListLost(i)
  <2>1. /\ loads' = T!RemoveAt(loads, i) /\ T!Overtaken(i) /\ page' = page /\ saved' = saved
        /\ SavedDue(r) => SavedDue(r)'
    BY <1>6 DEF T!ListLost, SavedDue
  <2>2. QED
    BY <1>1, <2>1, ListGone
<1>7. QED
  BY <1>2, <1>4, <1>5, <1>6

----------------------------------------------------------------------------
(* The tables: pages that load the list again                              *)

\* The lists stay, and no change to the row goes that was to bring it up to date.
LEMMA ReloadKept ==
  ASSUME NEW r, page \in T!Reloading, RowInv(r),
         UNCHANGED <<page, inactiveToo, listed, loads>>,
         (saved'[r] = saved[r] /\ (SavedDue(r) => SavedDue(r)')) \/ SavedDue(r)',
         loads = <<>> => \/ shown'[r] = shown[r] /\ T!View(saved)'[r] = T!View(saved)[r]
                            /\ (Due(r) => Due(r)')
                         \/ Due(r)'
  PROVE  RowInv(r)'
BY DEF RowInv, ReloadRow, LastRead, T!Reloading

LEMMA ViewKept ==
  ASSUME T!TypeOK, T!TypeOK', NEW r \in Rows, saved'[r] = saved[r],
         UNCHANGED <<page, inactiveToo>>
  PROVE  T!View(saved)'[r] = T!View(saved)[r]
<1>1. saved \in [Rows -> T!Row] /\ saved' \in [Rows -> T!Row]
  BY DEF T!TypeOK, T!Table
<1>2. T!View(saved)' = T!View(saved')
  BY DEF T!View
<1>3. QED
  BY <1>1, <1>2, ViewAt

LEMMA ReloadRowStep ==
  ASSUME T!TypeOK, T!TypeOK', TableInv, page \in T!Reloading, Kinds, NEW r \in Rows \ stale'
  PROVE  RowInv(r)'
<1> USE TablesParts
<1>a. SavedDue(r)' => Due(r)'
  BY DEF SavedDue, Due, Pending
<1>b. ASSUME UNCHANGED <<page, saved, shown, inactiveToo, listed, loads>>, RowInv(r),
             SavedDue(r) => SavedDue(r)', loads = <<>> => (Due(r) => Due(r)')
      PROVE  RowInv(r)'
  <2>1. T!View(saved)'[r] = T!View(saved)[r]
    BY <1>b, ViewKept
  <2>2. QED
    BY <1>b, <2>1, ReloadKept
<1>c. r \notin stale => RowInv(r)
  BY DEF TableInv
<1>d. ASSUME ~T!NoneToRead, loads' = loads PROVE RowInv(r)'
  BY <1>d, NoneRead, ToBeRead
<1>1. ASSUME NEW i \in DOMAIN loads, T!ReadList(i) \/ T!Arrives(i) \/ T!ListLost(i)
      PROVE  RowInv(r)'
  BY <1>1, ListsStep
<1>2. ASSUME NEW i \in DOMAIN writes, T!SaveChange(i) PROVE RowInv(r)'
  <2>1. /\ r \notin stale /\ saved' = T!Applied(writes[i])
        /\ writes' = [writes EXCEPT ![i] = [writes[i] EXCEPT !.step = "saved"]]
        /\ UNCHANGED <<page, shown, inactiveToo, listed, loads>>
    BY <1>2 DEF T!SaveChange, T!Stale, T!view
  <2>2. /\ \A j \in DOMAIN writes : j \in DOMAIN writes' /\ writes'[j].row = writes[j].row
        /\ writes'[i].step = "saved"
        /\ \A j \in DOMAIN writes : j # i => writes'[j] = writes[j]
    BY <2>1, Advanced
  <2>3. (SavedDue(r) => SavedDue(r)') /\ (writes[i].row = r => SavedDue(r)')
    BY <2>2 DEF SavedDue
  <2>4. Due(r) => Due(r)'
    BY <2>1, <2>2 DEF Due, Pending
  <2>5. CASE writes[i].row = r
    BY <1>a, <1>c, <2>1, <2>3, <2>5, ReloadKept
  <2>6. CASE writes[i].row # r
    <3>1. saved'[r] = saved[r]
      BY <2>1, <2>6, AppliedParts
    <3>2. T!View(saved)'[r] = T!View(saved)[r]
      BY <2>1, <3>1, ViewKept
    <3>3. QED
      BY <1>c, <2>1, <2>3, <2>4, <3>1, <3>2, ReloadKept
  <2>7. QED
    BY <2>5, <2>6
<1>3. ASSUME NEW q \in Rows, T!ChangedElsewhere(q) PROVE RowInv(r)'
  <2>1. r \notin stale /\ UNCHANGED <<page, shown, inactiveToo, listed, loads, writes>>
    BY <1>3 DEF T!ChangedElsewhere, T!Stale, T!view
  <2>2. CASE ~T!NoneToRead
    BY <1>d, <2>1, <2>2
  <2>3. CASE T!NoneToRead
    <3>1. r # q
      BY <1>3, <2>3 DEF T!ChangedElsewhere, T!Stale
    <3>2. saved'[r] = saved[r]
      BY <1>3, <3>1 DEF T!ChangedElsewhere
    <3>3. T!View(saved)'[r] = T!View(saved)[r]
      BY <2>1, <3>2, ViewKept
    <3>4. (SavedDue(r) => SavedDue(r)') /\ (Due(r) => Due(r)')
      BY <2>1 DEF SavedDue, Due, Pending
    <3>5. QED
      BY <1>c, <2>1, <3>2, <3>3, <3>4, ReloadKept
  <2>4. QED
    BY <2>2, <2>3
<1>4. ASSUME NEW i \in DOMAIN writes, T!Refused(i) PROVE RowInv(r)'
  <2>1. /\ r \notin stale /\ writes' = T!RemoveAt(writes, i) /\ writes[i].step = "sent"
        /\ UNCHANGED <<page, saved, shown, inactiveToo, listed, loads>>
        /\ loads = <<>> /\ writes[i].row = r => ~T!ShownFirst(writes[i])
    BY <1>4 DEF T!Refused, T!Stale, T!view
  <2>2. loads = <<>> => writes[i].row # r \/ ~Pending(writes[i])
    BY <2>1 DEF T!ShownFirst, Pending
  <2>3. (SavedDue(r) => SavedDue(r)') /\ (loads = <<>> => (Due(r) => Due(r)'))
    BY <2>1, <2>2, DueLeft
  <2>4. QED
    BY <1>b, <1>c, <2>1, <2>3
<1>5. ASSUME NEW i \in DOMAIN writes, T!AnswerLost(i) PROVE RowInv(r)'
  <2>1. /\ r \notin stale /\ writes' = T!RemoveAt(writes, i)
        /\ UNCHANGED <<page, saved, shown, inactiveToo, listed, loads>>
        /\ T!NoneToRead => writes[i].row # r
    BY <1>5 DEF T!AnswerLost, T!Stale, T!view
  <2>2. CASE ~T!NoneToRead
    BY <1>d, <2>1, <2>2
  <2>3. CASE T!NoneToRead
    <3>1. (SavedDue(r) => SavedDue(r)') /\ (Due(r) => Due(r)')
      BY <2>1, <2>3, DueLeft
    <3>2. QED
      BY <1>b, <1>c, <2>1, <3>1
  <2>4. QED
    BY <2>2, <2>3
<1>6. ASSUME NEW i \in DOMAIN writes, T!EmailFree(i) PROVE RowInv(r)'
  <2>1. /\ writes[i].step = "checking" /\ stale' = stale
        /\ writes' = [writes EXCEPT ![i] = [writes[i] EXCEPT !.step = "sent", !.mine = FALSE]]
        /\ UNCHANGED <<page, saved, inactiveToo, listed, loads>>
        /\ r # writes[i].row => shown'[r] = shown[r]
    BY <1>6 DEF T!EmailFree
  <2>2. page = "users" /\ writes[i].op = "rename" /\ r \notin stale
    BY <2>1 DEF TableInv, ReloadInv
  <2>3. PICK w : w = [writes[i] EXCEPT !.step = "sent", !.mine = FALSE]
    OBVIOUS
  <2>4. w.row = writes[i].row /\ w.op = "rename" /\ w.step = "sent"
    BY <2>2, <2>3 DEF T!Write
  <2>5. /\ \A j \in DOMAIN writes : j \in DOMAIN writes' /\ (j # i => writes'[j] = writes[j])
        /\ writes'[i] = w
    BY <2>1, <2>3
  <2>6. SavedDue(r) => SavedDue(r)'
    BY <2>1, <2>5 DEF SavedDue
  <2>7. (Due(r) => Due(r)') /\ (writes[i].row = r => Due(r)')
    BY <2>1, <2>2, <2>4, <2>5 DEF Due, Pending
  <2>8. T!View(saved)'[r] = T!View(saved)[r]
    BY <2>1, ViewKept
  <2>9. QED
    BY <1>c, <2>1, <2>2, <2>6, <2>7, <2>8, ReloadKept
<1>7. ASSUME NEW i \in DOMAIN writes, T!EmailTaken(i) PROVE RowInv(r)'
  <2>1. /\ writes' = T!RemoveAt(writes, i) /\ writes[i].step = "checking" /\ stale' = stale
        /\ UNCHANGED <<page, saved, shown, inactiveToo, listed, loads>>
    BY <1>7 DEF T!EmailTaken, T!view
  <2>2. (SavedDue(r) => SavedDue(r)') /\ (Due(r) => Due(r)')
    BY <2>1, DueLeft DEF Pending
  <2>3. QED
    BY <1>b, <1>c, <2>1, <2>2
<1>8. ASSUME NEW i \in DOMAIN writes, Reloaded(i) PROVE RowInv(r)'
  BY <1>8, AskedAgain DEF Reloaded
<1>9. ASSUME NEW i \in DOMAIN writes, RowPatched(i) \/ T!IntegrationRemoved(i) PROVE RowInv(r)'
  BY <1>9 DEF RowPatched, T!IntegrationRemoved, T!Answered, T!Reloading
<1>10. ASSUME NEW w, Sent(w) PROVE RowInv(r)'
  <2>1. /\ w \in T!Write /\ T!Send(w) /\ stale' = stale
        /\ UNCHANGED <<page, saved, inactiveToo, listed, loads>>
        /\ shown'[r] = shown[r] \/ (w.row = r /\ Pending(w))
    BY <1>10 DEF Sent, T!Send, T!Stale
  <2>2. /\ (SavedDue(r) => SavedDue(r)') /\ (Due(r) => Due(r)')
        /\ w.row = r /\ Pending(w) => Due(r)'
    BY <2>1, DueLonger
  <2>3. T!View(saved)'[r] = T!View(saved)[r]
    BY <2>1, ViewKept
  <2>4. QED
    BY <1>c, <2>1, <2>2, <2>3, ReloadKept
<1>11. ASSUME NEW w, Asked(w) PROVE RowInv(r)'
  <2>1. /\ UNCHANGED <<page, saved, shown, inactiveToo, listed, loads, writes, stale>>
        /\ (SavedDue(r) => SavedDue(r)') /\ (Due(r) => Due(r)')
    BY <1>11 DEF Asked, SavedDue, Due, Pending
  <2>2. QED
    BY <1>b, <1>c, <2>1
<1>12. CASE Dismissed
  <2>1. /\ UNCHANGED <<page, saved, shown, inactiveToo, listed, loads, writes, stale>>
        /\ (SavedDue(r) => SavedDue(r)') /\ (Due(r) => Due(r)')
    BY <1>12 DEF Dismissed, SavedDue, Due, Pending
  <2>2. QED
    BY <1>b, <1>c, <2>1
<1>13. CASE Refreshed
  BY <1>13, AskedAgain DEF Refreshed
<1>14. QED
  BY <1>1, <1>2, <1>3, <1>4, <1>5, <1>6, <1>7, <1>8, <1>9, <1>10, <1>11, <1>12, <1>13 DEF Kinds

\* An address is checked on the page of users alone.
LEMMA ReloadStep ==
  ASSUME T!TypeOK, TableInv, page \in T!Reloading, Kinds, page' = page
  PROVE  ReloadInv'
<1> USE TablesParts
<1>0. ReloadInv
  BY DEF TableInv
<1>1. ASSUME \A j \in DOMAIN writes' : \/ writes'[j].step # "checking"
                                       \/ \E k \in DOMAIN writes : writes'[j] = writes[k]
                                       \/ page = "users" /\ writes'[j].op = "rename"
      PROVE  ReloadInv'
  BY <1>0, <1>1 DEF ReloadInv
<1>2. ASSUME NEW i \in DOMAIN writes, writes' = T!RemoveAt(writes, i) PROVE ReloadInv'
  BY <1>1, <1>2, WritesLeft
<1>3. ASSUME writes' = writes PROVE ReloadInv'
  BY <1>1, <1>3
<1>4. ASSUME NEW i \in DOMAIN loads, T!Arrives(i) PROVE ReloadInv'
  <2>1. writes' = [j \in 1..Len(writes) |-> [writes[j] EXCEPT !.mine = FALSE]]
    BY <1>4 DEF T!Arrives
  <2>2. \A j \in DOMAIN writes' : j \in DOMAIN writes /\ writes'[j].op = writes[j].op
                                  /\ writes'[j].step = writes[j].step
    BY <2>1, LetGo
  <2>3. QED
    BY <1>0, <2>2 DEF ReloadInv
<1>5. ASSUME NEW i \in DOMAIN writes, T!SaveChange(i) \/ T!EmailFree(i) PROVE ReloadInv'
  <2>1. PICK w : writes' = [writes EXCEPT ![i] = w] /\ w.step # "checking"
    <3>1. CASE T!SaveChange(i)
      BY <3>1, Advanced DEF T!SaveChange
    <3>2. CASE T!EmailFree(i)
      <4>1. PICK w : w = [writes[i] EXCEPT !.step = "sent", !.mine = FALSE]
        OBVIOUS
      <4>2. w.step = "sent" /\ writes' = [writes EXCEPT ![i] = w]
        BY <3>2, <4>1 DEF T!EmailFree, T!Write
      <4>3. QED
        BY <4>2
    <3>3. QED
      BY <1>5, <3>1, <3>2
  <2>2. QED
    BY <1>1, <2>1
<1>6. ASSUME NEW w, Sent(w) PROVE ReloadInv'
  BY <1>1, <1>6, DueLonger DEF Sent
<1>7. QED
  BY <1>2, <1>3, <1>4, <1>5, <1>6 DEF Kinds, T!ReadList, T!ListLost, T!Refused, T!AnswerLost,
     T!EmailTaken, Reloaded, RowPatched, T!IntegrationRemoved, T!Answered, T!ChangedElsewhere,
     Asked, Dismissed, Refreshed

----------------------------------------------------------------------------
(* The tables: pages that change the row they hold                         *)

\* The lists and the row stay, and no answer goes that was to set the row.
LEMMA PatchKept ==
  ASSUME NEW r, page \notin T!Reloading, RowInv(r),
         UNCHANGED <<page, listed, loads>>, saved'[r] = saved[r],
         loads = <<>> /\ listed =>
           /\ shown'[r] = shown[r] /\ (SetDue(r) => SetDue(r)')
           /\ \A j \in DOMAIN writes' :
                Holds(writes'[j], r) => \E k \in DOMAIN writes : writes'[j] = writes[k]
  PROVE  RowInv(r)'
<1>1. PatchRow(r)
  BY DEF RowInv
<1>2. LastRead' => LastRead /\ loads'[Len(loads')].list[r] = loads[Len(loads)].list[r]
  BY DEF LastRead
<1>3. ASSUME loads' = <<>>, listed'
      PROVE  /\ page' # "integrations" => shown'[r].name = saved'[r].name
             /\ \A i, j \in DOMAIN writes' :
                  Holds(writes'[i], r) /\ Holds(writes'[j], r) => writes'[i].to = writes'[j].to
             /\ \A i \in DOMAIN writes' :
                  Holds(writes'[i], r) /\ writes'[i].step = "saved"
                    => saved'[r].on = writes'[i].to.on
             /\ shown'[r] = saved'[r] \/ SetDue(r)'
  <2>1. /\ page # "integrations" => shown[r].name = saved[r].name
        /\ \A i, j \in DOMAIN writes :
             Holds(writes[i], r) /\ Holds(writes[j], r) => writes[i].to = writes[j].to
        /\ \A i \in DOMAIN writes :
             Holds(writes[i], r) /\ writes[i].step = "saved" => saved[r].on = writes[i].to.on
        /\ shown[r] = saved[r] \/ SetDue(r)
    BY <1>1, <1>3 DEF PatchRow
  <2>2. /\ shown'[r] = shown[r] /\ (SetDue(r) => SetDue(r)')
        /\ \A j \in DOMAIN writes' :
             Holds(writes'[j], r) => \E k \in DOMAIN writes : writes'[j] = writes[k]
    BY <1>3
  <2>3. ASSUME NEW i \in DOMAIN writes', NEW j \in DOMAIN writes',
               Holds(writes'[i], r), Holds(writes'[j], r)
        PROVE  writes'[i].to = writes'[j].to
    <3>1. PICK k \in DOMAIN writes, l \in DOMAIN writes :
            writes'[i] = writes[k] /\ writes'[j] = writes[l]
      BY <2>2, <2>3
    <3>2. QED
      BY <2>1, <2>3, <3>1
  <2>4. ASSUME NEW i \in DOMAIN writes', Holds(writes'[i], r), writes'[i].step = "saved"
        PROVE  saved'[r].on = writes'[i].to.on
    <3>1. PICK k \in DOMAIN writes : writes'[i] = writes[k]
      BY <2>2, <2>4
    <3>2. QED
      BY <2>1, <2>4, <3>1
  <2>5. QED
    BY <2>1, <2>2, <2>3, <2>4
<1>4. QED
  BY <1>1, <1>2, <1>3 DEF RowInv, PatchRow, Holds, LastRead, T!Reloading

\* A change to the row is saved while the page has no list under way.
LEMMA PatchSaved ==
  ASSUME T!TypeOK, TableInv, page \notin T!Reloading, NEW i \in DOMAIN writes,
         T!SaveChange(i), NEW r \in Rows \ stale', writes[i].row = r, T!NoneToRead
  PROVE  RowInv(r)'
<1> USE TablesParts
<1>1. /\ r \notin stale /\ saved' = T!Applied(writes[i])
      /\ writes' = [writes EXCEPT ![i] = [writes[i] EXCEPT !.step = "saved"]]
      /\ UNCHANGED <<page, shown, inactiveToo, listed, loads>>
      /\ ~T!Missed(writes[i])
  BY DEF T!SaveChange, T!Stale, T!view
<1>2. /\ loads = <<>>
      /\ writes[i].op = "switch" => writes[i].mine /\ T!Turned(writes[i]) = writes[i].to.on
  <2>1. writes[i].mine \in BOOLEAN
    BY WriteParts
  <2>2. QED
    BY <1>1, <2>1 DEF T!Missed
<1>3. SUFFICES ASSUME listed
               PROVE  /\ page # "integrations" => shown[r].name = saved'[r].name
                      /\ \A k, j \in DOMAIN writes' :
                           Holds(writes'[k], r) /\ Holds(writes'[j], r)
                             => writes'[k].to = writes'[j].to
                      /\ \A j \in DOMAIN writes' :
                           Holds(writes'[j], r) /\ writes'[j].step = "saved"
                             => saved'[r].on = writes'[j].to.on
                      /\ shown[r] = saved'[r] \/ SetDue(r)'
  BY <1>1, <1>2 DEF RowInv, PatchRow, LastRead, Holds, T!Reloading
<1>4. /\ page # "integrations" => shown[r].name = saved[r].name
      /\ \A k, j \in DOMAIN writes :
           Holds(writes[k], r) /\ Holds(writes[j], r) => writes[k].to = writes[j].to
      /\ shown[r] = saved[r] \/ SetDue(r)
      /\ \A j \in DOMAIN writes : Fits(writes[j])
  BY <1>1, <1>2, <1>3 DEF TableInv, RowInv, PatchRow, PatchInv
<1>5. /\ \A j \in DOMAIN writes' :
           /\ j \in DOMAIN writes /\ writes'[j].row = writes[j].row
           /\ writes'[j].op = writes[j].op /\ writes'[j].to = writes[j].to
           /\ writes'[j].mine = writes[j].mine
      /\ \A j \in DOMAIN writes : j \in DOMAIN writes' /\ (j # i => writes'[j] = writes[j])
      /\ writes'[i].step = "saved" /\ i \in DOMAIN writes'
  <2>1. PICK w : w = [writes[i] EXCEPT !.step = "saved"]
    OBVIOUS
  <2>2. /\ w.op = writes[i].op /\ w.row = writes[i].row /\ w.to = writes[i].to
        /\ w.mine = writes[i].mine /\ w.step = "saved"
    BY <2>1, Advanced
  <2>3. /\ DOMAIN writes' = DOMAIN writes /\ writes'[i] = w
        /\ \A j \in DOMAIN writes : j # i => writes'[j] = writes[j]
    BY <1>1, <2>1
  <2>4. QED
    BY <2>2, <2>3
<1>6. \A j \in DOMAIN writes' : Holds(writes'[j], r) => Holds(writes[j], r)
  BY <1>5 DEF Holds
<1>7. CASE writes[i].op = "switch"
  <2>1. saved'[r].name = saved[r].name /\ saved'[r].on = writes[i].to.on
    BY <1>1, <1>2, <1>7, AppliedParts
  <2>2. Holds(writes[i], r)
    BY <1>2, <1>7 DEF Holds
  <2>3. \A j \in DOMAIN writes' : Holds(writes'[j], r) => writes'[j].to = writes[i].to
    BY <1>4, <1>5, <1>6, <2>2
  <2>4. SetDue(r)'
    <3>1. writes'[i].row = r /\ writes'[i].op = "switch" /\ writes'[i].mine
      BY <1>2, <1>5, <1>7
    <3>2. QED
      BY <1>5, <3>1 DEF SetDue, Holds
  <2>5. QED
    BY <1>4, <2>1, <2>3, <2>4
<1>8. CASE writes[i].op # "switch"
  <2>1. page = "integrations" /\ writes[i].op \in {"delete", "folder"}
    BY <1>4, <1>8 DEF Fits
  <2>2. \A j \in DOMAIN writes' : ~Holds(writes'[j], r)
    BY <1>4, <1>5, <2>1 DEF Fits, Holds
  <2>3. shown[r] = saved'[r] \/ SetDue(r)'
    <3>1. CASE writes[i].op = "delete"
      <4>1. writes'[i].row = r /\ writes'[i].op = "delete"
        BY <1>5, <3>1
      <4>2. QED
        BY <1>5, <4>1 DEF SetDue
    <3>2. CASE writes[i].op = "folder"
      <4>1. saved' = saved
        BY <1>1, <3>2, AppliedParts
      <4>2. ASSUME SetDue(r) PROVE SetDue(r)'
        <5>1. PICK j \in DOMAIN writes : /\ writes[j].row = r /\ writes[j].step = "saved"
                                         /\ writes[j].op = "delete" \/ Holds(writes[j], r)
          BY <4>2 DEF SetDue
        <5>2. j # i
          BY <3>2, <5>1 DEF Holds
        <5>3. j \in DOMAIN writes' /\ writes'[j] = writes[j]
          BY <1>5, <5>2
        <5>4. QED
          BY <5>1, <5>3 DEF SetDue, Holds
      <4>3. QED
        BY <1>4, <4>1, <4>2
    <3>3. QED
      BY <2>1, <3>1, <3>2
  <2>4. QED
    BY <2>1, <2>2, <2>3
<1>9. QED
  BY <1>7, <1>8

LEMMA SameRow ==
  ASSUME NEW q \in T!Row, NEW p \in T!Row, q.name = p.name, q.on = p.on
  PROVE  q = p
<1>1. q = [name |-> q.name, on |-> q.on] /\ p = [name |-> p.name, on |-> p.on]
  BY RowParts
<1>2. QED
  BY <1>1, Zenon

\* An answer sets the row to what is saved.
LEMMA PatchSet ==
  ASSUME T!TypeOK, TableInv, page \notin T!Reloading, NEW i \in DOMAIN writes,
         RowPatched(i), NEW r \in Rows \ stale', writes[i].row = r
  PROVE  RowInv(r)'
<1> USE TablesParts
<1>1. /\ r \notin stale /\ writes' = T!RemoveAt(writes, i) /\ writes[i].step = "saved"
      /\ UNCHANGED <<page, saved, listed, loads>>
      /\ page \in {"tenants", "books"}
      /\ shown' = IF writes[i].mine THEN [shown EXCEPT ![r].on = writes[i].to.on] ELSE shown
  BY DEF RowPatched, T!Patched
<1>2. \A j \in DOMAIN writes' : \E k \in DOMAIN writes : writes'[j] = writes[k]
  BY <1>1, DueLeft
<1>3. Fits(writes[i]) /\ RowInv(r)
  BY <1>1 DEF TableInv, PatchInv
<1>4. writes[i].op = "switch" /\ writes[i].mine \in BOOLEAN /\ writes[i].to \in T!Row
  BY <1>1, <1>3, WriteParts DEF Fits
<1>5. CASE ~writes[i].mine
  <2>1. ASSUME SetDue(r) PROVE SetDue(r)'
    <3>1. PICK j \in DOMAIN writes : /\ writes[j].row = r /\ writes[j].step = "saved"
                                     /\ writes[j].op = "delete" \/ Holds(writes[j], r)
      BY <2>1 DEF SetDue
    <3>2. j # i
      BY <1>4, <1>5, <3>1 DEF Holds
    <3>3. PICK k \in DOMAIN writes' : writes'[k] = writes[j]
      BY <1>1, <3>2, WritesLeft
    <3>4. QED
      BY <3>1, <3>3 DEF SetDue, Holds
  <2>2. shown' = shown
    BY <1>1, <1>5
  <2>3. QED
    BY <1>1, <1>2, <1>3, <2>1, <2>2, PatchKept
<1>6. CASE writes[i].mine
  <2>1. Holds(writes[i], r)
    BY <1>4, <1>6 DEF Holds
  <2>2. ASSUME loads = <<>>, listed PROVE shown'[r] = saved[r]
    <3>1. shown[r].name = saved[r].name /\ saved[r].on = writes[i].to.on
      BY <1>1, <1>3, <2>1, <2>2 DEF RowInv, PatchRow
    <3>2. shown[r] \in T!Row /\ saved[r] \in T!Row
      OBVIOUS
    <3>3. shown'[r] = [shown[r] EXCEPT !.on = writes[i].to.on]
      BY <1>1, <1>6
    <3>4. shown'[r] \in T!Row /\ shown'[r].name = saved[r].name /\ shown'[r].on = saved[r].on
      <4>1. writes[i].to.on \in BOOLEAN
        BY <1>4, RowParts
      <4>2. \A b \in BOOLEAN : /\ [shown[r] EXCEPT !.on = b] \in T!Row
                               /\ [shown[r] EXCEPT !.on = b].name = shown[r].name
                               /\ [shown[r] EXCEPT !.on = b].on = b
        BY <3>2, RowParts
      <4>3. QED
        BY <3>1, <3>3, <4>1, <4>2
    <3>5. QED
      BY <3>2, <3>4, SameRow
  <2>3. LastRead => loads[Len(loads)].list[r] = saved[r]
    BY <1>3 DEF RowInv, PatchRow
  <2>4. ASSUME loads = <<>>, listed
        PROVE  /\ \A k, j \in DOMAIN writes' :
                    Holds(writes'[k], r) /\ Holds(writes'[j], r) => writes'[k].to = writes'[j].to
               /\ \A j \in DOMAIN writes' :
                    Holds(writes'[j], r) /\ writes'[j].step = "saved"
                      => saved[r].on = writes'[j].to.on
    <3>1. /\ \A k, j \in DOMAIN writes :
               Holds(writes[k], r) /\ Holds(writes[j], r) => writes[k].to = writes[j].to
          /\ \A j \in DOMAIN writes :
               Holds(writes[j], r) /\ writes[j].step = "saved" => saved[r].on = writes[j].to.on
      BY <1>3, <2>4 DEF RowInv, PatchRow
    <3>2. QED
      BY <1>2, <3>1
  <2>5. QED
    BY <1>1, <2>2, <2>3, <2>4 DEF RowInv, PatchRow, LastRead, Holds, T!Reloading
<1>7. QED
  BY <1>4, <1>5, <1>6

\* A change is sent: it asks for what the others of its row ask for.
LEMMA PatchSent ==
  ASSUME T!TypeOK, TableInv, page \notin T!Reloading, NEW w, Sent(w),
         NEW r \in Rows \ stale'
  PROVE  RowInv(r)'
<1> USE TablesParts
<1>1. /\ w \in T!Write /\ T!Send(w) /\ w.step = "sent" /\ r \notin stale
      /\ UNCHANGED <<page, saved, shown, inactiveToo, listed, loads>>
      /\ w.row = r => \A k \in DOMAIN writes : writes[k].row = r => writes[k].to = w.to
  <2>1. w \in T!Write /\ T!Send(w) /\ Fits(w) /\ w.step # "saved"
    BY DEF Sent
  <2>2. UNCHANGED <<page, saved, shown, inactiveToo, listed, loads>>
    BY DEF Sent, T!Reloading
  <2>3. /\ r \notin stale
        /\ w.row = r => \A k \in DOMAIN writes : writes[k].row = r => writes[k].to = w.to
    BY <2>1 DEF T!Send, T!Stale
  <2>4. w.step = "sent"
    BY <2>1, WriteParts DEF Fits
  <2>5. QED
    BY <2>1, <2>2, <2>3, <2>4
<1>2. /\ SetDue(r) => SetDue(r)'
      /\ \A j \in DOMAIN writes' : writes'[j] = w \/ \E k \in DOMAIN writes : writes'[j] = writes[k]
  BY <1>1, DueLonger
<1>3. RowInv(r)
  BY <1>1 DEF TableInv
<1>4. CASE w.row # r
  <2>1. \A j \in DOMAIN writes' :
          Holds(writes'[j], r) => \E k \in DOMAIN writes : writes'[j] = writes[k]
    BY <1>2, <1>4 DEF Holds
  <2>2. QED
    BY <1>1, <1>2, <1>3, <2>1, PatchKept
<1>5. CASE w.row = r
  <2>1. ASSUME loads = <<>>, listed
        PROVE  /\ page # "integrations" => shown[r].name = saved[r].name
               /\ \A k, j \in DOMAIN writes' :
                    Holds(writes'[k], r) /\ Holds(writes'[j], r) => writes'[k].to = writes'[j].to
               /\ \A j \in DOMAIN writes' :
                    Holds(writes'[j], r) /\ writes'[j].step = "saved"
                      => saved[r].on = writes'[j].to.on
               /\ shown[r] = saved[r] \/ SetDue(r)'
    <3>1. /\ page # "integrations" => shown[r].name = saved[r].name
          /\ \A k, j \in DOMAIN writes :
               Holds(writes[k], r) /\ Holds(writes[j], r) => writes[k].to = writes[j].to
          /\ \A j \in DOMAIN writes :
               Holds(writes[j], r) /\ writes[j].step = "saved" => saved[r].on = writes[j].to.on
          /\ shown[r] = saved[r] \/ SetDue(r)
      BY <1>3, <2>1 DEF RowInv, PatchRow
    <3>2. \A k \in DOMAIN writes : Holds(writes[k], r) => writes[k].to = w.to
      BY <1>1, <1>5 DEF Holds
    <3>3. ASSUME NEW k \in DOMAIN writes', NEW j \in DOMAIN writes',
                 Holds(writes'[k], r), Holds(writes'[j], r)
          PROVE  writes'[k].to = writes'[j].to
      BY <1>2, <3>1, <3>2, <3>3
    <3>4. ASSUME NEW j \in DOMAIN writes', Holds(writes'[j], r), writes'[j].step = "saved"
          PROVE  saved[r].on = writes'[j].to.on
      BY <1>1, <1>2, <3>1, <3>4
    <3>5. QED
      BY <1>2, <3>1, <3>3, <3>4
  <2>2. LastRead => loads[Len(loads)].list[r] = saved[r]
    BY <1>3 DEF RowInv, PatchRow
  <2>3. QED
    BY <1>1, <2>1, <2>2 DEF RowInv, PatchRow, LastRead, Holds, T!Reloading
<1>6. QED
  BY <1>4, <1>5

LEMMA PatchRowStep ==
  ASSUME T!TypeOK, TableInv, page \notin T!Reloading, Kinds, NEW r \in Rows \ stale'
  PROVE  RowInv(r)'
<1> USE TablesParts
<1>c. /\ r \notin stale => RowInv(r)
      /\ \A j \in DOMAIN writes : Fits(writes[j])
  BY DEF TableInv, PatchInv
<1>d. ASSUME ~T!NoneToRead, loads' = loads PROVE RowInv(r)'
  BY <1>d, NoneRead, ToBeRead
<1>1. ASSUME NEW i \in DOMAIN loads, T!ReadList(i) \/ T!Arrives(i) \/ T!ListLost(i)
      PROVE  RowInv(r)'
  BY <1>1, ListsStep
<1>2. ASSUME NEW i \in DOMAIN writes, T!SaveChange(i) PROVE RowInv(r)'
  <2>1. /\ r \notin stale /\ saved' = T!Applied(writes[i])
        /\ writes' = [writes EXCEPT ![i] = [writes[i] EXCEPT !.step = "saved"]]
        /\ UNCHANGED <<page, shown, inactiveToo, listed, loads>>
    BY <1>2 DEF T!SaveChange, T!Stale, T!view
  <2>2. CASE ~T!NoneToRead
    BY <1>d, <2>1, <2>2
  <2>3. CASE T!NoneToRead /\ writes[i].row = r
    BY <1>2, <2>3, PatchSaved
  <2>4. CASE writes[i].row # r
    <3>1. saved'[r] = saved[r]
      BY <2>1, <2>4, AppliedParts
    <3>2. /\ \A j \in DOMAIN writes : j # i => j \in DOMAIN writes' /\ writes'[j] = writes[j]
          /\ \A j \in DOMAIN writes' : j \in DOMAIN writes /\ (j # i => writes'[j] = writes[j])
          /\ i \in DOMAIN writes' => writes'[i].row # r
      BY <2>1, <2>4, Advanced
    <3>3. SetDue(r) => SetDue(r)'
      <4>1. SUFFICES ASSUME SetDue(r) PROVE SetDue(r)'
        OBVIOUS
      <4>2. PICK j \in DOMAIN writes : /\ writes[j].row = r /\ writes[j].step = "saved"
                                       /\ writes[j].op = "delete" \/ Holds(writes[j], r)
        BY <4>1 DEF SetDue
      <4>3. j \in DOMAIN writes' /\ writes'[j] = writes[j]
        BY <2>4, <3>2, <4>2
      <4>4. QED
        BY <4>2, <4>3 DEF SetDue, Holds
    <3>4. \A j \in DOMAIN writes' :
            Holds(writes'[j], r) => \E k \in DOMAIN writes : writes'[j] = writes[k]
      BY <3>2 DEF Holds
    <3>5. QED
      BY <1>c, <2>1, <3>1, <3>3, <3>4, PatchKept
  <2>5. QED
    BY <2>2, <2>3, <2>4
<1>3. ASSUME NEW q \in Rows, T!ChangedElsewhere(q) PROVE RowInv(r)'
  <2>1. r \notin stale /\ UNCHANGED <<page, shown, inactiveToo, listed, loads, writes>>
    BY <1>3 DEF T!ChangedElsewhere, T!Stale, T!view
  <2>2. CASE ~T!NoneToRead
    BY <1>d, <2>1, <2>2
  <2>3. CASE T!NoneToRead
    <3>1. r # q
      BY <1>3, <2>3 DEF T!ChangedElsewhere, T!Stale
    <3>2. saved'[r] = saved[r]
      BY <1>3, <3>1 DEF T!ChangedElsewhere
    <3>3. /\ SetDue(r) => SetDue(r)'
          /\ \A j \in DOMAIN writes' : \E k \in DOMAIN writes : writes'[j] = writes[k]
      BY <2>1 DEF SetDue, Holds
    <3>4. QED
      BY <1>c, <2>1, <3>2, <3>3, PatchKept
  <2>4. QED
    BY <2>2, <2>3
<1>4. ASSUME NEW i \in DOMAIN writes, T!Refused(i) \/ T!EmailTaken(i) PROVE RowInv(r)'
  <2>1. /\ r \notin stale /\ writes' = T!RemoveAt(writes, i) /\ writes[i].step # "saved"
        /\ UNCHANGED <<page, saved, shown, inactiveToo, listed, loads>>
    BY <1>4 DEF T!Refused, T!EmailTaken, T!Stale, T!view
  <2>2. /\ SetDue(r) => SetDue(r)'
        /\ \A j \in DOMAIN writes' : \E k \in DOMAIN writes : writes'[j] = writes[k]
    BY <2>1, DueLeft
  <2>3. QED
    BY <1>c, <2>1, <2>2, PatchKept
<1>5. ASSUME NEW i \in DOMAIN writes, T!AnswerLost(i) PROVE RowInv(r)'
  <2>1. /\ r \notin stale /\ writes' = T!RemoveAt(writes, i)
        /\ UNCHANGED <<page, saved, shown, inactiveToo, listed, loads>>
        /\ T!NoneToRead => writes[i].row # r
    BY <1>5 DEF T!AnswerLost, T!Stale, T!view
  <2>2. CASE ~T!NoneToRead
    BY <1>d, <2>1, <2>2
  <2>3. CASE T!NoneToRead
    <3>1. /\ SetDue(r) => SetDue(r)'
          /\ \A j \in DOMAIN writes' : \E k \in DOMAIN writes : writes'[j] = writes[k]
      BY <2>1, <2>3, DueLeft
    <3>2. QED
      BY <1>c, <2>1, <3>1, PatchKept
  <2>4. QED
    BY <2>2, <2>3
<1>6. ASSUME NEW i \in DOMAIN writes, T!EmailFree(i) PROVE FALSE
  BY <1>c, <1>6 DEF T!EmailFree, Fits
<1>7. ASSUME NEW i \in DOMAIN writes, Reloaded(i) PROVE RowInv(r)'
  BY <1>7, AskedAgain DEF Reloaded
<1>8. ASSUME NEW i \in DOMAIN writes, RowPatched(i) PROVE RowInv(r)'
  <2>1. CASE writes[i].row = r
    BY <1>8, <2>1, PatchSet
  <2>2. CASE writes[i].row # r
    <3>1. /\ r \notin stale /\ writes' = T!RemoveAt(writes, i)
          /\ UNCHANGED <<page, saved, listed, loads>> /\ shown'[r] = shown[r]
      BY <1>8, <2>2 DEF RowPatched, T!Patched
    <3>2. /\ SetDue(r) => SetDue(r)'
          /\ \A j \in DOMAIN writes' : \E k \in DOMAIN writes : writes'[j] = writes[k]
      BY <2>2, <3>1, DueLeft
    <3>3. QED
      BY <1>c, <3>1, <3>2, PatchKept
  <2>3. QED
    BY <2>1, <2>2
<1>9. ASSUME NEW i \in DOMAIN writes, T!IntegrationRemoved(i) PROVE RowInv(r)'
  <2>1. /\ r \notin stale /\ writes' = T!RemoveAt(writes, i) /\ page = "integrations"
        /\ writes[i].step = "saved" /\ writes[i].op = "delete"
        /\ UNCHANGED <<page, saved, listed, loads>>
        /\ shown' = [shown EXCEPT ![writes[i].row] = T!Gone]
    BY <1>9 DEF T!IntegrationRemoved, T!Answered
  <2>2. \A j \in DOMAIN writes' : \E k \in DOMAIN writes : writes'[j] = writes[k]
    BY <2>1, DueLeft
  <2>3. CASE writes[i].row # r
    <3>1. shown'[r] = shown[r] /\ (SetDue(r) => SetDue(r)')
      BY <2>1, <2>3, DueLeft
    <3>2. QED
      BY <1>c, <2>1, <2>2, <3>1, PatchKept
  <2>4. CASE writes[i].row = r
    <3>1. shown'[r] = T!Gone /\ saved[r] = T!Gone
      BY <2>1, <2>4 DEF TableInv, PatchInv
    <3>2. \A j \in DOMAIN writes' : ~Holds(writes'[j], r)
      BY <1>c, <2>1, <2>2 DEF Fits, Holds
    <3>3. LastRead => loads[Len(loads)].list[r] = saved[r]
      BY <1>c, <2>1 DEF RowInv, PatchRow
    <3>4. QED
      BY <2>1, <3>1, <3>2, <3>3 DEF RowInv, PatchRow, LastRead, Holds, T!Reloading
  <2>5. QED
    BY <2>3, <2>4
<1>10. ASSUME NEW w, Sent(w) PROVE RowInv(r)'
  BY <1>10, PatchSent
<1>11. ASSUME UNCHANGED <<page, saved, shown, inactiveToo, listed, loads, writes, stale>>
       PROVE  RowInv(r)'
  <2>1. /\ SetDue(r) => SetDue(r)'
        /\ \A j \in DOMAIN writes' : \E k \in DOMAIN writes : writes'[j] = writes[k]
    BY <1>11 DEF SetDue, Holds
  <2>2. QED
    BY <1>c, <1>11, <2>1, PatchKept
<1>12. CASE Refreshed
  BY <1>12, AskedAgain DEF Refreshed
<1>13. QED
  BY <1>1, <1>2, <1>3, <1>4, <1>5, <1>6, <1>7, <1>8, <1>9, <1>10, <1>11, <1>12
  DEF Kinds, Asked, Dismissed

\* Such a page sends what it may, and what is deleted stays so.
LEMMA PatchStep ==
  ASSUME T!TypeOK, TableInv, page \notin T!Reloading, Kinds, page' = page
  PROVE  PatchInv'
<1> USE TablesParts
<1> DEFINE Stays(w) ==
      /\ Fits(w)
      /\ w.step = "saved" /\ w.op = "delete" => saved[w.row] = T!Gone
<1>0. /\ \A j \in DOMAIN writes : Stays(writes[j])
      /\ dialog # T!NoDialog => dialog \in T!Write /\ Fits(dialog)
  BY DEF TableInv, PatchInv, T!TypeOK
<1>1. ASSUME saved' = saved, dialog' \in {dialog, T!NoDialog},
             \A j \in DOMAIN writes' : Stays(writes'[j]) \/ \E k \in DOMAIN writes : writes'[j] = writes[k]
      PROVE  PatchInv'
  <2>1. \A j \in DOMAIN writes' : Stays(writes'[j])
    BY <1>0, <1>1
  <2>2. dialog' # T!NoDialog => Fits(dialog')
    BY <1>0, <1>1
  <2>3. QED
    BY <1>1, <2>1, <2>2 DEF PatchInv, Fits, T!NoDialog, T!Gone
<1>2. ASSUME NEW i \in DOMAIN writes, writes' = T!RemoveAt(writes, i), saved' = saved,
             dialog' \in {dialog, T!NoDialog}
      PROVE  PatchInv'
  BY <1>1, <1>2, WritesLeft
<1>3. ASSUME writes' = writes, saved' = saved, dialog' \in {dialog, T!NoDialog} PROVE PatchInv'
  BY <1>1, <1>3
<1>4. ASSUME NEW i \in DOMAIN loads, T!Arrives(i) PROVE PatchInv'
  <2>1. writes' = [j \in 1..Len(writes) |-> [writes[j] EXCEPT !.mine = FALSE]] /\ saved' = saved
    BY <1>4 DEF T!Arrives
  <2>2. \A j \in DOMAIN writes' :
          /\ j \in DOMAIN writes /\ writes'[j].op = writes[j].op
          /\ writes'[j].row = writes[j].row /\ writes'[j].step = writes[j].step
    BY <2>1, LetGo
  <2>3. dialog' # T!NoDialog => Fits(dialog')
    <3>1. \/ dialog' = dialog
          \/ dialog # T!NoDialog /\ dialog' = [dialog EXCEPT !.mine = FALSE]
      BY <1>4 DEF T!Arrives
    <3>2. dialog # T!NoDialog => /\ [dialog EXCEPT !.mine = FALSE].op = dialog.op
                                 /\ [dialog EXCEPT !.mine = FALSE].step = dialog.step
      BY <1>0, LetGo
    <3>3. QED
      BY <1>0, <3>1, <3>2 DEF Fits
  <2>4. QED
    BY <1>0, <2>1, <2>2, <2>3 DEF PatchInv, Fits, T!NoDialog, T!Gone
<1>5. ASSUME NEW i \in DOMAIN writes, T!SaveChange(i) PROVE PatchInv'
  <2>1. /\ saved' = T!Applied(writes[i]) /\ dialog' = dialog
        /\ writes' = [writes EXCEPT ![i] = [writes[i] EXCEPT !.step = "saved"]]
    BY <1>5 DEF T!SaveChange
  <2>2. \A j \in DOMAIN writes' :
          /\ j \in DOMAIN writes /\ writes'[j].op = writes[j].op
          /\ writes'[j].row = writes[j].row /\ (j # i => writes'[j] = writes[j])
    BY <2>1, Advanced
  <2>3. writes'[i].step = "saved"
    BY <2>1, Advanced
  <2>4. ASSUME NEW j \in DOMAIN writes', writes'[j].step = "saved", writes'[j].op = "delete"
        PROVE  saved'[writes'[j].row] = T!Gone
    <3>1. page = "integrations" /\ writes[i].op \in {"delete", "folder"}
      BY <1>0, <2>2, <2>4 DEF Fits
    <3>2. CASE writes[i].op = "folder"
      BY <1>0, <2>1, <2>2, <2>4, <3>2, AppliedParts
    <3>3. CASE writes[i].op = "delete" /\ writes'[j].row = writes[i].row
      BY <2>1, <3>3, AppliedParts
    <3>4. CASE writes[i].op = "delete" /\ writes'[j].row # writes[i].row
      <4>1. j # i /\ writes'[j] = writes[j] /\ writes[j].row \in Rows
        BY <2>2, <3>4, WriteParts
      <4>2. saved'[writes[j].row] = saved[writes[j].row]
        BY <2>1, <3>4, <4>1, AppliedParts
      <4>3. QED
        BY <1>0, <2>2, <2>4, <4>1, <4>2
    <3>5. QED
      BY <3>1, <3>2, <3>3, <3>4
  <2>5. \A j \in DOMAIN writes' : Fits(writes'[j])
    BY <1>0, <2>2, <2>3 DEF Fits
  <2>6. QED
    BY <1>0, <2>1, <2>4, <2>5 DEF PatchInv, Fits, T!NoDialog, T!Gone
<1>6. ASSUME NEW r \in Rows, T!ChangedElsewhere(r) PROVE PatchInv'
  <2>1. /\ saved[r] # T!Gone /\ (\A q \in Rows \ {r} : saved'[q] = saved[q])
        /\ writes' = writes /\ dialog' = dialog
    BY <1>6 DEF T!ChangedElsewhere
  <2>2. \A j \in DOMAIN writes : writes[j].row \in Rows
    BY WriteParts
  <2>3. QED
    BY <1>0, <2>1, <2>2 DEF PatchInv, Fits, T!NoDialog, T!Gone
<1>7. ASSUME NEW i \in DOMAIN writes, T!EmailFree(i) PROVE FALSE
  BY <1>0, <1>7 DEF T!EmailFree, Fits
<1>8. ASSUME NEW w, Sent(w) PROVE PatchInv'
  <2>1. /\ w \in T!Write /\ T!Send(w) /\ Stays(w) /\ saved' = saved
        /\ dialog' \in {dialog, T!NoDialog}
    BY <1>8 DEF Sent
  <2>2. \A j \in DOMAIN writes' : writes'[j] = w \/ \E k \in DOMAIN writes : writes'[j] = writes[k]
    BY <2>1, DueLonger
  <2>3. QED
    BY <1>1, <2>1, <2>2
<1>9. ASSUME NEW w, Asked(w) PROVE PatchInv'
  BY <1>0, <1>9 DEF Asked, PatchInv, Fits, T!NoDialog, T!Gone
<1>10. QED
  BY <1>2, <1>3, <1>4, <1>5, <1>6, <1>7, <1>8, <1>9 DEF Kinds, T!ReadList, T!ListLost,
     T!Refused, T!AnswerLost, T!EmailTaken, Reloaded, RowPatched, T!IntegrationRemoved,
     T!Answered, Dismissed, Refreshed

LEMMA TableInit == T!Init => TableInv
<1> SUFFICES ASSUME T!Init PROVE TableInv
  OBVIOUS
<1>1. /\ writes = <<>> /\ dialog = T!NoDialog /\ ~listed /\ page \in T!Pages
      /\ loads = <<>> \/ loads = <<T!Unread>>
  BY DEF T!Init
<1>2. \A i \in DOMAIN writes : FALSE
  BY <1>1
<1>3. ~LastRead
  <2>1. CASE loads = <<>>
    BY <2>1 DEF LastRead
  <2>2. CASE loads = <<T!Unread>>
    <3>1. Len(loads) = 1 /\ loads[1] = T!Unread
      BY <2>2
    <3>2. QED
      BY <3>1, GoneType DEF LastRead
  <2>3. QED
    BY <1>1, <2>1, <2>2
<1>4. \A r \in Rows : RowInv(r)
  BY <1>1, <1>3 DEF RowInv, ReloadRow, PatchRow
<1>5. ReloadInv /\ PatchInv
  BY <1>1, <1>2 DEF ReloadInv, PatchInv
<1>6. QED
  BY <1>1, <1>4, <1>5 DEF TableInv

\* The page stays, and a change waits to be confirmed before it is checked.
LEMMA TableFrame ==
  ASSUME T!TypeOK, TableInv, Kinds
  PROVE  page' = page /\ (dialog' # T!NoDialog => dialog'.step = "sent")
<1>1. dialog # T!NoDialog => dialog \in T!Write /\ dialog.step = "sent"
  BY DEF T!TypeOK, TableInv
<1>2. ASSUME page' = page, dialog' \in {dialog, T!NoDialog}
      PROVE  page' = page /\ (dialog' # T!NoDialog => dialog'.step = "sent")
  BY <1>1, <1>2
<1>3. ASSUME NEW i \in DOMAIN loads, T!Arrives(i)
      PROVE  page' = page /\ (dialog' # T!NoDialog => dialog'.step = "sent")
  <2>1. /\ page' = page /\ (dialog = T!NoDialog => dialog' = T!NoDialog)
        /\ dialog # T!NoDialog => dialog' = [dialog EXCEPT !.mine = FALSE]
    BY <1>3 DEF T!Arrives
  <2>2. dialog # T!NoDialog => [dialog EXCEPT !.mine = FALSE].step = "sent"
    BY <1>1, LetGo
  <2>3. QED
    BY <2>1, <2>2
<1>4. ASSUME NEW i \in DOMAIN loads, T!ReadList(i) \/ T!ListLost(i)
      PROVE  page' = page /\ dialog' = dialog
  BY <1>4 DEF T!ReadList, T!ListLost
<1>5. ASSUME NEW i \in DOMAIN writes,
             \/ T!SaveChange(i) \/ T!Refused(i) \/ T!AnswerLost(i)
             \/ T!EmailFree(i) \/ T!EmailTaken(i)
             \/ Reloaded(i) \/ RowPatched(i) \/ T!IntegrationRemoved(i)
      PROVE  page' = page /\ dialog' = dialog
  BY <1>5 DEF T!SaveChange, T!Refused, T!AnswerLost, T!EmailFree, T!EmailTaken, Reloaded,
              RowPatched, T!IntegrationRemoved, T!Answered
<1>c. ASSUME NEW r \in Rows, T!ChangedElsewhere(r) PROVE page' = page /\ dialog' = dialog
  BY <1>c DEF T!ChangedElsewhere
<1>6. ASSUME NEW w, Sent(w) \/ Asked(w)
      PROVE  page' = page /\ (dialog' # T!NoDialog => dialog'.step = "sent")
  BY <1>2, <1>6 DEF Sent, Asked
<1>7. CASE Dismissed \/ Refreshed
  BY <1>2, <1>7 DEF Dismissed, Refreshed
<1>8. QED
  BY <1>2, <1>3, <1>4, <1>5, <1>6, <1>7, <1>c DEF Kinds

LEMMA TableStep ==
  ASSUME T!TypeOK, TableInv, T!Next
  PROVE  T!TypeOK' /\ TableInv'
<1>1. Kinds
  BY StepKinds
<1>2. T!TypeOK'
  BY <1>1, TableTypeStep
<1>3. page' = page /\ (dialog' # T!NoDialog => dialog'.step = "sent")
  BY <1>1, TableFrame
<1>4. page \in T!Reloading => ReloadInv'
  BY <1>1, <1>3, ReloadStep
<1>5. page \notin T!Reloading => PatchInv'
  BY <1>1, <1>3, PatchStep
<1>6. \A r \in Rows \ stale' : RowInv(r)'
  BY <1>1, <1>2, ReloadRowStep, PatchRowStep
<1>7. QED
  BY <1>2, <1>3, <1>4, <1>5, <1>6 DEF TableInv, T!NoDialog, T!Reloading

----------------------------------------------------------------------------
(* The list of books                                                       *)

\* How many books the pages that came so far were cut out of.
Paged == (nextPage - 1) * PageSize

\* The books a list by title has up to b, and those it has for sure before b.
UpTo(b) == {c \in available : Title[c] <= Title[b]}
Before(b) == {c \in available : Title[c] < Title[b]}

\* A book that was there at first and has not come is still ahead: it stands
\* behind the pages that came, and additions only push it further back.
AheadInv ==
  ~history.removed =>
    /\ history.start \subseteq available
    /\ ~L!Tied =>
         \A b \in history.start \ L!ToSet(list) :
           asking # "loaded" /\ Paged < Cardinality(UpTo(b))

\* No book came twice; what is shown was made from what came; and as long as
\* nothing changed, what came stands before what is still to come.
ListInv ==
  /\ \A i, j \in DOMAIN list : list[i] = list[j] => i = j
  /\ filteredBooks \in {L!Shown(list, query), L!Filtered(list, query)}
  /\ ~history.added /\ ~history.removed =>
       /\ L!InTitleOrder(list)
       /\ \A b \in L!ToSet(list) : Cardinality(Before(b)) < Paged

\* The instance has definitions of its own for finite sets.
LEMMA SameCardinality == \A S : L!Cardinality(S) = Cardinality(S)
BY Zenon DEF L!Cardinality, Cardinality

LEMMA SameFinite == \A S : L!IsFiniteSet(S) <=> IsFiniteSet(S)
BY Zenon DEF L!IsFiniteSet, IsFiniteSet

LEMMA LibraryConstants ==
  /\ IsFiniteSet(Books) /\ Title \in [Books -> Nat \ {0}]
  /\ PageSize \in Nat \ {0}
BY PagesAssumption, SameFinite DEF L!LibraryAssumption

\* The titles of the books of a sequence are numbers.
LEMMA TitlesOf ==
  ASSUME NEW s \in Seq(Books)
  PROVE  /\ DOMAIN s = 1..Len(s) /\ Len(s) \in Nat
         /\ \A i \in DOMAIN s : i \in Nat /\ s[i] \in Books /\ Title[s[i]] \in Nat
<1>1. DOMAIN s = 1..Len(s) /\ Len(s) \in Nat /\ \A i \in 1..Len(s) : s[i] \in Books
  BY LenProperties, ElementOfSeq
<1>2. QED
  BY <1>1, LibraryConstants

\* Sorting is by a linear order, so each place it gives is taken once and none
\* is left out.
LEMMA Places ==
  ASSUME NEW s \in Seq(Books), NEW kept \in SUBSET (DOMAIN s)
  PROVE  /\ IsFiniteSet(kept) /\ Cardinality(kept) \in Nat
         /\ \A i \in kept : L!Place(s, kept, i) \in 1..Cardinality(kept)
         /\ \A i, j \in kept : i # j /\ L!SortedBefore(s, i, j) =>
              L!Place(s, kept, i) < L!Place(s, kept, j)
         /\ \A i, j \in kept : L!SortedBefore(s, i, j) \/ L!SortedBefore(s, j, i)
         /\ \A k \in 1..Cardinality(kept) : \E i \in kept : L!Place(s, kept, i) = k
<1> DEFINE n == Cardinality(kept)
           P(i) == {j \in kept : L!SortedBefore(s, j, i)}
           place == [i \in kept |-> L!Place(s, kept, i)]
<1>1. IsFiniteSet(kept) /\ n \in Nat
  <2>1. DOMAIN s = 1..Len(s) /\ Len(s) \in Int /\ 1 \in Int
    BY TitlesOf
  <2>2. IsFiniteSet(DOMAIN s)
    BY <2>1, FS_Interval
  <2>3. QED
    BY <2>2, FS_Subset, FS_CardinalityType
<1>2. \A i \in kept : i \in Nat /\ Title[s[i]] \in Nat
  BY TitlesOf
<1>3. \A i : L!Place(s, kept, i) = Cardinality(P(i))
  BY SameCardinality DEF L!Place
<1>4. \A i, j \in kept : L!SortedBefore(s, i, j) \/ L!SortedBefore(s, j, i)
  BY <1>2 DEF L!SortedBefore
<1>5. \A i \in kept : P(i) \in SUBSET kept /\ IsFiniteSet(P(i)) /\ Cardinality(P(i)) \in 1..n
  <2>1. SUFFICES ASSUME NEW i \in kept
                 PROVE  P(i) \in SUBSET kept /\ IsFiniteSet(P(i)) /\ Cardinality(P(i)) \in 1..n
    OBVIOUS
  <2>2. P(i) \in SUBSET kept
    OBVIOUS
  <2>3. i \in P(i)
    BY <1>4
  <2> HIDE DEF P
  <2>4. IsFiniteSet(P(i)) /\ Cardinality(P(i)) <= n
    BY <1>1, <2>2, FS_Subset
  <2>5. Cardinality(P(i)) \in Nat /\ Cardinality(P(i)) # 0
    BY <2>3, <2>4, FS_CardinalityType, FS_EmptySet
  <2>6. QED
    BY <1>1, <2>2, <2>4, <2>5
<1>6. \A i, j \in kept : i # j /\ L!SortedBefore(s, i, j) => Cardinality(P(i)) < Cardinality(P(j))
  <2>1. SUFFICES ASSUME NEW i \in kept, NEW j \in kept, i # j, L!SortedBefore(s, i, j)
                 PROVE  Cardinality(P(i)) < Cardinality(P(j))
    OBVIOUS
  <2>2. P(i) \in SUBSET P(j)
    BY <1>2, <2>1 DEF L!SortedBefore
  <2>3. j \in P(j) /\ j \notin P(i)
    BY <1>2, <1>4, <2>1 DEF L!SortedBefore
  <2> HIDE DEF P
  <2>4. IsFiniteSet(P(j)) /\ Cardinality(P(i)) \in Nat /\ Cardinality(P(j)) \in Nat
    BY <1>1, <1>5, <2>1
  <2>5. Cardinality(P(i)) <= Cardinality(P(j)) /\ Cardinality(P(i)) # Cardinality(P(j))
    BY <2>2, <2>3, <2>4, FS_Subset
  <2>6. QED
    BY <2>4, <2>5
<1> HIDE DEF P
<1>7. place \in Injection(kept, 1..n)
  <2>1. place \in [kept -> 1..n]
    BY <1>3, <1>5
  <2>2. \A i, j \in kept : place[i] = place[j] => i = j
    <3>1. SUFFICES ASSUME NEW i \in kept, NEW j \in kept, i # j PROVE place[i] # place[j]
      OBVIOUS
    <3>2. Cardinality(P(i)) \in Nat /\ Cardinality(P(j)) \in Nat
      BY <1>1, <1>5
    <3>3. Cardinality(P(i)) < Cardinality(P(j)) \/ Cardinality(P(j)) < Cardinality(P(i))
      BY <1>4, <1>6, <3>1
    <3>4. QED
      BY <1>3, <3>2, <3>3
  <2>3. QED
    BY <2>1, <2>2 DEF Injection, IsInjective
<1>8. place \in Surjection(kept, 1..n)
  <2>1. IsFiniteSet(1..n) /\ Cardinality(1..n) = n
    BY <1>1, FS_Interval
  <2> HIDE DEF place
  <2>2. QED
    BY <1>7, <2>1, FS_Injection
<1>9. \A k \in 1..n : \E i \in kept : L!Place(s, kept, i) = k
  BY <1>8 DEF Surjection
<1>10. QED
  BY <1>1, <1>3, <1>4, <1>5, <1>6, <1>9

\* What sorting keeps: the books, how often each comes, and an order by title.
LEMMA SortedParts ==
  ASSUME NEW s \in Seq(Books), NEW kept \in SUBSET (DOMAIN s)
  PROVE  /\ L!Sorted(s, kept) \in Seq(Books)
         /\ L!InTitleOrder(L!Sorted(s, kept))
         /\ L!ToSet(L!Sorted(s, kept)) = {s[i] : i \in kept}
         /\ (\A i, j \in DOMAIN s : s[i] = s[j] => i = j) =>
              \A k, l \in DOMAIN L!Sorted(s, kept) :
                L!Sorted(s, kept)[k] = L!Sorted(s, kept)[l] => k = l
<1> DEFINE n == Cardinality(kept)
           from(k) == CHOOSE i \in kept : L!Place(s, kept, i) = k
           r == L!Sorted(s, kept)
<1>1. \A i \in kept : i \in DOMAIN s /\ s[i] \in Books /\ Title[s[i]] \in Nat
  BY TitlesOf
<1>2. n \in Nat
  BY Places
<1>3. \A k \in 1..n : from(k) \in kept /\ L!Place(s, kept, from(k)) = k
  BY Places
<1>4. r = [k \in 1..n |-> s[from(k)]]
  BY SameCardinality DEF L!Sorted
<1> HIDE DEF from, r
<1>5. DOMAIN r = 1..n /\ \A k \in 1..n : r[k] = s[from(k)] /\ r[k] \in Books
  BY <1>1, <1>3, <1>4
<1>6. r \in Seq(Books)
  <2>1. r \in [1..n -> Books]
    BY <1>4, <1>5
  <2>2. QED
    BY <1>2, <2>1, IsSeq
<1>7. \A i \in kept : L!Place(s, kept, i) \in 1..n /\ from(L!Place(s, kept, i)) = i
  <2>1. SUFFICES ASSUME NEW i \in kept
                 PROVE  L!Place(s, kept, i) \in 1..n /\ from(L!Place(s, kept, i)) = i
    OBVIOUS
  <2>2. L!Place(s, kept, i) \in 1..n
    BY Places
  <2>3. from(L!Place(s, kept, i)) \in kept /\ L!Place(s, kept, from(L!Place(s, kept, i))) = L!Place(s, kept, i)
    BY <1>3, <2>2
  <2>4. \A j \in kept : j # i => L!Place(s, kept, j) # L!Place(s, kept, i)
    <3>1. SUFFICES ASSUME NEW j \in kept, j # i
                   PROVE  L!Place(s, kept, j) # L!Place(s, kept, i)
      OBVIOUS
    <3>2. L!SortedBefore(s, i, j) \/ L!SortedBefore(s, j, i)
      BY Places
    <3>3. L!Place(s, kept, j) < L!Place(s, kept, i) \/ L!Place(s, kept, i) < L!Place(s, kept, j)
      BY <3>1, <3>2, Places
    <3>4. L!Place(s, kept, j) \in 1..n
      BY Places
    <3>5. QED
      BY <1>2, <2>2, <3>3, <3>4
  <2>5. QED
    BY <2>2, <2>3, <2>4
<1>8. L!InTitleOrder(r)
  <2>1. SUFFICES ASSUME NEW k \in 1..n, NEW l \in 1..n, k < l
                 PROVE  Title[r[k]] <= Title[r[l]]
    BY <1>5 DEF L!InTitleOrder
  <2>2. /\ from(k) \in kept /\ from(l) \in kept
        /\ L!Place(s, kept, from(k)) < L!Place(s, kept, from(l))
    BY <1>3, <2>1
  <2>3. from(k) # from(l) /\ ~L!SortedBefore(s, from(l), from(k))
    <3>1. L!Place(s, kept, from(k)) \in Nat /\ L!Place(s, kept, from(l)) \in Nat
      BY <1>2, <1>3
    <3>2. from(k) # from(l)
      BY <2>2, <3>1
    <3>3. L!SortedBefore(s, from(l), from(k)) => L!Place(s, kept, from(l)) < L!Place(s, kept, from(k))
      BY <2>2, <3>2, Places
    <3>4. QED
      BY <2>2, <3>1, <3>2, <3>3
  <2>4. Title[s[from(k)]] \in Nat /\ Title[s[from(l)]] \in Nat
    BY <1>1, <2>2
  <2>5. QED
    BY <1>5, <2>3, <2>4 DEF L!SortedBefore
<1>9. L!ToSet(r) = {s[i] : i \in kept}
  <2>1. \A k \in 1..n : r[k] \in {s[i] : i \in kept}
    BY <1>3, <1>5
  <2>2. \A i \in kept : s[i] = r[L!Place(s, kept, i)] /\ L!Place(s, kept, i) \in DOMAIN r
    BY <1>5, <1>7
  <2>3. QED
    BY <1>5, <2>1, <2>2 DEF L!ToSet
<1>10. ASSUME \A i, j \in DOMAIN s : s[i] = s[j] => i = j
       PROVE  \A k, l \in DOMAIN r : r[k] = r[l] => k = l
  <2>1. SUFFICES ASSUME NEW k \in 1..n, NEW l \in 1..n, r[k] = r[l] PROVE k = l
    BY <1>5
  <2>2. from(k) \in kept /\ from(l) \in kept /\ s[from(k)] = s[from(l)]
    BY <1>3, <1>5, <2>1
  <2>3. from(k) = from(l)
    BY <1>1, <1>10, <2>2
  <2>4. QED
    BY <1>3, <2>3
<1>11. QED
  BY <1>6, <1>8, <1>9, <1>10 DEF r

\* A list by title of all the books, as GetBooks makes one.
LEMMA OrderParts ==
  ASSUME available \subseteq Books, NEW order \in L!Orders
  PROVE  /\ IsFiniteSet(available) /\ Cardinality(available) \in Nat
         /\ order \in Seq(Books) /\ Len(order) = Cardinality(available)
         /\ DOMAIN order = 1..Len(order)
         /\ \A i, j \in DOMAIN order : order[i] = order[j] => i = j
         /\ \A b \in available : \E k \in 1..Len(order) : order[k] = b
         /\ \A k \in 1..Len(order) : order[k] \in available
         /\ \A i, j \in 1..Len(order) : i <= j => Title[order[i]] <= Title[order[j]]
<1> DEFINE n == Cardinality(available)
<1>1. IsFiniteSet(available) /\ n \in Nat
  BY LibraryConstants, FS_Subset, FS_CardinalityType
<1>2. /\ order \in [1..n -> available] /\ L!InTitleOrder(order)
      /\ \A i, j \in 1..n : i # j => order[i] # order[j]
  BY SameCardinality DEF L!Orders, L!SetToSeqs
<1>3. order \in Seq(available) /\ Len(order) = n /\ DOMAIN order = 1..n
  BY <1>1, <1>2, IsSeq
<1>4. order \in [1..n -> Books]
  BY <1>2
<1>5. order \in Seq(Books)
  BY <1>1, <1>4, IsSeq
<1>6. order \in Surjection(1..n, available)
  <2>1. order \in Injection(1..n, available)
    BY <1>2 DEF Injection, IsInjective
  <2>2. Cardinality(1..n) = n
    BY <1>1, FS_Interval
  <2>3. QED
    BY <1>1, <2>1, <2>2, FS_Injection
<1>7. \A i, j \in 1..n : i <= j => Title[order[i]] <= Title[order[j]]
  <2>1. SUFFICES ASSUME NEW i \in 1..n, NEW j \in 1..n, i <= j
                 PROVE  Title[order[i]] <= Title[order[j]]
    OBVIOUS
  <2>2. CASE i = j
    <3>1. Title[order[i]] \in Nat
      BY <1>3, <1>5, TitlesOf
    <3>2. QED
      BY <2>2, <3>1
  <2>3. CASE i # j
    <3>1. i < j
      BY <1>1, <2>1, <2>3
    <3>2. QED
      BY <1>2, <1>3, <3>1 DEF L!InTitleOrder
  <2>4. QED
    BY <2>2, <2>3
<1>8. QED
  BY <1>1, <1>2, <1>3, <1>5, <1>6, <1>7 DEF Surjection

\* The first k books of a list without repetitions are k books.
LEMMA FirstBooks ==
  ASSUME NEW s, NEW k \in Nat,
         \A i, j \in 1..k : s[i] = s[j] => i = j
  PROVE  Cardinality({s[i] : i \in 1..k}) = k
<1> DEFINE f == [i \in 1..k |-> s[i]]
           S == {s[i] : i \in 1..k}
<1>1. f \in [1..k -> S] /\ \A i, j \in 1..k : f[i] = f[j] => i = j
  OBVIOUS
<1>2. \A b \in S : \E i \in 1..k : f[i] = b
  OBVIOUS
<1>3. f \in Bijection(1..k, S)
  BY <1>1, <1>2 DEF Bijection, Injection, Surjection, IsInjective
<1>4. ExistsBijection(1..k, S)
  BY <1>3 DEF ExistsBijection
<1>5. QED
  BY <1>4, FS_CountingElements

\* Without two books of one title, a book's place is the number of books up to
\* it, in every list by title.
LEMMA PlaceInOrder ==
  ASSUME available \subseteq Books, NEW order \in L!Orders, ~L!Tied,
         NEW k \in 1..Len(order)
  PROVE  Cardinality(UpTo(order[k])) = k
<1> USE OrderParts
<1>1. \A j \in 1..Len(order) : Title[order[j]] <= Title[order[k]] <=> j <= k
  <2>1. SUFFICES ASSUME NEW j \in 1..Len(order), k < j, Title[order[j]] <= Title[order[k]]
                 PROVE  FALSE
    OBVIOUS
  <2>2. Title[order[k]] <= Title[order[j]]
    BY <2>1
  <2>3. Title[order[k]] \in Nat /\ Title[order[j]] \in Nat
    BY TitlesOf
  <2>4. Title[order[k]] = Title[order[j]]
    BY <2>1, <2>2, <2>3
  <2>5. order[k] # order[j] /\ order[k] \in available /\ order[j] \in available
    BY <2>1
  <2>6. QED
    BY <2>4, <2>5 DEF L!Tied
<1>2. UpTo(order[k]) = {order[i] : i \in 1..k}
  <2>1. \A b \in UpTo(order[k]) : \E i \in 1..k : order[i] = b
    <3>1. SUFFICES ASSUME NEW b \in available, Title[b] <= Title[order[k]]
                   PROVE  \E i \in 1..k : order[i] = b
      BY DEF UpTo
    <3>2. PICK i \in 1..Len(order) : order[i] = b
      OBVIOUS
    <3>3. i <= k
      BY <1>1, <3>1, <3>2
    <3>4. QED
      BY <3>2, <3>3
  <2>2. \A i \in 1..k : i \in 1..Len(order) /\ i <= k
    OBVIOUS
  <2>3. \A i \in 1..k : order[i] \in UpTo(order[k])
    BY <1>1, <2>2 DEF UpTo
  <2>4. UpTo(order[k]) \subseteq {order[i] : i \in 1..k}
    BY <2>1
  <2>5. {order[i] : i \in 1..k} \subseteq UpTo(order[k])
    BY <2>3
  <2>6. QED
    BY <2>4, <2>5
<1>3. \A i, j \in 1..k : order[i] = order[j] => i = j
  OBVIOUS
<1>4. QED
  BY <1>2, <1>3, FirstBooks

\* The books certain to come before the one at place k are fewer than k, and
\* all of the first k if the book has a later title than the one at place k.
LEMMA BeforeInOrder ==
  ASSUME available \subseteq Books, NEW order \in L!Orders,
         NEW k \in 1..Len(order)
  PROVE  /\ Cardinality(Before(order[k])) \in Nat
         /\ Cardinality(Before(order[k])) < k
         /\ \A b \in Books : Title[order[k]] < Title[b] => k <= Cardinality(Before(b))
<1> USE OrderParts
<1>1. k \in Nat /\ k - 1 \in Nat /\ Len(order) \in Nat
  OBVIOUS
<1>2. \A m \in 1..Len(order) : Cardinality({order[i] : i \in 1..m}) = m
  <2>1. SUFFICES ASSUME NEW m \in 1..Len(order)
                 PROVE  Cardinality({order[i] : i \in 1..m}) = m
    OBVIOUS
  <2>2. \A i, j \in 1..m : order[i] = order[j] => i = j
    OBVIOUS
  <2>3. QED
    BY <2>2, FirstBooks
<1>3. \A b : IsFiniteSet(Before(b)) /\ Cardinality(Before(b)) \in Nat
  <2>1. \A b : Before(b) \in SUBSET available
    BY DEF Before
  <2>2. QED
    BY <2>1, FS_Subset, FS_CardinalityType
<1>4. Cardinality(Before(order[k])) < k
  <2>1. {order[i] : i \in 1..k} \in SUBSET available
    OBVIOUS
  <2>2. IsFiniteSet({order[i] : i \in 1..k}) /\ Cardinality({order[i] : i \in 1..k}) = k
    BY <1>2, <2>1, FS_Subset
  <2>3. Before(order[k]) \in SUBSET {order[i] : i \in 1..k}
    <3>1. SUFFICES ASSUME NEW b \in available, Title[b] < Title[order[k]]
                   PROVE  \E i \in 1..k : order[i] = b
      BY DEF Before
    <3>2. PICK i \in 1..Len(order) : order[i] = b
      OBVIOUS
    <3>3. Title[order[i]] \in Nat /\ Title[order[k]] \in Nat
      BY TitlesOf
    <3>4. ~(k <= i)
      BY <3>1, <3>2, <3>3
    <3>5. QED
      BY <3>2, <3>4
  <2>4. order[k] \notin Before(order[k]) /\ order[k] \in {order[i] : i \in 1..k}
    <3>1. Title[order[k]] \in Nat
      BY TitlesOf
    <3>2. QED
      BY <3>1 DEF Before
  <2>5. Cardinality(Before(order[k])) <= k /\ Cardinality(Before(order[k])) # k
    BY <2>2, <2>3, <2>4, FS_Subset
  <2>6. QED
    BY <1>1, <1>3, <2>5
<1>5. ASSUME NEW b \in Books, Title[order[k]] < Title[b]
      PROVE  k <= Cardinality(Before(b))
  <2>1. {order[i] : i \in 1..k} \in SUBSET Before(b)
    <3>1. SUFFICES ASSUME NEW i \in 1..k PROVE order[i] \in Before(b)
      OBVIOUS
    <3>2. i \in 1..Len(order) /\ i <= k
      OBVIOUS
    <3>3. Title[order[i]] <= Title[order[k]] /\ order[i] \in available
      BY <3>2
    <3>4. Title[order[i]] \in Nat /\ Title[order[k]] \in Nat /\ Title[b] \in Nat
      BY <3>2, TitlesOf, LibraryConstants
    <3>5. QED
      BY <1>5, <3>3, <3>4 DEF Before
  <2>2. Cardinality({order[i] : i \in 1..k}) <= Cardinality(Before(b))
    BY <1>3, <2>1, FS_Subset
  <2>3. QED
    BY <1>2, <2>2
<1>6. QED
  BY <1>3, <1>4, <1>5

LEMMA PagedParts ==
  ASSUME nextPage \in Nat \ {0}
  PROVE  /\ Paged \in Nat /\ PageSize \in Nat /\ PageSize > 0
         /\ nextPage * PageSize = Paged + PageSize
<1>1. \A p, q \in Nat : p > 0 => (p - 1) * q \in Nat /\ p * q = (p - 1) * q + q
  OBVIOUS
<1>2. QED
  BY <1>1, LibraryConstants DEF Paged

\* A page is cut out of the list behind the pages before it; one that is not
\* full reaches its end.
LEMMA PageParts ==
  ASSUME available \subseteq Books, nextPage \in Nat \ {0}, NEW order \in L!Orders
  PROVE  LET page1 == L!PageOf(order) IN
         /\ page1 \in Seq(Books) /\ DOMAIN page1 = 1..Len(page1) /\ Len(page1) \in Nat
         /\ \A i \in DOMAIN page1 :
              Paged + i \in 1..Len(order) /\ i <= PageSize /\ page1[i] = order[Paged + i]
         /\ \A k \in 1..Len(order) : Paged < k /\ k <= Paged + PageSize =>
              order[k] \in L!ToSet(page1)
         /\ Len(page1) < PageSize => Len(order) < Paged + PageSize
         /\ Len(page1) = 0 => Len(order) <= Paged
         /\ \A i, j \in DOMAIN page1 : page1[i] = page1[j] => i = j
<1> DEFINE p == L!PageOf(order)
           n == Len(order)
           last == IF Paged + PageSize < n THEN Paged + PageSize ELSE n
<1>1. order \in Seq(Books) /\ n \in Nat /\ \A i, j \in 1..n : order[i] = order[j] => i = j
  BY OrderParts
<1>2. Paged \in Nat /\ PageSize \in Nat /\ PageSize > 0
  BY PagedParts
<1>3. p = SubSeq(order, Paged + 1, last)
  <2>1. nextPage * PageSize = Paged + PageSize /\ (Paged + PageSize) - PageSize + 1 = Paged + 1
    BY PagedParts
  <2>2. QED
    BY <2>1 DEF L!PageOf
<1> HIDE DEF p
<1>4. CASE n <= Paged
  <2>1. p = <<>>
    BY <1>1, <1>2, <1>3, <1>4, SubSeqEmpty
  <2>2. p \in Seq(Books) /\ Len(p) = 0 /\ DOMAIN p = 1..Len(p) /\ DOMAIN p = {}
    BY <2>1
  <2>3. \A k \in 1..n : ~(Paged < k)
    BY <1>1, <1>2, <1>4
  <2>4. n < Paged + PageSize
    BY <1>1, <1>2, <1>4
  <2>5. QED
    BY <1>4, <2>2, <2>3, <2>4 DEF p
<1>5. CASE Paged < n
  <2>1. last \in Nat /\ Paged < last /\ last <= n /\ last <= Paged + PageSize
    BY <1>1, <1>2, <1>5
  <2>2. last = n \/ last = Paged + PageSize
    BY <1>1, <1>2
  <2> HIDE DEF last
  <2>3. Paged + 1 \in 1..n + 1 /\ last \in Paged + 1 - 1..n /\ Paged + 1 <= last
    BY <1>1, <1>2, <2>1
  <2>4. /\ p \in Seq(Books) /\ Len(p) = last - (Paged + 1) + 1
        /\ \A i \in 1..last - (Paged + 1) + 1 : p[i] = order[Paged + 1 + i - 1]
    BY <1>1, <1>3, <2>3, SubSeqProperties
  <2>5. Len(p) = last - Paged /\ \A i \in 1..Len(p) : p[i] = order[Paged + i]
    <3>1. last - (Paged + 1) + 1 = last - Paged /\ \A i \in Nat : Paged + 1 + i - 1 = Paged + i
      BY <1>2, <2>1
    <3>2. QED
      BY <2>4, <3>1
  <2>6. DOMAIN p = 1..Len(p) /\ Len(p) \in Nat
    BY <2>4, LenProperties
  <2>7. \A i \in 1..Len(p) : Paged + i \in 1..n /\ i <= PageSize
    BY <1>1, <1>2, <2>1, <2>5
  <2>8. \A k \in 1..n : Paged < k /\ k <= Paged + PageSize => order[k] \in L!ToSet(p)
    <3>1. SUFFICES ASSUME NEW k \in 1..n, Paged < k, k <= Paged + PageSize
                   PROVE  \E i \in DOMAIN p : p[i] = order[k]
      BY DEF L!ToSet
    <3>2. k - Paged \in 1..Len(p) /\ Paged + (k - Paged) = k
      BY <1>1, <1>2, <2>1, <2>2, <2>5, <3>1
    <3>3. QED
      BY <2>5, <2>6, <3>2
  <2>9. (Len(p) < PageSize => n < Paged + PageSize) /\ Len(p) # 0
    BY <1>1, <1>2, <2>1, <2>2, <2>5
  <2>10. \A i, j \in DOMAIN p : p[i] = p[j] => i = j
    <3>1. SUFFICES ASSUME NEW i \in 1..Len(p), NEW j \in 1..Len(p), p[i] = p[j]
                   PROVE  i = j
      BY <2>6
    <3>2. Paged + i = Paged + j
      BY <1>1, <2>5, <2>7, <3>1
    <3>3. QED
      BY <1>2, <3>2
  <2>11. QED
    BY <2>4, <2>5, <2>6, <2>7, <2>8, <2>9, <2>10 DEF p
<1>6. QED
  BY <1>1, <1>2, <1>4, <1>5

\* An empty sequence, and one with another after it.
LEMMA SeqParts ==
  ASSUME NEW s \in Seq(Books), NEW t \in Seq(Books)
  PROVE  /\ s \o t \in Seq(Books) /\ DOMAIN (s \o t) = 1..Len(s) + Len(t)
         /\ L!ToSet(s \o t) = L!ToSet(s) \union L!ToSet(t)
         /\ L!ToSet(s) \subseteq Books
         /\ \A i \in DOMAIN (s \o t) :
              \/ i \in DOMAIN s /\ (s \o t)[i] = s[i]
              \/ i > Len(s) /\ i - Len(s) \in DOMAIN t /\ (s \o t)[i] = t[i - Len(s)]
         /\ L!ToSet(t) = {} => t = <<>>
<1>1. /\ s \o t \in Seq(Books) /\ Len(s \o t) = Len(s) + Len(t)
      /\ \A i \in 1..Len(s) + Len(t) :
           (s \o t)[i] = IF i <= Len(s) THEN s[i] ELSE t[i - Len(s)]
  BY ConcatProperties
<1>2. /\ DOMAIN s = 1..Len(s) /\ DOMAIN t = 1..Len(t) /\ DOMAIN (s \o t) = 1..Len(s \o t)
      /\ Len(s) \in Nat /\ Len(t) \in Nat
  BY <1>1, LenProperties
<1>3. \A i \in DOMAIN (s \o t) :
        \/ i \in DOMAIN s /\ (s \o t)[i] = s[i]
        \/ i > Len(s) /\ i - Len(s) \in DOMAIN t /\ (s \o t)[i] = t[i - Len(s)]
  BY <1>1, <1>2
<1>4. L!ToSet(s) \subseteq Books
  BY <1>2, ElementOfSeq DEF L!ToSet
<1>5. L!ToSet(s) \subseteq L!ToSet(s \o t)
  <2>1. \A i \in DOMAIN s : i \in DOMAIN (s \o t) /\ (s \o t)[i] = s[i]
    BY <1>1, <1>2
  <2>2. QED
    BY <2>1 DEF L!ToSet
<1>6. L!ToSet(t) \subseteq L!ToSet(s \o t)
  <2>1. \A i \in DOMAIN t : i + Len(s) \in DOMAIN (s \o t) /\ (s \o t)[i + Len(s)] = t[i]
    <3>1. SUFFICES ASSUME NEW i \in 1..Len(t)
                   PROVE  i + Len(s) \in 1..Len(s) + Len(t) /\ (s \o t)[i + Len(s)] = t[i]
      BY <1>1, <1>2
    <3>2. /\ i + Len(s) \in 1..Len(s) + Len(t) /\ ~(i + Len(s) <= Len(s))
          /\ (i + Len(s)) - Len(s) = i
      BY <1>2
    <3>3. QED
      BY <1>1, <3>2
  <2>2. QED
    BY <2>1 DEF L!ToSet
<1>7. L!ToSet(s \o t) \subseteq L!ToSet(s) \union L!ToSet(t)
  BY <1>3 DEF L!ToSet
<1>8. L!ToSet(t) = {} => t = <<>>
  <2>1. SUFFICES ASSUME L!ToSet(t) = {} PROVE t = <<>>
    OBVIOUS
  <2>2. DOMAIN t = {}
    BY <2>1 DEF L!ToSet
  <2>3. Len(t) = 0
    BY <1>2, <2>2
  <2>4. QED
    BY <2>3, EmptySeq
<1>9. QED
  BY <1>1, <1>2, <1>3, <1>4, <1>5, <1>6, <1>7, <1>8

LEMMA FilteredParts ==
  ASSUME NEW s \in Seq(Books), NEW q
  PROVE  /\ L!Filtered(s, q) \in Seq(Books) /\ L!InTitleOrder(L!Filtered(s, q))
         /\ L!ToSet(L!Filtered(s, q)) = {b \in L!ToSet(s) : L!Matches(b, q)}
         /\ (\A i, j \in DOMAIN s : s[i] = s[j] => i = j) =>
              \A k, l \in DOMAIN L!Filtered(s, q) :
                L!Filtered(s, q)[k] = L!Filtered(s, q)[l] => k = l
<1> DEFINE kept == {i \in DOMAIN s : L!Matches(s[i], q)}
<1>1. kept \in SUBSET (DOMAIN s) /\ L!Filtered(s, q) = L!Sorted(s, kept)
  BY DEF L!Filtered
<1>2. {s[i] : i \in kept} = {b \in L!ToSet(s) : L!Matches(b, q)}
  BY DEF L!ToSet
<1> HIDE DEF kept
<1>3. QED
  BY <1>1, <1>2, SortedParts

LEMMA ShownParts ==
  ASSUME NEW s \in Seq(Books), NEW q
  PROVE  /\ L!Shown(s, q) \in Seq(Books)
         /\ L!InTitleOrder(s) => L!InTitleOrder(L!Shown(s, q))
         /\ L!ToSet(L!Shown(s, q)) = {b \in L!ToSet(s) : L!Matches(b, q)}
         /\ (\A i, j \in DOMAIN s : s[i] = s[j] => i = j) =>
              \A k, l \in DOMAIN L!Shown(s, q) :
                L!Shown(s, q)[k] = L!Shown(s, q)[l] => k = l
<1>1. CASE q = L!NoQuery
  <2>1. L!Shown(s, q) = s /\ \A b : L!Matches(b, q)
    BY <1>1 DEF L!Shown, L!Matches
  <2>2. L!ToSet(s) = {b \in L!ToSet(s) : L!Matches(b, q)}
    BY <2>1
  <2>3. QED
    BY <2>1, <2>2
<1>2. CASE q # L!NoQuery
  <2>1. L!Shown(s, q) = L!Filtered(s, q)
    BY <1>2 DEF L!Shown
  <2>2. QED
    BY <2>1, FilteredParts
<1>3. QED
  BY <1>1, <1>2

\* What a page adds to the list: what it has and the list has not, once each.
LEMMA NewParts ==
  ASSUME NEW results \in Seq(Books),
         \A i, j \in DOMAIN results : results[i] = results[j] => i = j
  PROVE  /\ L!NewBooks(results) \in Seq(Books) /\ L!InTitleOrder(L!NewBooks(results))
         /\ L!ToSet(L!NewBooks(results)) = L!ToSet(results) \ L!ToSet(list)
         /\ \A k, l \in DOMAIN L!NewBooks(results) :
              L!NewBooks(results)[k] = L!NewBooks(results)[l] => k = l
<1> DEFINE kept == {i \in DOMAIN results : results[i] \notin L!ToSet(list)}
<1>1. kept \in SUBSET (DOMAIN results) /\ L!NewBooks(results) = L!Sorted(results, kept)
  BY DEF L!NewBooks
<1>2. {results[i] : i \in kept} = L!ToSet(results) \ L!ToSet(list)
  BY DEF L!ToSet
<1> HIDE DEF kept
<1>3. QED
  BY <1>1, <1>2, SortedParts

\* What the answer with a page does, in terms of the list it was cut out of.
LEMMA AnsweredParts ==
  ASSUME L!TypeOK, L!PageAnswered
  PROVE  \E order \in L!Orders, new \in Seq(Books) :
           LET page1 == L!PageOf(order) IN
           /\ L!InTitleOrder(new) /\ list' = list \o new
           /\ L!ToSet(new) = L!ToSet(page1) \ L!ToSet(list)
           /\ \A k, l \in DOMAIN new : new[k] = new[l] => k = l
           /\ \/ Len(page1) = 0 /\ new = <<>> /\ list' = list /\ UNCHANGED <<filteredBooks, nextPage>>
              \/ filteredBooks' = L!Shown(list', query) /\ nextPage' = nextPage + 1
           /\ asking' = IF Len(page1) < PageSize THEN "loaded" ELSE "timer"
           /\ asking = "call" /\ UNCHANGED <<available, query, history>>
<1>1. PICK order \in L!Orders :
        /\ list' = list \o L!NewBooks(L!PageOf(order))
        /\ filteredBooks' = IF L!PageOf(order) = <<>> THEN filteredBooks
                            ELSE L!Shown(list', query)
        /\ nextPage' = IF L!PageOf(order) = <<>> THEN nextPage ELSE nextPage + 1
        /\ asking' = IF Len(L!PageOf(order)) < PageSize THEN "loaded" ELSE "timer"
  BY DEF L!PageAnswered
<1> DEFINE p == L!PageOf(order)
           new == L!NewBooks(p)
<1>2. available \subseteq Books /\ nextPage \in Nat \ {0} /\ list \in Seq(Books)
  BY DEF L!TypeOK
<1>3. p \in Seq(Books) /\ \A i, j \in DOMAIN p : p[i] = p[j] => i = j
  BY <1>2, PageParts
<1> HIDE DEF p
<1>4. /\ new \in Seq(Books) /\ L!InTitleOrder(new)
      /\ L!ToSet(new) = L!ToSet(p) \ L!ToSet(list)
      /\ \A k, l \in DOMAIN new : new[k] = new[l] => k = l
  BY <1>3, NewParts
<1>5. list' = list \o new
  BY <1>1 DEF p
<1> HIDE DEF new
<1>6. CASE p = <<>>
  <2>1. Len(p) = 0 /\ L!ToSet(p) = {}
    BY <1>6 DEF L!ToSet
  <2>2. new = <<>>
    BY <1>4, <2>1, SeqParts
  <2>3. list' = list
    BY <1>2, <1>5, <2>2
  <2>4. UNCHANGED <<filteredBooks, nextPage>>
    BY <1>1, <1>6 DEF p
  <2>5. asking' = IF Len(p) < PageSize THEN "loaded" ELSE "timer"
    BY <1>1 DEF p
  <2>6. asking = "call" /\ UNCHANGED <<available, query, history>>
    BY DEF L!PageAnswered
  <2>7. QED
    BY <1>4, <1>5, <2>1, <2>2, <2>3, <2>4, <2>5, <2>6 DEF p
<1>7. CASE p # <<>>
  <2>1. filteredBooks' = L!Shown(list', query) /\ nextPage' = nextPage + 1
    BY <1>1, <1>7 DEF p
  <2>2. asking' = IF Len(p) < PageSize THEN "loaded" ELSE "timer"
    BY <1>1 DEF p
  <2>3. asking = "call" /\ UNCHANGED <<available, query, history>>
    BY DEF L!PageAnswered
  <2>4. QED
    BY <1>4, <1>5, <2>1, <2>2, <2>3 DEF p
<1>8. QED
  BY <1>6, <1>7

----------------------------------------------------------------------------
(* The steps of the list of books                                          *)

LEMMA LibraryInit == L!Init => L!TypeOK /\ AheadInv /\ ListInv
<1> SUFFICES ASSUME L!Init PROVE L!TypeOK /\ AheadInv /\ ListInv
  OBVIOUS
<1>1. /\ available \subseteq Books /\ list = <<>> /\ filteredBooks = <<>> /\ query = L!NoQuery
      /\ nextPage = 1 /\ asking = "call"
      /\ history = [start |-> available, added |-> FALSE, removed |-> FALSE]
  BY DEF L!Init
<1>2. L!TypeOK
  <2>1. <<>> \in Seq(Books)
    OBVIOUS
  <2>2. QED
    BY <1>1, <2>1 DEF L!TypeOK, L!Asking
<1>3. DOMAIN list = {} /\ L!ToSet(list) = {}
  BY <1>1 DEF L!ToSet
<1>4. AheadInv
  <2>1. Paged = 0
    BY <1>1, LibraryConstants DEF Paged
  <2>2. \A b \in available : Cardinality(UpTo(b)) > 0
    <3>1. SUFFICES ASSUME NEW b \in available PROVE Cardinality(UpTo(b)) > 0
      OBVIOUS
    <3>2. b \in UpTo(b) /\ UpTo(b) \in SUBSET Books
      BY <1>1, LibraryConstants DEF UpTo
    <3>3. IsFiniteSet(UpTo(b)) /\ Cardinality(UpTo(b)) \in Nat /\ Cardinality(UpTo(b)) # 0
      BY <3>2, LibraryConstants, FS_Subset, FS_CardinalityType, FS_EmptySet
    <3>4. QED
      BY <3>3
  <2>3. QED
    BY <1>1, <2>1, <2>2 DEF AheadInv
<1>5. ListInv
  <2>1. filteredBooks = L!Shown(list, query) /\ L!InTitleOrder(list)
    BY <1>1, <1>3 DEF L!Shown, L!InTitleOrder
  <2>2. QED
    BY <1>3, <2>1 DEF ListInv
<1>6. QED
  BY <1>2, <1>4, <1>5

LEMMA LibraryTypeStep ==
  ASSUME L!TypeOK, L!Next
  PROVE  L!TypeOK'
<1>0. list \in Seq(Books) /\ nextPage \in Nat \ {0} /\ available \subseteq Books
  BY DEF L!TypeOK
<1>1. CASE L!PageAnswered
  <2>1. PICK order \in L!Orders, new \in Seq(Books) :
          /\ list' = list \o new
          /\ \/ UNCHANGED <<filteredBooks, nextPage>>
             \/ filteredBooks' = L!Shown(list', query) /\ nextPage' = nextPage + 1
          /\ asking' = IF Len(L!PageOf(order)) < PageSize THEN "loaded" ELSE "timer"
          /\ UNCHANGED <<available, query, history>>
    BY <1>1, AnsweredParts
  <2>2. list' \in Seq(Books)
    BY <1>0, <2>1, SeqParts
  <2>3. filteredBooks' \in Seq(Books) /\ nextPage' \in Nat \ {0}
    <3>1. L!Shown(list', query) \in Seq(Books)
      BY <2>2, ShownParts
    <3>2. nextPage + 1 \in Nat \ {0}
      BY <1>0
    <3>3. filteredBooks \in Seq(Books)
      BY DEF L!TypeOK
    <3>4. QED
      BY <1>0, <2>1, <3>1, <3>2, <3>3
  <2>4. QED
    BY <2>1, <2>2, <2>3 DEF L!TypeOK, L!Asking
<1>2. CASE L!PageFails
  BY <1>2 DEF L!PageFails, L!TypeOK, L!Asking
<1>3. CASE L!NextPage
  BY <1>3 DEF L!NextPage, L!TypeOK, L!Asking
<1>4. ASSUME NEW q \in L!Titles \union {L!NoQuery}, L!Search(q) PROVE L!TypeOK'
  <2>1. filteredBooks' \in Seq(Books)
    BY <1>0, <1>4, FilteredParts DEF L!Search
  <2>2. QED
    BY <1>4, <2>1 DEF L!Search, L!TypeOK
<1>5. ASSUME NEW b \in Books, L!AddBook(b) \/ L!RemoveBook(b) PROVE L!TypeOK'
  BY <1>5 DEF L!AddBook, L!RemoveBook, L!TypeOK
<1>6. QED
  BY <1>1, <1>2, <1>3, <1>4, <1>5 DEF L!Next

\* What was there at first stays ahead until it comes.
LEMMA AheadStep ==
  ASSUME L!TypeOK, AheadInv, L!Next
  PROVE  AheadInv'
<1>0. /\ available \subseteq Books /\ nextPage \in Nat \ {0} /\ list \in Seq(Books)
      /\ history \in [start : SUBSET Books, added : BOOLEAN, removed : BOOLEAN]
  BY DEF L!TypeOK
<1>1. CASE L!PageAnswered
  <2>1. PICK order \in L!Orders, new \in Seq(Books) :
          /\ list' = list \o new
          /\ L!ToSet(new) = L!ToSet(L!PageOf(order)) \ L!ToSet(list)
          /\ \/ Len(L!PageOf(order)) = 0 /\ UNCHANGED nextPage
             \/ nextPage' = nextPage + 1
          /\ asking' = IF Len(L!PageOf(order)) < PageSize THEN "loaded" ELSE "timer"
          /\ asking = "call" /\ UNCHANGED <<available, history>>
    BY <1>1, AnsweredParts
  <2> DEFINE p == L!PageOf(order)
             n == Len(order)
  <2>2. L!ToSet(list') = L!ToSet(list) \union L!ToSet(p)
    BY <1>0, <2>1, SeqParts
  <2>3. /\ \A k \in 1..n : Paged < k /\ k <= Paged + PageSize => order[k] \in L!ToSet(p)
        /\ Len(p) < PageSize => n < Paged + PageSize
        /\ Len(p) = 0 => n <= Paged
    BY <1>0, PageParts
  <2>4. Paged \in Nat /\ PageSize \in Nat /\ n \in Nat
    BY <1>0, PagedParts, OrderParts
  <2>5. Paged' = Paged \/ Paged' = Paged + PageSize
    <3>1. ((nextPage + 1) - 1) * PageSize = nextPage * PageSize
      BY <1>0, <2>4
    <3>2. QED
      BY <1>0, <2>1, <3>1, PagedParts DEF Paged
  <2>6. Paged' = Paged => Len(p) = 0
    <3>1. ASSUME nextPage' = nextPage + 1 PROVE Paged' = Paged + PageSize
      <4>1. ((nextPage + 1) - 1) * PageSize = nextPage * PageSize
        BY <1>0, <2>4
      <4>2. QED
        BY <1>0, <3>1, <4>1, PagedParts DEF Paged
    <3>2. QED
      BY <1>0, <2>1, <2>4, <3>1, PagedParts
  <2>7. SUFFICES ASSUME ~history.removed, ~L!Tied,
                        NEW b \in history.start, b \notin L!ToSet(list')
                 PROVE  asking' # "loaded" /\ Paged' < Cardinality(UpTo(b))
    BY <2>1 DEF AheadInv, UpTo, L!Tied
  <2>8. b \in available /\ Paged < Cardinality(UpTo(b))
    BY <2>2, <2>7 DEF AheadInv
  <2>9. PICK k \in 1..n : order[k] = b
    BY <1>0, <2>8, OrderParts
  <2>10. Cardinality(UpTo(b)) = k
    BY <1>0, <2>7, <2>9, PlaceInOrder
  <2>11. ~(k <= Paged + PageSize)
    BY <2>2, <2>3, <2>7, <2>8, <2>9, <2>10
  <2>12. k <= n /\ k \in Nat
    BY <2>4
  <2> HIDE DEF p, n
  <2>13. ~(Len(p) < PageSize)
    BY <2>3, <2>4, <2>11, <2>12
  <2>14. asking' # "loaded"
    BY <2>1, <2>13 DEF p
  <2>15. Paged' < k
    BY <2>4, <2>5, <2>11, <2>12
  <2>16. QED
    BY <2>10, <2>14, <2>15
<1>2. CASE L!PageFails
  BY <1>2 DEF L!PageFails, AheadInv, UpTo, L!Tied, Paged
<1>3. CASE L!NextPage
  BY <1>3 DEF L!NextPage, AheadInv, UpTo, L!Tied, Paged
<1>4. ASSUME NEW q \in L!Titles \union {L!NoQuery}, L!Search(q) PROVE AheadInv'
  BY <1>4 DEF L!Search, AheadInv, UpTo, L!Tied, Paged
<1>5. ASSUME NEW c \in Books, L!AddBook(c) PROVE AheadInv'
  <2>1. /\ available' = available \union {c} /\ history'.removed = history.removed
        /\ history'.start = history.start /\ UNCHANGED <<list, nextPage, asking>>
    BY <1>0, <1>5 DEF L!AddBook
  <2>2. L!Tied => L!Tied'
    BY <2>1 DEF L!Tied
  <2>3. \A b \in Books : Cardinality(UpTo(b)) \in Nat /\ Cardinality(UpTo(b)) <= Cardinality(UpTo(b)')
    <3>1. SUFFICES ASSUME NEW b \in Books
                   PROVE  Cardinality(UpTo(b)) \in Nat /\ Cardinality(UpTo(b)) <= Cardinality(UpTo(b)')
      OBVIOUS
    <3>2. UpTo(b) \in SUBSET (UpTo(b)') /\ (UpTo(b)') \in SUBSET Books
      BY <1>0, <2>1 DEF UpTo
    <3>3. IsFiniteSet(UpTo(b)')
      BY <3>2, LibraryConstants, FS_Subset
    <3>4. IsFiniteSet(UpTo(b)) /\ Cardinality(UpTo(b)) <= Cardinality(UpTo(b)')
      BY <3>2, <3>3, FS_Subset
    <3>5. QED
      BY <3>4, FS_CardinalityType
  <2>4. SUFFICES ASSUME ~history.removed
                 PROVE  /\ history.start \subseteq available'
                        /\ ~L!Tied' => \A b \in history.start \ L!ToSet(list) :
                             asking # "loaded" /\ Paged < Cardinality(UpTo(b)')
    BY <2>1 DEF AheadInv, UpTo, Paged
  <2>5. history.start \subseteq available
    BY <2>4 DEF AheadInv
  <2>6. ASSUME ~L!Tied', NEW b \in history.start \ L!ToSet(list)
        PROVE  asking # "loaded" /\ Paged < Cardinality(UpTo(b)')
    <3>1. asking # "loaded" /\ Paged < Cardinality(UpTo(b))
      BY <2>2, <2>4, <2>6 DEF AheadInv
    <3>2. Paged \in Nat /\ b \in Books
      BY <1>0, <2>5, PagedParts
    <3>3. UpTo(b)' \in SUBSET Books
      BY <1>0, <2>1 DEF UpTo
    <3>4. Cardinality(UpTo(b)') \in Nat
      BY <3>3, LibraryConstants, FS_Subset, FS_CardinalityType
    <3>5. QED
      BY <2>3, <3>1, <3>2, <3>4
  <2>7. QED
    BY <2>1, <2>5, <2>6
<1>6. ASSUME NEW c \in Books, L!RemoveBook(c) PROVE AheadInv'
  BY <1>0, <1>6 DEF L!RemoveBook, AheadInv
<1>7. QED
  BY <1>1, <1>2, <1>3, <1>4, <1>5, <1>6 DEF L!Next

\* A page comes behind what came before it: it holds nothing the list has, and
\* while nothing changes nothing that should have come earlier.
LEMMA ListStep ==
  ASSUME L!TypeOK, ListInv, L!Next
  PROVE  ListInv'
<1>0. /\ available \subseteq Books /\ nextPage \in Nat \ {0} /\ list \in Seq(Books)
      /\ history \in [start : SUBSET Books, added : BOOLEAN, removed : BOOLEAN]
  BY DEF L!TypeOK
<1>1. CASE L!PageAnswered
  <2>1. PICK order \in L!Orders, new \in Seq(Books) :
          /\ L!InTitleOrder(new) /\ list' = list \o new
          /\ L!ToSet(new) = L!ToSet(L!PageOf(order)) \ L!ToSet(list)
          /\ \A k, l \in DOMAIN new : new[k] = new[l] => k = l
          /\ \/ new = <<>> /\ list' = list /\ UNCHANGED <<filteredBooks, nextPage>>
             \/ filteredBooks' = L!Shown(list', query) /\ nextPage' = nextPage + 1
          /\ UNCHANGED <<available, query, history>>
    BY <1>1, AnsweredParts
  <2>2. CASE list' = list /\ UNCHANGED <<filteredBooks, nextPage>>
    BY <2>1, <2>2 DEF ListInv, Before, Paged
  <2>3. CASE filteredBooks' = L!Shown(list', query) /\ nextPage' = nextPage + 1
    <3> DEFINE p == L!PageOf(order)
    <3>1. /\ Paged \in Nat /\ PageSize \in Nat /\ PageSize > 0
          /\ Paged' = Paged + PageSize
      <4>1. ((nextPage + 1) - 1) * PageSize = nextPage * PageSize
        BY <1>0, PagedParts
      <4>2. QED
        BY <1>0, <2>3, <4>1, PagedParts DEF Paged
    <3>2. \A b \in L!ToSet(new) : \E k \in 1..Len(order) :
            b = order[k] /\ Paged < k /\ k <= Paged + PageSize
      <4>1. SUFFICES ASSUME NEW b \in L!ToSet(p)
                     PROVE  \E k \in 1..Len(order) :
                              b = order[k] /\ Paged < k /\ k <= Paged + PageSize
        BY <2>1
      <4>2. PICK i \in DOMAIN p : p[i] = b
        BY DEF L!ToSet
      <4>3. Paged + i \in 1..Len(order) /\ i <= PageSize /\ b = order[Paged + i] /\ i \in 1..Len(p)
        BY <1>0, <4>2, PageParts
      <4>4. i \in Nat /\ i > 0
        <5>1. Len(p) \in Nat
          BY <1>0, PageParts
        <5>2. QED
          BY <4>3, <5>1
      <4>5. Paged < Paged + i /\ Paged + i <= Paged + PageSize
        BY <3>1, <4>3, <4>4
      <4>6. QED
        BY <4>3, <4>5
    <3>3. /\ DOMAIN list = 1..Len(list) /\ Len(list) \in Nat
          /\ DOMAIN new = 1..Len(new) /\ Len(new) \in Nat
      BY <1>0, TitlesOf
    <3>4. \A i \in DOMAIN list' :
            \/ i \in DOMAIN list /\ list'[i] = list[i] /\ list[i] \in L!ToSet(list)
            \/ i > Len(list) /\ i - Len(list) \in DOMAIN new /\ i \in Nat
               /\ list'[i] = new[i - Len(list)] /\ new[i - Len(list)] \in L!ToSet(new)
      <4>1. \A i \in DOMAIN list' :
              \/ i \in DOMAIN list /\ list'[i] = list[i]
              \/ i > Len(list) /\ i - Len(list) \in DOMAIN new /\ list'[i] = new[i - Len(list)]
        BY <1>0, <2>1, SeqParts
      <4>2. DOMAIN list' = 1..Len(list) + Len(new)
        BY <1>0, <2>1, SeqParts
      <4>3. \A i \in DOMAIN list' : i \in Nat
        BY <3>3, <4>2
      <4>4. QED
        BY <4>1, <4>3 DEF L!ToSet
    <3>5. \A i, j \in DOMAIN list' : list'[i] = list'[j] => i = j
      <4>1. SUFFICES ASSUME NEW i \in DOMAIN list', NEW j \in DOMAIN list', list'[i] = list'[j]
                     PROVE  i = j
        OBVIOUS
      <4>2. CASE list'[i] \in L!ToSet(list)
        <5>1. i \in DOMAIN list /\ j \in DOMAIN list /\ list[i] = list[j]
          BY <2>1, <3>4, <4>1, <4>2
        <5>2. QED
          BY <5>1 DEF ListInv
      <4>3. CASE list'[i] \notin L!ToSet(list)
        <5>1. /\ i \in Nat /\ j \in Nat
              /\ i - Len(list) \in DOMAIN new /\ j - Len(list) \in DOMAIN new
              /\ new[i - Len(list)] = new[j - Len(list)]
          BY <3>4, <4>1, <4>3
        <5>2. i - Len(list) = j - Len(list)
          BY <2>1, <5>1
        <5>3. QED
          BY <3>3, <5>1, <5>2
      <4>4. QED
        BY <4>2, <4>3
    <3>6. ASSUME ~history.added, ~history.removed
          PROVE  /\ L!InTitleOrder(list')
                 /\ \A b \in L!ToSet(list') : Cardinality(Before(b)) < Paged'
      <4>1. L!InTitleOrder(list) /\ \A b \in L!ToSet(list) : Cardinality(Before(b)) < Paged
        BY <3>6 DEF ListInv
      <4>2. L!ToSet(list) \subseteq Books /\ L!ToSet(new) \subseteq Books
        BY <1>0, SeqParts
      <4>3. \A b \in Books : Title[b] \in Nat /\ Cardinality(Before(b)) \in Nat
        <5>1. \A b : Before(b) \in SUBSET Books
          BY <1>0 DEF Before
        <5>2. QED
          BY <5>1, LibraryConstants, FS_Subset, FS_CardinalityType
      <4>4. \A a \in L!ToSet(list), b \in L!ToSet(new) : Title[a] <= Title[b]
        <5>0. \A a \in L!ToSet(list), b \in L!ToSet(new) :
                Title[a] \in Nat /\ Title[b] \in Nat
          BY <4>2, <4>3
        <5>1. SUFFICES ASSUME NEW a \in L!ToSet(list), NEW b \in L!ToSet(new), Title[b] < Title[a]
                       PROVE  FALSE
          BY <5>0
        <5>2. PICK k \in 1..Len(order) : b = order[k] /\ Paged < k
          BY <3>2
        <5>3. k <= Cardinality(Before(a))
          BY <1>0, <4>2, <5>1, <5>2, BeforeInOrder
        <5>4. Cardinality(Before(a)) < Paged /\ Cardinality(Before(a)) \in Nat
          BY <4>1, <4>2, <4>3
        <5>5. QED
          BY <3>1, <5>2, <5>3, <5>4
      <4>5. L!InTitleOrder(list')
        <5>1. SUFFICES ASSUME NEW i \in DOMAIN list', NEW j \in DOMAIN list', i < j
                       PROVE  Title[list'[i]] <= Title[list'[j]]
          BY DEF L!InTitleOrder
        <5>2. CASE i \in DOMAIN list /\ j \in DOMAIN list
          <6>1. list'[i] = list[i] /\ list'[j] = list[j]
            BY <3>3, <3>4, <5>2
          <6>2. QED
            BY <4>1, <5>1, <5>2, <6>1 DEF L!InTitleOrder
        <5>3. CASE i \in DOMAIN list /\ j \notin DOMAIN list
          <6>1. list'[i] \in L!ToSet(list) /\ list'[j] \in L!ToSet(new)
            BY <3>3, <3>4, <5>3
          <6>2. QED
            BY <4>4, <6>1
        <5>4. CASE i \notin DOMAIN list
          <6>1. /\ i > Len(list) /\ i \in Nat /\ i - Len(list) \in DOMAIN new
                /\ list'[i] = new[i - Len(list)]
            BY <3>4, <5>4
          <6>2. ~(j \in DOMAIN list)
            BY <3>3, <5>1, <6>1
          <6>3. /\ j \in Nat /\ j - Len(list) \in DOMAIN new /\ list'[j] = new[j - Len(list)]
            BY <3>4, <6>2
          <6>4. i - Len(list) < j - Len(list)
            BY <3>3, <5>1, <6>1, <6>3
          <6>5. QED
            BY <2>1, <6>1, <6>3, <6>4 DEF L!InTitleOrder
        <5>5. QED
          BY <5>2, <5>3, <5>4
      <4>6. ASSUME NEW b \in L!ToSet(list') PROVE Cardinality(Before(b)) < Paged'
        <5>1. b \in L!ToSet(list) \/ b \in L!ToSet(new)
          BY <1>0, <2>1, <4>6, SeqParts
        <5>2. b \in Books
          BY <4>2, <5>1
        <5>3. CASE b \in L!ToSet(list)
          <6>1. Cardinality(Before(b)) < Paged /\ Cardinality(Before(b)) \in Nat
            BY <4>1, <4>3, <5>2, <5>3
          <6>2. QED
            BY <3>1, <6>1
        <5>4. CASE b \in L!ToSet(new)
          <6>1. PICK k \in 1..Len(order) : b = order[k] /\ k <= Paged + PageSize
            BY <3>2, <5>4
          <6>2. Cardinality(Before(b)) < k /\ Cardinality(Before(b)) \in Nat
            BY <1>0, <6>1, BeforeInOrder
          <6>3. QED
            BY <3>1, <6>1, <6>2
        <5>5. QED
          BY <5>1, <5>3, <5>4
      <4>7. QED
        BY <4>5, <4>6
    <3>7. QED
      BY <2>1, <2>3, <3>5, <3>6 DEF ListInv, Before
  <2>4. QED
    BY <2>1, <2>2, <2>3
<1>2. CASE L!PageFails
  BY <1>2 DEF L!PageFails, ListInv, Before, Paged
<1>3. CASE L!NextPage
  BY <1>3 DEF L!NextPage, ListInv, Before, Paged
<1>4. ASSUME NEW q \in L!Titles \union {L!NoQuery}, L!Search(q) PROVE ListInv'
  BY <1>4 DEF L!Search, ListInv, Before, Paged
<1>5. ASSUME NEW c \in Books, L!AddBook(c) PROVE ListInv'
  <2>1. history'.added /\ UNCHANGED <<list, filteredBooks, query>>
    BY <1>0, <1>5 DEF L!AddBook
  <2>2. QED
    BY <2>1 DEF ListInv
<1>6. ASSUME NEW c \in Books, L!RemoveBook(c) PROVE ListInv'
  <2>1. history'.removed /\ UNCHANGED <<list, filteredBooks, query>>
    BY <1>0, <1>6 DEF L!RemoveBook
  <2>2. QED
    BY <2>1 DEF ListInv
<1>7. QED
  BY <1>1, <1>2, <1>3, <1>4, <1>5, <1>6 DEF L!Next

----------------------------------------------------------------------------
(* The page that is shown                                                  *)

LibraryPageInv == open = "books" => L!TypeOK /\ AheadInv /\ ListInv
ImportInv == open = "bulk-import" => I!TypeOK /\ VisitInv /\ AgreedInv
FormPageInv == open = "create" => F!TypeOK /\ FormInv
TablePageInv == open = "table" => T!TypeOK /\ TableInv

LEMMA LibraryPageStep == LibraryPageInv /\ [Next]_vars => LibraryPageInv'
<1> SUFFICES ASSUME LibraryPageInv, [Next]_vars, open' = "books"
             PROVE  L!TypeOK' /\ AheadInv' /\ ListInv'
  BY DEF LibraryPageInv
<1>1. open = "books" /\ (L!Next \/ UNCHANGED libraryVars)
  BY DEF Next, vars
<1>2. L!TypeOK /\ AheadInv /\ ListInv
  BY <1>1 DEF LibraryPageInv
<1>3. CASE L!Next
  BY <1>2, <1>3, LibraryTypeStep, AheadStep, ListStep
<1>4. CASE UNCHANGED libraryVars
  <2>1. L!TypeOK'
    BY <1>2, <1>4 DEF libraryVars, L!TypeOK
  <2>2. AheadInv'
    BY <1>2, <1>4 DEF libraryVars, AheadInv, UpTo, L!Tied, Paged
  <2>3. ListInv'
    BY <1>2, <1>4 DEF libraryVars, ListInv, Before, Paged
  <2>4. QED
    BY <2>1, <2>2, <2>3
<1>5. QED
  BY <1>1, <1>3, <1>4

LEMMA ImportPageStep == ImportInv /\ [Next]_vars => ImportInv'
<1> SUFFICES ASSUME ImportInv, [Next]_vars, open' = "bulk-import"
             PROVE  I!TypeOK' /\ VisitInv' /\ AgreedInv'
  BY DEF ImportInv
<1>1. open = "bulk-import" /\ (I!Next \/ UNCHANGED importVars)
  BY DEF Next, vars
<1>2. I!TypeOK /\ VisitInv /\ AgreedInv
  BY <1>1 DEF ImportInv
<1>3. CASE I!Next
  BY <1>2, <1>3, ImportTypeStep, VisitStep, AgreedStep
<1>4. CASE UNCHANGED importVars
  <2>1. I!TypeOK'
    BY <1>2, <1>4 DEF importVars, I!TypeOK
  <2>2. VisitInv'
    BY <1>2, <1>4 DEF importVars, VisitInv
  <2>3. AgreedInv'
    BY <1>2, <1>4 DEF importVars, AgreedInv, I!ImportsWhatRowsShow, I!Imported
  <2>4. QED
    BY <2>1, <2>2, <2>3
<1>5. QED
  BY <1>1, <1>3, <1>4

LEMMA FormPageStep == FormPageInv /\ [Next]_vars => FormPageInv'
<1> SUFFICES ASSUME FormPageInv, [Next]_vars, open' = "create" PROVE F!TypeOK' /\ FormInv'
  BY DEF FormPageInv
<1>1. open = "create" /\ (F!Next \/ UNCHANGED formVars)
  BY DEF Next, vars
<1>2. F!TypeOK /\ FormInv
  BY <1>1 DEF FormPageInv
<1>3. CASE F!Next
  BY <1>2, <1>3, FormTypeStep, FormStep
<1>4. CASE UNCHANGED formVars
  <2>1. F!TypeOK'
    BY <1>2, <1>4 DEF formVars, F!TypeOK
  <2>2. FormInv'
    <3>1. UNCHANGED <<route, catalog, bookId, form, fetches, saves, overlay, seen>>
      BY <1>4 DEF formVars
    <3>0. /\ F!Required' = F!Required /\ F!KeptOf(form)' = F!KeptOf(form)
          /\ F!KeptOf(F!Required)' = F!KeptOf(F!Required)
      BY <3>1 DEF F!Required, F!KeptOf
    <3>2. Quiet => Quiet'
      BY <3>0, <3>1 DEF Quiet, Found
    <3>3. InFlight(saves[1]) => InFlight(saves[1])'
      BY <3>0, <3>1 DEF InFlight, Found
    <3>4. Undoubted => Undoubted'
      BY <3>1, <3>2, <3>3 DEF Undoubted
    <3>5. QED
      BY <1>2, <3>1, <3>4 DEF FormInv
  <2>3. QED
    BY <2>1, <2>2
<1>5. QED
  BY <1>1, <1>3, <1>4

LEMMA TablePageStep == TablePageInv /\ [Next]_vars => TablePageInv'
<1> SUFFICES ASSUME TablePageInv, [Next]_vars, open' = "table" PROVE T!TypeOK' /\ TableInv'
  BY DEF TablePageInv
<1>1. open = "table" /\ (T!Next \/ UNCHANGED tableVars)
  BY DEF Next, vars
<1>2. T!TypeOK /\ TableInv
  BY <1>1 DEF TablePageInv
<1>3. CASE T!Next
  BY <1>2, <1>3, TableStep
<1>4. CASE UNCHANGED tableVars
  <2>1. T!TypeOK'
    BY <1>2, <1>4 DEF tableVars, T!TypeOK
  <2>2. TableInv'
    BY <1>2, <1>4 DEF tableVars, TableInv, ReloadInv, PatchInv, RowInv, ReloadRow, PatchRow,
       LastRead, Due, SavedDue, SetDue, Holds, Pending, Fits, T!View, T!NoDialog, T!Gone
  <2>3. QED
    BY <2>1, <2>2
<1>5. QED
  BY <1>1, <1>3, <1>4

\* Whatever answers come in whatever order, the rows, calls and dialogs of the
\* pages are what their handlers take them for: the list holds books of the
\* catalog, bookId is one of them, a job is of files with a genre and an age each,
\* a change is of a row.
THEOREM TypeCorrect == Spec => []( /\ open = "books" => L!TypeOK
                                   /\ open = "bulk-import" => I!TypeOK
                                   /\ open = "create" => F!TypeOK
                                   /\ open = "table" => T!TypeOK )
<1> DEFINE Types == /\ open = "books" => L!TypeOK
                    /\ open = "bulk-import" => I!TypeOK
                    /\ open = "create" => F!TypeOK
                    /\ open = "table" => T!TypeOK
<1>1. Init => LibraryPageInv /\ ImportInv /\ FormPageInv /\ TablePageInv
  BY LibraryInit, ImportInit, FormInit, TableTypeInit, TableInit
  DEF Init, LibraryPageInv, ImportInv, FormPageInv, TablePageInv
<1>2. LibraryPageInv /\ ImportInv /\ FormPageInv /\ TablePageInv => Types
  BY DEF LibraryPageInv, ImportInv, FormPageInv, TablePageInv
<1>3. QED
  BY <1>1, <1>2, LibraryPageStep, ImportPageStep, FormPageStep, TablePageStep, PTL DEF Spec

\* submit starts an import only when the form is valid, and resetForm leaves the
\* page without an integration, which only a visit that finds a sole one sets:
\* there is a second job only after a start that failed, however the lists and
\* answers come.
THEOREM VisitsCorrect == Spec => []OneJobPerVisit
<1>1. Init => ImportInv
  BY ImportInit DEF Init, ImportInv
<1>2. ImportInv => OneJobPerVisit
  <2>1. I!TypeOK => jobs \in Nat
    BY ImportConstants DEF I!TypeOK
  <2>2. QED
    BY <2>1 DEF ImportInv, VisitInv, OneJobPerVisit, I!OneJobPerVisit
<1>3. QED
  BY <1>1, <1>2, ImportPageStep, PTL DEF Spec

\* The dialog covers the rows: if no list was on its way when it was opened, the
\* files, genres and ages that submit sends and StartBulkImport resolves are those
\* the owner saw.
THEOREM ImportsCorrect == Spec => []ImportsWhatRowsShow
<1>1. Init => ImportInv
  BY ImportInit DEF Init, ImportInv
<1>2. ImportInv => ImportsWhatRowsShow
  BY DEF ImportInv, AgreedInv, ImportsWhatRowsShow
<1>3. QED
  BY <1>1, <1>2, ImportPageStep, PTL DEF Spec

\* The overlay lets no second POST start before the first is answered, and the
\* answer sets bookId: a form makes one book, and none when it edits, as long as
\* no stray answer has taken the overlay away and no answer was lost.
THEOREM BooksCorrect == Spec => []OneBookPerForm
<1>1. Init => FormPageInv
  BY FormInit DEF Init, FormPageInv
<1>2. ASSUME F!TypeOK, Undoubted PROVE Len(catalog) - route <= 1 - route
  <2>0. route \in 0..1
    BY <1>2 DEF F!TypeOK
  <2>1. Len(catalog) \in {0, 1, route} => Len(catalog) - route <= 1 - route
    BY <2>0
  <2>2. CASE saves = <<>>
    <3>1. bookId \in 0..1 /\ Quiet /\ (route = 1 => Len(catalog) = 1)
      BY <1>2, <2>2 DEF Undoubted
    <3>2. bookId = 0 \/ bookId = 1
      BY <3>1
    <3>3. Len(catalog) \in {0, 1, route}
      BY <3>1, <3>2 DEF Quiet
    <3>4. QED
      BY <2>1, <3>3
  <2>3. CASE saves # <<>>
    <3>1. InFlight(saves[1]) /\ 1 \in 1..Len(saves)
      BY <1>2, <2>3 DEF Undoubted, InFlight
    <3>2. saves[1].kind \in {"post", "put"} /\ saves[1].done \in BOOLEAN
      BY <1>2, <3>1, FormParts DEF F!Save
    <3>3. Len(catalog) = 1 \/ catalog = <<>>
      BY <3>1, <3>2 DEF InFlight
    <3>4. Len(catalog) \in {0, 1, route}
      BY <3>3, EmptySeq
    <3>5. QED
      BY <2>1, <3>4
  <2>4. QED
    BY <2>2, <2>3
<1>3. FormPageInv => OneBookPerForm
  BY <1>2 DEF FormPageInv, FormInv, OneBookPerForm, F!OneBookPerForm, F!Made
<1>4. QED
  BY <1>1, <1>3, FormPageStep, PTL DEF Spec

\* Once the answer to a save is in and no field was changed since, the catalog has,
\* after step 2, what PutBook keeps of all the form shows; after step 1 only what
\* it keeps of the required fields, with the author, ISBN and year of Open Library
\* if the book is new, which the form then shows too.
THEOREM SavesCorrect == Spec => []SavedAsShown
<1>1. Init => FormPageInv
  BY FormInit DEF Init, FormPageInv
<1>2. FormPageInv => SavedAsShown
  <2>1. SUFFICES ASSUME F!TypeOK, FormInv, saves = <<>>
                 PROVE  /\ seen.last = "post" => catalog[bookId] = Found(form.found)
                        /\ seen.last = "put1" => catalog[bookId] = F!KeptOf(F!Required)
                        /\ seen.last = "put2" => catalog[bookId] = F!KeptOf(form)
    BY DEF FormPageInv, SavedAsShown, F!SavedAsShown, Found
  <2>2. CASE seen.doubtful
    BY <2>1, <2>2 DEF FormInv
  <2>3. CASE ~seen.doubtful
    BY <2>1, <2>3 DEF FormInv, Undoubted, Quiet
  <2>4. QED
    BY <2>2, <2>3
<1>3. QED
  BY <1>1, <1>2, FormPageStep, PTL DEF Spec

\* The invariant speaks of each row that is not in stale.  A page that loads the
\* list again has the row as it is saved in the list that comes last, or a change is
\* on its way after which there will be another; one that changes its row holds it
\* as it is saved, or the answer is on its way that will set it.  So once nothing
\* is under way the page shows the row as it is saved.
THEOREM TablesCorrect == Spec => []ShownIsSaved
<1>1. Init => TablePageInv
  BY TableTypeInit, TableInit DEF Init, TablePageInv
<1>2. TablePageInv => ShownIsSaved
  <2>1. SUFFICES ASSUME T!TypeOK, TableInv, listed, loads = <<>>, writes = <<>>,
                        NEW r \in Rows \ stale
                 PROVE  shown[r] = T!View(saved)[r]
    BY DEF TablePageInv, ShownIsSaved, T!ShownIsSaved
  <2>2. saved \in [Rows -> T!Row] /\ RowInv(r) /\ \A j \in DOMAIN writes : FALSE
    BY <2>1, TablesParts DEF TableInv
  <2>3. CASE page \in T!Reloading
    BY <2>1, <2>2, <2>3 DEF RowInv, ReloadRow, Due
  <2>4. CASE page \notin T!Reloading
    <3>1. shown[r] = saved[r]
      BY <2>1, <2>2, <2>4 DEF RowInv, PatchRow, SetDue
    <3>2. page # "users"
      BY <2>4 DEF T!Reloading
    <3>3. QED
      BY <2>2, <3>1, <3>2, ViewType
  <2>5. QED
    BY <2>3, <2>4
<1>3. QED
  BY <1>1, <1>2, TablePageStep, PTL DEF Spec

\* Every book of the first moment stands behind the pages that came until it comes
\* itself, and the page that ends the list in loadBooks reaches the end of what
\* GetBooks sorted: a list that ended holds them all, unless one was taken away
\* or two titles tie.
THEOREM ListComplete == Spec => []NothingIsHidden
<1>1. Init => LibraryPageInv
  BY LibraryInit DEF Init, LibraryPageInv
<1>2. LibraryPageInv => NothingIsHidden
  <2>1. SUFFICES ASSUME open = "books", L!TypeOK, AheadInv, asking = "loaded",
                        ~history.removed, ~L!Tied
                 PROVE  history.start \subseteq L!ToSet(list)
    BY DEF LibraryPageInv, NothingIsHidden, L!NothingIsHidden
  <2>2. QED
    BY <2>1 DEF AheadInv
<1>3. QED
  BY <1>1, <1>2, LibraryPageStep, PTL DEF Spec

\* loadBooks compares the ids of a page with those it has, and filterBooks sorts:
\* however pages repeat books and searches come between them, each book that
\* matches is shown once, and by title if nothing changed meanwhile.
THEOREM ListCorrect == Spec => []ShownOnceInOrder
<1>1. Init => LibraryPageInv
  BY LibraryInit DEF Init, LibraryPageInv
<1>2. LibraryPageInv => ShownOnceInOrder
  <2>1. SUFFICES ASSUME L!TypeOK, ListInv PROVE L!ShownOnceInOrder
    BY DEF LibraryPageInv, ShownOnceInOrder
  <2>2. list \in Seq(Books)
    BY <2>1 DEF L!TypeOK
  <2>3. filteredBooks = L!Shown(list, query) \/ filteredBooks = L!Filtered(list, query)
    BY <2>1 DEF ListInv
  <2>4. \A i, j \in DOMAIN list : list[i] = list[j] => i = j
    BY <2>1 DEF ListInv
  <2>5. /\ L!ToSet(filteredBooks) = {b \in L!ToSet(list) : L!Matches(b, query)}
        /\ \A k, l \in DOMAIN filteredBooks : filteredBooks[k] = filteredBooks[l] => k = l
        /\ L!InTitleOrder(list) => L!InTitleOrder(filteredBooks)
    BY <2>2, <2>3, <2>4, ShownParts, FilteredParts
  <2>6. ~history.added /\ ~history.removed => L!InTitleOrder(list)
    BY <2>1 DEF ListInv
  <2>7. QED
    BY <2>5, <2>6 DEF L!ShownOnceInOrder
<1>3. QED
  BY <1>1, <1>2, LibraryPageStep, PTL DEF Spec

----------------------------------------------------------------------------
(* The viewer                                                              *)

\* Each opening restores a place once.
Counted ==
  /\ \A w \in R!Viewers : chain[w] = "unopened" => told.reopened < w
  /\ mounted # 0 => /\ chain[mounted] # "unopened"
                    /\ \A w \in R!Viewers : chain[w] = "unopened" => mounted < w
                    /\ chain[mounted] # "shown" => told.reopened < mounted

\* The post that is under way is the only one.  It has found the row there is, or
\* none, and what it will write is what was posted last.
RowsInv ==
  ~told.muddled =>
    /\ Len(posts) <= 1
    /\ posts = <<>> => rows = IF told.posted = R!NoPlace THEN <<>> ELSE <<told.posted>>
    /\ posts # <<>> => /\ told.posted = posts[1].place /\ Len(rows) <= 1
                       /\ posts[1].step = "found" => posts[1].row = Len(rows)

\* What is saved, or will be: the start of the book as long as nothing was posted.
Base == IF told.posted = R!NoPlace THEN 0 ELSE told.posted

Drift == IF format = "pdf" THEN 0 ELSE told.reopened

\* A position that has settled is saved, and it is apart from where the reader was
\* by one location at most for each opening since.  So is what is shown.
ReopenInv ==
  /\ told.muddled => told.disturbed
  /\ ~told.disturbed =>
       /\ IF mounted # 0 /\ chain[mounted] = "shown"
          THEN R!Position(at) <= told.mark /\ told.mark <= R!Position(at) + Drift
          ELSE at = 0 /\ ~pending
       /\ ~pending => Base <= told.mark /\ told.mark <= Base + Drift

LEMMA ReaderConstants ==
  ASSUME R!ReaderAssumption
  PROVE  /\ LastPlace \in Nat /\ Openings \in Nat /\ MaxPosts \in Nat
         /\ 0 \in R!Place /\ R!NoPlace \notin R!Place
         /\ \A p \in R!Place : p \in Nat
         /\ \A v \in R!Viewers : v \in Nat /\ v # 0 /\ v <= Openings
BY DEF R!ReaderAssumption, R!Place, R!NoPlace, R!Viewers

LEMMA PositionParts ==
  ASSUME R!ReaderAssumption, NEW p \in R!Place
  PROVE  R!Position(p) \in R!Place /\ R!Position(p) \in Nat /\ R!Position(0) = 0
BY ReaderConstants DEF R!ReaderAssumption, R!Position

LEMMA ToldParts ==
  ASSUME R!ReaderAssumption, NEW h \in R!Seen
  PROVE  /\ h.posted \in R!Place \union {R!NoPlace} /\ h.mark \in R!Place /\ h.mark \in Nat
         /\ h.reopened \in 0..Openings /\ h.reopened \in Nat
         /\ h.muddled \in BOOLEAN /\ h.disturbed \in BOOLEAN
BY ReaderConstants DEF R!Seen

LEMMA DisturbedParts ==
  ASSUME R!ReaderAssumption, NEW h \in R!Seen
  PROVE  /\ R!Disturbed(h) \in R!Seen /\ R!Disturbed(h).disturbed
         /\ R!Disturbed(h).posted = h.posted /\ (R!Disturbed(h).muddled <=> h.muddled)
         /\ R!Disturbed(h).reopened = 0
<1>1. 0 \in R!Place /\ 0 \in 0..Openings
  BY ReaderConstants
<1>2. R!Disturbed(h) \in R!Seen
  BY <1>1 DEF R!Seen, R!Disturbed
<1>3. DOMAIN h = {"posted", "mark", "reopened", "muddled", "disturbed"}
  BY DEF R!Seen
<1>4. QED
  BY <1>2, <1>3 DEF R!Disturbed

LEMMA MuddledParts ==
  ASSUME R!ReaderAssumption, NEW h \in R!Seen
  PROVE  /\ R!Muddled(h) \in R!Seen /\ R!Muddled(h).disturbed /\ R!Muddled(h).muddled
         /\ R!Muddled(h).reopened = 0
<1>1. PICK d : d = R!Disturbed(h)
  OBVIOUS
<1>2. d \in R!Seen /\ d.disturbed /\ d.reopened = 0
  BY <1>1, DisturbedParts
<1>3. R!Muddled(h) = [d EXCEPT !.posted = R!NoPlace, !.muddled = TRUE]
  BY <1>1 DEF R!Muddled
<1>4. QED
  BY <1>2, <1>3 DEF R!Seen

LEMMA DroppedParts ==
  ASSUME R!ReaderAssumption, NEW h \in R!Seen
  PROVE  /\ R!Dropping(h) \in R!Seen /\ R!Dropping(h).posted = h.posted
         /\ (R!Dropping(h).muddled <=> h.muddled)
         /\ R!Dropping(h).reopened <= h.reopened
         /\ IF pending THEN R!Dropping(h).disturbed ELSE R!Dropping(h) = h
BY DisturbedParts, ToldParts DEF R!Dropping, R!If

LEMMA TakenFromPosts ==
  ASSUME NEW s, NEW i
  PROVE  R!RemoveAt(s, i) = F!RemoveAt(s, i)
BY DEF R!RemoveAt, F!RemoveAt

LEMMA ReaderParts ==
  ASSUME R!TypeOK
  PROVE  /\ rows \in Seq(R!Place) /\ posts \in Seq(R!Post)
         /\ Len(posts) \in Nat /\ DOMAIN posts = 1..Len(posts)
         /\ \A i \in 1..Len(posts) : /\ posts[i].step \in {"sent", "found"}
                                     /\ posts[i].place \in R!Place /\ posts[i].row \in Nat
         /\ Len(rows) \in Nat /\ DOMAIN rows = 1..Len(rows)
         /\ \A r \in 1..Len(rows) : rows[r] \in R!Place
<1>1. \A q \in R!Post : q.step \in {"sent", "found"} /\ q.place \in R!Place /\ q.row \in Nat
  BY DEF R!Post
<1>2. QED
  BY <1>1, ElementOfSeq, LenProperties DEF R!TypeOK

----------------------------------------------------------------------------
(* The viewer: the kinds of steps                                          *)

\* A chain goes on or ends, and what the reader sees stays.
Going(v) ==
  /\ chain[v] \notin {"unopened", "shown"}
  /\ \E phase \in R!Phase \ {"unopened", "shown"} : chain' = [chain EXCEPT ![v] = phase]
  /\ UNCHANGED <<format, rows, posts, mounted, at, pending, told>>

\* The viewer goes, whatever chain goes on.
Closed ==
  /\ chain' = chain \/ \E v \in R!Viewers :
       chain[v] # "unopened" /\ chain' = [chain EXCEPT ![v] = "ended"]
  /\ mounted' = 0 /\ at' = 0 /\ pending' = FALSE /\ told' = R!Dropping(told)
  /\ UNCHANGED <<format, rows, posts>>

\* The chain of the viewer on the page ends with the place.
Restoring(v) ==
  /\ v = mounted /\ chain[v] = "progress" /\ chain' = [chain EXCEPT ![v] = "shown"]
  /\ \/ R!ProgressLoaded(v)
     \/ at' \in {at, 0} /\ pending' \in BOOLEAN /\ told' = R!Disturbed(told)
  /\ UNCHANGED <<format, rows, posts, mounted>>

\* A place that is shown and not saved.
Unsaved ==
  /\ UNCHANGED <<format, rows, posts, mounted, chain, at>>
  /\ pending' = FALSE /\ told' = R!Disturbed(told)

ReaderKinds ==
  \/ \E v \in R!Viewers : Going(v) \/ Restoring(v) \/ R!OpenViewer(v)
  \/ Closed
  \/ \E p \in R!Place : R!Turn(p)
  \/ R!Settle \/ Unsaved
  \/ \E i \in DOMAIN posts : R!FindRow(i) \/ R!SaveRow(i) \/ R!LosePost(i)
  \/ UNCHANGED <<format, rows, posts, mounted, chain, at, pending, told>>

LEMMA AnswerKinds ==
  ASSUME R!ReaderAssumption, R!TypeOK, NEW v \in R!Viewers, R!Answer(v) \/ R!Rendered(v)
  PROVE  Going(v) \/ Closed \/ Restoring(v)
<1>1. v # 0
  BY ReaderConstants
<1>2. ASSUME NEW from \in R!Phase \ {"unopened", "shown"},
             NEW phase \in R!Phase \ {"unopened", "shown"}, R!Continue(v, from, phase)
      PROVE  Going(v)
  BY <1>2 DEF R!Continue, R!To, R!server, Going
<1>3. ASSUME chain[v] \notin {"unopened", "shown"}, R!GiveUp(v)
      PROVE  Going(v)
  BY <1>3 DEF R!GiveUp, R!To, R!server, Going, R!Phase
<1>4. ASSUME chain[v] # "unopened", R!GiveUpElsewhere(v)
      PROVE  Closed
  BY <1>4 DEF R!GiveUpElsewhere, R!To, R!Unmount, R!server, Closed
<1>5. CASE R!ProgressLoaded(v)
  <2>1. CASE v = mounted
    BY <1>5, <2>1 DEF R!ProgressLoaded, R!To, R!server, Restoring
  <2>2. CASE v # mounted
    BY <1>5, <2>2 DEF R!ProgressLoaded, R!To, R!server, Going, R!Phase
  <2>3. QED
    BY <2>1, <2>2
<1>6. CASE R!ProgressFails(v)
  <2>1. CASE v = mounted
    <3>1. at' \in {at, 0} /\ pending' \in BOOLEAN /\ told' = R!Disturbed(told)
      <4>1. CASE format = "epub"
        <5>1. at' = 0 /\ pending' = (pending \/ format = "epub" \/ 0 # at)
          BY <1>6, <2>1, <4>1 DEF R!ProgressFails, R!Display
        <5>2. pending' \in BOOLEAN
          BY <5>1, Zenon
        <5>3. QED
          BY <1>6, <2>1, <5>1, <5>2 DEF R!ProgressFails
      <4>2. CASE format # "epub"
        BY <1>6, <2>1, <4>2 DEF R!ProgressFails, R!TypeOK
      <4>3. QED
        BY <4>1, <4>2
    <3>2. QED
      BY <1>6, <2>1, <3>1 DEF R!ProgressFails, R!To, R!server, Restoring
  <2>2. CASE v # mounted
    BY <1>6, <2>2 DEF R!ProgressFails, R!To, R!server, Going, R!Phase
  <2>3. QED
    BY <2>1, <2>2
<1>7. QED
  BY <1>2, <1>3, <1>4, <1>5, <1>6 DEF R!Answer, R!Rendered, R!MetadataLoaded,
     R!MetadataFails, R!BookLoaded, R!BookFails, R!FileLoaded, R!FileFails, R!DocumentOpened, R!DocumentFails,
     R!Phase

LEMMA ReaderSteps ==
  ASSUME R!ReaderAssumption, R!TypeOK, [R!Next]_R!vars
  PROVE  ReaderKinds
<1>1. CASE R!Leave
  <2>1. mounted \in R!Viewers /\ told' = R!Dropping(told)
    BY <1>1 DEF R!Leave, R!TypeOK
  <2>2. chain' = chain \/ (chain[mounted] = "shown" /\ chain' = [chain EXCEPT ![mounted] = "ended"])
    BY <1>1 DEF R!Leave
  <2>3. Closed
    BY <1>1, <2>1, <2>2 DEF R!Leave, R!Unmount, R!server, Closed
  <2>4. QED
    BY <2>3 DEF ReaderKinds
<1>2. CASE R!ListAnswered
  BY <1>2 DEF R!ListAnswered, R!server, R!viewer, ReaderKinds
<1>3. CASE UNCHANGED R!vars
  BY <1>3 DEF R!vars, R!server, R!viewer, R!loading, ReaderKinds
<1>4. CASE R!SettleNowhere
  BY <1>4 DEF R!SettleNowhere, R!server, Unsaved, ReaderKinds
<1>5. QED
  BY <1>1, <1>2, <1>3, <1>4, AnswerKinds DEF R!Next, ReaderKinds

----------------------------------------------------------------------------
(* The viewer: types and openings                                          *)

LEMMA ReaderInit ==
  ASSUME R!ReaderAssumption, R!Init
  PROVE  R!TypeOK /\ Counted /\ RowsInv /\ ReopenInv
<1> USE ReaderConstants
<1>1. \A i \in DOMAIN <<>> : FALSE
  OBVIOUS
<1>2. /\ rows \in Seq(R!Place) /\ posts \in Seq(R!Post) /\ Len(posts) = 0
  BY DEF R!Init
<1>3. told \in R!Seen
  BY DEF R!Init, R!Seen
<1>4. R!TypeOK
  BY <1>2, <1>3 DEF R!Init, R!TypeOK, R!Phase
<1>5. Counted /\ RowsInv /\ ReopenInv
  BY <1>2 DEF R!Init, Counted, RowsInv, ReopenInv, Base, Drift
<1>6. QED
  BY <1>4, <1>5

LEMMA ReaderCountStep ==
  ASSUME R!ReaderAssumption, R!TypeOK, Counted, ReaderKinds
  PROVE  Counted' /\ told'.reopened \in 0..Openings
<1> USE ReaderConstants
<1>0. /\ told \in R!Seen /\ told.reopened \in 0..Openings /\ chain \in [R!Viewers -> R!Phase]
      /\ mounted \in R!Viewers \union {0} /\ Openings \in Nat
  BY ToldParts DEF R!TypeOK
<1>1. ASSUME UNCHANGED <<mounted, chain>>, told'.reopened \in {0, told.reopened}
      PROVE  Counted' /\ told'.reopened \in 0..Openings
  BY <1>0, <1>1 DEF Counted
<1>2. ASSUME NEW v \in R!Viewers, Going(v) PROVE Counted' /\ told'.reopened \in 0..Openings
  BY <1>0, <1>2 DEF Counted, Going
<1>3. ASSUME NEW v \in R!Viewers, Restoring(v) PROVE Counted' /\ told'.reopened \in 0..Openings
  <2>1. told'.reopened \in {0, told.reopened + 1}
    <3>1. CASE told' = R!Disturbed(told)
      BY <1>0, <3>1, DisturbedParts
    <3>2. CASE told' = [told EXCEPT !.reopened = @ + 1]
      BY <1>0, <3>2 DEF R!Seen
    <3>3. QED
      BY <1>3, <3>1, <3>2 DEF Restoring, R!ProgressLoaded, R!If
  <2>2. /\ mounted' = v /\ mounted = v /\ chain' = [chain EXCEPT ![v] = "shown"]
        /\ chain[v] = "progress"
    BY <1>3 DEF Restoring
  <2>3. told.reopened < v /\ \A w \in R!Viewers : chain[w] = "unopened" => v < w
    BY <1>0, <2>2 DEF Counted
  <2>4. told'.reopened \in Nat /\ told'.reopened <= v
    BY <1>0, <2>1, <2>3
  <2>5. \A w \in R!Viewers : chain'[w] = "unopened" => chain[w] = "unopened" /\ w # v
    BY <1>0, <2>2
  <2>6. QED
    BY <1>0, <2>2, <2>3, <2>4, <2>5 DEF Counted
<1>4. ASSUME NEW v \in R!Viewers, R!OpenViewer(v) PROVE Counted' /\ told'.reopened \in 0..Openings
  <2>1. /\ mounted' = v /\ chain' = [chain EXCEPT ![v] = "metadata"] /\ chain[v] = "unopened"
        /\ told' = told /\ \A w \in 1..(v - 1) : chain[w] # "unopened"
    BY <1>4 DEF R!OpenViewer
  <2>2. \A w \in R!Viewers : chain'[w] = "unopened" => chain[w] = "unopened" /\ w # v
    BY <1>0, <2>1
  <2>3. \A w \in R!Viewers : chain[w] = "unopened" /\ w # v => v < w
    BY <2>1 DEF R!Viewers
  <2>4. told.reopened < v /\ \A w \in R!Viewers : chain[w] = "unopened" => told.reopened < w
    BY <2>1 DEF Counted
  <2>5. QED
    BY <1>0, <2>1, <2>2, <2>3, <2>4 DEF Counted
<1>5. CASE Closed
  <2>1. told'.reopened \in 0..Openings /\ told'.reopened <= told.reopened /\ mounted' = 0
    BY <1>0, <1>5, DroppedParts, ToldParts DEF Closed
  <2>2. \A w \in R!Viewers : chain'[w] = "unopened" => chain[w] = "unopened"
    BY <1>0, <1>5 DEF Closed
  <2>3. QED
    BY <1>0, <2>1, <2>2 DEF Counted
<1>6. ASSUME NEW p \in R!Place, R!Turn(p) PROVE Counted' /\ told'.reopened \in 0..Openings
  <2>1. told'.reopened = 0
    <3>1. CASE told' = R!Disturbed(told)
      BY <1>0, <3>1, DisturbedParts
    <3>2. CASE told' = [told EXCEPT !.mark = R!Position(p), !.reopened = 0]
      BY <1>0, <3>2 DEF R!Seen
    <3>3. QED
      BY <1>6, <3>1, <3>2 DEF R!Turn, R!If
  <2>2. QED
    BY <1>1, <1>6, <2>1 DEF R!Turn
<1>7. CASE R!Settle
  <2>1. told'.reopened \in {0, told.reopened}
    <3>1. CASE told' = R!Muddled(told)
      BY <1>0, <3>1, MuddledParts
    <3>2. CASE told' = [told EXCEPT !.posted = R!Position(at)]
      BY <1>0, <3>2 DEF R!Seen
    <3>3. QED
      BY <1>7, <3>1, <3>2 DEF R!Settle, R!SendPost, R!If
  <2>2. QED
    BY <1>1, <1>7, <2>1 DEF R!Settle
<1>8. ASSUME NEW i \in DOMAIN posts, R!FindRow(i) \/ R!SaveRow(i) \/ R!LosePost(i)
      PROVE  Counted' /\ told'.reopened \in 0..Openings
  <2>1. UNCHANGED <<mounted, chain>> /\ told' \in {told, R!Muddled(told)}
    BY <1>8 DEF R!FindRow, R!SaveRow, R!LosePost, R!viewer
  <2>2. told'.reopened \in {0, told.reopened}
    BY <1>0, <2>1, MuddledParts
  <2>3. QED
    BY <1>1, <2>1, <2>2
<1>9. CASE UNCHANGED <<format, rows, posts, mounted, chain, at, pending, told>>
  BY <1>1, <1>9
<1>10. CASE Unsaved
  BY <1>0, <1>1, <1>10, DisturbedParts DEF Unsaved
<1>11. QED
  BY <1>2, <1>3, <1>4, <1>5, <1>6, <1>7, <1>8, <1>9, <1>10 DEF ReaderKinds

LEMMA ReaderLoadingStep ==
  ASSUME R!TypeOK, [R!Next]_R!vars
  PROVE  listing' \in Nat /\ covered' \in BOOLEAN
<1>1. listing \in Nat /\ covered \in BOOLEAN
  BY DEF R!TypeOK
<1>2. ASSUME NEW v \in R!Viewers, R!Answer(v) \/ R!Rendered(v)
      PROVE  listing' \in Nat /\ covered' \in BOOLEAN
  BY <1>1, <1>2 DEF R!Answer, R!Rendered, R!MetadataLoaded, R!MetadataFails, R!BookLoaded, R!BookFails,
     R!FileLoaded, R!FileFails, R!DocumentOpened, R!DocumentFails, R!ProgressLoaded,
     R!ProgressFails, R!Continue, R!GiveUp, R!GiveUpElsewhere, R!Hide, R!loading
<1>3. ASSUME NEW v \in R!Viewers, R!OpenViewer(v) PROVE listing' \in Nat /\ covered' \in BOOLEAN
  BY <1>1, <1>3 DEF R!OpenViewer, R!Show
<1>4. CASE R!Leave \/ R!ListAnswered
  <2>1. listing' = listing + 1 \/ (listing > 0 /\ listing' = listing - 1)
    BY <1>4 DEF R!Leave, R!ListAnswered
  <2>2. covered' \in BOOLEAN
    BY <1>4 DEF R!Leave, R!ListAnswered, R!Show, R!Hide
  <2>3. QED
    BY <1>1, <2>1, <2>2
<1>5. CASE R!Settle \/ (\E p \in R!Place : R!Turn(p)) \/ UNCHANGED R!vars
  BY <1>1, <1>5 DEF R!Settle, R!Turn, R!loading, R!vars
<1>6. CASE \E i \in DOMAIN posts : R!FindRow(i) \/ R!SaveRow(i) \/ R!LosePost(i)
  BY <1>1, <1>6 DEF R!FindRow, R!SaveRow, R!LosePost, R!loading
<1>7. CASE R!SettleNowhere
  BY <1>1, <1>7 DEF R!SettleNowhere, R!Hide
<1>8. QED
  BY <1>2, <1>3, <1>4, <1>5, <1>6, <1>7 DEF R!Next

\* What a position is restored to, and how far it is from what is saved.
LEMMA RestoredParts ==
  ASSUME R!ReaderAssumption, NEW s \in R!Place, NEW p \in R!Restored(s)
  PROVE  /\ p \in R!Place /\ R!Position(p) <= s /\ s <= R!Position(p) + 1
         /\ format = "pdf" => R!Position(p) = s
<1>1. p \in R!Place /\ R!Position(p) \in Nat /\ s \in Nat
  BY PositionParts, ReaderConstants DEF R!Restored
<1>2. R!Position(p) = s \/ (format = "epub" /\ R!Position(p) + 1 = s)
  BY DEF R!Restored
<1>3. QED
  BY <1>1, <1>2

LEMMA RestoringParts ==
  ASSUME R!ReaderAssumption, R!TypeOK, NEW v, Restoring(v)
  PROVE  /\ at' \in R!Place /\ pending' \in BOOLEAN
         /\ told' = R!Disturbed(told) \/
              ( /\ posts = <<>> /\ ~pending /\ ~told.disturbed
                /\ told' = [told EXCEPT !.reopened = @ + 1]
                /\ \E s \in R!SavedPlaces : at' \in R!Restored(s) )
<1>1. CASE R!ProgressLoaded(v)
  <2>1. PICK s \in R!SavedPlaces : \E p \in R!Restored(s) : R!Display(p)
    BY <1>1 DEF R!ProgressLoaded, Restoring
  <2>2. PICK p \in R!Restored(s) : R!Display(p)
    BY <2>1
  <2>3. s \in R!Place
    BY <2>1, ReaderConstants, ReaderParts DEF R!SavedPlaces
  <2>4. at' = p /\ pending' = (pending \/ format = "epub" \/ p # at)
    BY <2>2 DEF R!Display
  <2>5. pending' \in BOOLEAN
    BY <2>4, Zenon
  <2>6. at' \in R!Place
    BY <2>2, <2>3, <2>4, RestoredParts
  <2>7. told' = R!If(posts # <<>> \/ pending \/ told.disturbed, R!Disturbed(told),
                     [told EXCEPT !.reopened = @ + 1])
    BY <1>1 DEF R!ProgressLoaded, Restoring
  <2>8. QED
    BY <2>1, <2>2, <2>4, <2>5, <2>6, <2>7 DEF R!If
<1>2. CASE at' \in {at, 0} /\ pending' \in BOOLEAN /\ told' = R!Disturbed(told)
  BY <1>2, ReaderConstants DEF R!TypeOK
<1>3. QED
  BY <1>1, <1>2 DEF Restoring

\* A post more, and what the history says of it.
LEMMA SettleParts ==
  ASSUME R!ReaderAssumption, R!TypeOK, R!Settle
  PROVE  /\ pending /\ ~pending' /\ UNCHANGED <<format, rows, mounted, chain, at>>
         /\ posts' \in Seq(R!Post)
         /\ posts = <<>> => /\ Len(posts') = 1 /\ posts' # <<>>
                            /\ posts'[1].place = R!Position(at) /\ posts'[1].step = "sent"
         /\ IF posts # <<>> \/ told.muddled THEN told' = R!Muddled(told)
            ELSE told' = [told EXCEPT !.posted = R!Position(at)]
<1> USE ReaderParts
<1>1. PICK q : q = [step |-> "sent", place |-> R!Position(at), row |-> 0]
  OBVIOUS
<1>2. q \in R!Post /\ q.place = R!Position(at) /\ q.step = "sent"
  <2>1. R!Position(at) \in R!Place
    BY PositionParts DEF R!TypeOK
  <2>2. QED
    BY <1>1, <2>1 DEF R!Post
<1>3. posts' = Append(posts, q)
  BY <1>1 DEF R!Settle, R!SendPost
<1>4. posts' \in Seq(R!Post) /\ Len(posts') = Len(posts) + 1 /\ posts'[Len(posts) + 1] = q
  BY <1>2, <1>3, AppendProperties
<1>5. posts = <<>> => Len(posts') = 1 /\ posts'[1] = q /\ posts' # <<>>
  <2>1. posts = <<>> => Len(posts) = 0
    BY EmptySeq
  <2>2. posts' = <<>> => Len(posts') = 0
    BY EmptySeq
  <2>3. QED
    BY <1>4, <2>1, <2>2
<1>6. QED
  BY <1>2, <1>4, <1>5 DEF R!Settle, R!SendPost, R!If

\* The history of a step is a history.
LEMMA ToldStep ==
  ASSUME R!ReaderAssumption, R!TypeOK, Counted, ReaderKinds
  PROVE  told' \in R!Seen
<1>0. told \in R!Seen /\ told'.reopened \in 0..Openings /\ R!Position(at) \in R!Place
  BY ReaderCountStep, PositionParts DEF R!TypeOK
<1>1. CASE told' \in {told, R!Disturbed(told), R!Muddled(told), R!Dropping(told)}
  BY <1>0, <1>1, DisturbedParts, MuddledParts, DroppedParts
<1>2. CASE told' = [told EXCEPT !.reopened = @ + 1]
  BY <1>0, <1>2 DEF R!Seen
<1>3. ASSUME NEW p \in R!Place, told' = [told EXCEPT !.mark = p, !.reopened = 0]
      PROVE  told' \in R!Seen
  BY <1>0, <1>3, ReaderConstants DEF R!Seen
<1>4. CASE told' = [told EXCEPT !.posted = R!Position(at)]
  BY <1>0, <1>4 DEF R!Seen
<1>5. ASSUME NEW p \in R!Place, R!Turn(p) PROVE told' \in R!Seen
  BY <1>1, <1>3, <1>5, PositionParts DEF R!Turn, R!If
<1>6. CASE R!Settle
  BY <1>1, <1>4, <1>6, SettleParts
<1>7. ASSUME NEW v, Restoring(v) PROVE told' \in R!Seen
  BY <1>1, <1>2, <1>7, RestoringParts
<1>8. ASSUME NEW i, R!FindRow(i) \/ R!SaveRow(i) \/ R!LosePost(i) PROVE told' \in R!Seen
  BY <1>1, <1>8 DEF R!FindRow, R!SaveRow, R!LosePost
<1>9. ASSUME NEW v, Going(v) \/ R!OpenViewer(v) PROVE told' \in R!Seen
  BY <1>1, <1>9 DEF Going, R!OpenViewer
<1>10. CASE Closed
  BY <1>1, <1>10 DEF Closed
<1>11. CASE told' = told \/ Unsaved
  BY <1>1, <1>11 DEF Unsaved
<1>12. QED
  BY <1>5, <1>6, <1>7, <1>8, <1>9, <1>10, <1>11 DEF ReaderKinds

\* The post that is looked for, written or lost.
LEMMA PostsStep ==
  ASSUME R!ReaderAssumption, R!TypeOK, NEW i \in DOMAIN posts,
         R!FindRow(i) \/ R!SaveRow(i) \/ R!LosePost(i)
  PROVE  /\ rows' \in Seq(R!Place) /\ posts' \in Seq(R!Post)
<1> USE ReaderParts
<1>1. CASE R!FindRow(i)
  <2>1. PICK r \in R!FirstRow : posts' = [posts EXCEPT ![i].step = "found", ![i].row = r]
    BY <1>1 DEF R!FindRow
  <2>2. PICK q : q = [posts[i] EXCEPT !.step = "found", !.row = r]
    OBVIOUS
  <2>3. r \in Nat
    BY <2>1 DEF R!FirstRow
  <2>4. q \in R!Post
    <3>1. posts[i] \in R!Post
      BY ElementOfSeq
    <3>2. QED
      BY <2>2, <2>3, <3>1 DEF R!Post
  <2>5. posts' = [posts EXCEPT ![i] = q]
    BY <2>1, <2>2
  <2>6. posts' \in Seq(R!Post) /\ rows' = rows
    BY <1>1, <2>4, <2>5, ExceptSeq DEF R!FindRow
  <2>7. QED
    BY <2>6
<1>2. CASE R!SaveRow(i) \/ R!LosePost(i)
  <2>1. posts' = R!RemoveAt(posts, i)
    BY <1>2 DEF R!SaveRow, R!LosePost
  <2>2. posts' \in Seq(R!Post)
    BY <2>1, TakenFromPosts, TakenOut
  <2>3. rows' \in Seq(R!Place)
    <3>1. CASE rows' = rows
      BY <3>1
    <3>2. CASE rows' = Append(rows, posts[i].place)
      BY <3>2, AppendProperties
    <3>3. CASE rows' = [rows EXCEPT ![posts[i].row] = posts[i].place]
      <4>1. rows \in [1..Len(rows) -> R!Place] /\ posts[i].place \in R!Place
        BY LenProperties
      <4>2. rows' \in [1..Len(rows) -> R!Place]
        BY <3>3, <4>1
      <4>3. QED
        BY <4>2, IsSeq
    <3>4. QED
      BY <1>2, <3>1, <3>2, <3>3 DEF R!SaveRow, R!LosePost
  <2>4. QED
    BY <2>2, <2>3
<1>3. QED
  BY <1>1, <1>2

LEMMA ReaderTypeStep ==
  ASSUME R!ReaderAssumption, R!TypeOK, Counted, [R!Next]_R!vars
  PROVE  R!TypeOK'
<1>0. ReaderKinds /\ listing' \in Nat /\ covered' \in BOOLEAN /\ told' \in R!Seen
  BY ReaderSteps, ReaderLoadingStep, ToldStep
<1>a. /\ format \in {"pdf", "epub"} /\ rows \in Seq(R!Place) /\ posts \in Seq(R!Post)
      /\ mounted \in R!Viewers \union {0} /\ chain \in [R!Viewers -> R!Phase]
      /\ at \in R!Place /\ pending \in BOOLEAN /\ 0 \in R!Place
  BY ReaderConstants DEF R!TypeOK
<1> DEFINE Shape == /\ format' \in {"pdf", "epub"} /\ rows' \in Seq(R!Place)
                    /\ posts' \in Seq(R!Post)
                    /\ mounted' \in R!Viewers \union {0} /\ chain' \in [R!Viewers -> R!Phase]
                    /\ at' \in R!Place /\ pending' \in BOOLEAN
<1>1. ASSUME NEW v \in R!Viewers, Going(v) PROVE Shape
  BY <1>a, <1>1 DEF Going
<1>2. ASSUME NEW v \in R!Viewers, Restoring(v) PROVE Shape
  <2>1. at' \in R!Place /\ pending' \in BOOLEAN
    BY <1>2, RestoringParts
  <2>2. QED
    BY <1>a, <1>2, <2>1 DEF Restoring, R!Phase
<1>3. ASSUME NEW v \in R!Viewers, R!OpenViewer(v) PROVE Shape
  BY <1>a, <1>3 DEF R!OpenViewer, R!server, R!Phase
<1>4. ASSUME Closed PROVE Shape
  <2>1. /\ UNCHANGED <<format, rows, posts>> /\ mounted' = 0 /\ at' = 0 /\ pending' \in BOOLEAN
    BY <1>4 DEF Closed
  <2>2. chain' \in [R!Viewers -> R!Phase]
    BY <1>a, <1>4 DEF Closed, R!Phase
  <2>3. QED
    BY <1>a, <2>1, <2>2
<1>5. ASSUME NEW p \in R!Place, R!Turn(p) PROVE Shape
  BY <1>a, <1>5 DEF R!Turn, R!server
<1>6. ASSUME R!Settle PROVE Shape
  <2>1. UNCHANGED <<format, rows, mounted, chain, at>> /\ pending' \in BOOLEAN
    BY <1>6 DEF R!Settle
  <2>2. QED
    BY <1>a, <1>6, <2>1, SettleParts
<1>7. ASSUME NEW i \in DOMAIN posts, R!FindRow(i) \/ R!SaveRow(i) \/ R!LosePost(i) PROVE Shape
  <2>1. UNCHANGED <<format, mounted, chain, at, pending>>
    BY <1>7 DEF R!FindRow, R!SaveRow, R!LosePost, R!viewer
  <2>2. QED
    BY <1>a, <1>7, <2>1, PostsStep
<1>8. ASSUME UNCHANGED <<format, rows, posts, mounted, chain, at, pending, told>> PROVE Shape
  <2>1. UNCHANGED <<format, rows, posts, mounted, chain, at, pending>>
    BY <1>8
  <2>2. QED
    BY <1>a, <2>1
<1>9. ASSUME Unsaved PROVE Shape
  BY <1>a, <1>9 DEF Unsaved
<1>10. Shape
  BY <1>0, <1>1, <1>2, <1>3, <1>4, <1>5, <1>6, <1>7, <1>8, <1>9 DEF ReaderKinds
<1>11. QED
  BY <1>0, <1>10 DEF R!TypeOK

----------------------------------------------------------------------------
(* The viewer: what is saved, and where it reopens                         *)

LEMMA ReaderRowsStep ==
  ASSUME R!ReaderAssumption, R!TypeOK, RowsInv, ReaderKinds
  PROVE  RowsInv'
<1> USE ReaderParts
<1>0. told \in R!Seen /\ R!Position(at) \in R!Place /\ R!NoPlace \notin R!Place
  BY ReaderConstants, PositionParts DEF R!TypeOK
<1>1. ASSUME UNCHANGED <<rows, posts>>, told'.posted = told.posted, told'.muddled <=> told.muddled
      PROVE  RowsInv'
  BY <1>1 DEF RowsInv
<1>2. ASSUME NEW v \in R!Viewers, Going(v) \/ R!OpenViewer(v) PROVE RowsInv'
  BY <1>1, <1>2 DEF Going, R!OpenViewer, R!server
<1>3. ASSUME NEW v \in R!Viewers, Restoring(v) PROVE RowsInv'
  <2>1. CASE told' = R!Disturbed(told)
    BY <1>0, <1>1, <1>3, <2>1, DisturbedParts DEF Restoring
  <2>2. CASE told' = [told EXCEPT !.reopened = @ + 1]
    <3>1. told'.posted = told.posted /\ (told'.muddled <=> told.muddled)
      BY <1>0, <2>2 DEF R!Seen
    <3>2. QED
      BY <1>1, <1>3, <3>1 DEF Restoring
  <2>3. QED
    BY <1>3, <2>1, <2>2, RestoringParts
<1>4. CASE Closed
  BY <1>0, <1>1, <1>4, DroppedParts DEF Closed
<1>5. ASSUME NEW p \in R!Place, R!Turn(p) PROVE RowsInv'
  <2>1. UNCHANGED <<rows, posts>>
    BY <1>5 DEF R!Turn, R!server
  <2>2. CASE told' = R!Disturbed(told)
    BY <1>0, <1>1, <2>1, <2>2, DisturbedParts
  <2>3. CASE told' = [told EXCEPT !.mark = R!Position(p), !.reopened = 0]
    <3>1. told'.posted = told.posted /\ (told'.muddled <=> told.muddled)
      BY <1>0, <2>3 DEF R!Seen
    <3>2. QED
      BY <1>1, <2>1, <3>1
  <2>4. QED
    BY <1>5, <2>2, <2>3 DEF R!Turn, R!If
<1>6. ASSUME R!Settle PROVE RowsInv'
  <2>1. CASE posts # <<>> \/ told.muddled
    BY <1>0, <1>6, <2>1, SettleParts, MuddledParts DEF RowsInv
  <2>2. CASE posts = <<>> /\ ~told.muddled
    <3>1. /\ Len(posts') = 1 /\ posts' # <<>> /\ posts'[1].place = R!Position(at) /\ posts'[1].step = "sent"
          /\ rows' = rows /\ told' = [told EXCEPT !.posted = R!Position(at)]
      BY <1>6, <2>2, SettleParts
    <3>2. told'.posted = R!Position(at)
      BY <1>0, <3>1 DEF R!Seen
    <3>3. rows = <<>> \/ rows = <<told.posted>>
      BY <2>2 DEF RowsInv
    <3>4. Len(rows) <= 1
      BY <3>3
    <3>5. QED
      BY <3>1, <3>2, <3>4 DEF RowsInv
  <2>3. QED
    BY <2>1, <2>2
<1>7. ASSUME NEW i \in DOMAIN posts, R!FindRow(i) PROVE RowsInv'
  <2>1. SUFFICES ASSUME ~told.muddled PROVE RowsInv'
    BY <1>7 DEF RowsInv, R!FindRow
  <2>2. posts # <<>>
    BY EmptySeq
  <2>3. /\ i = 1 /\ Len(posts) = 1 /\ told.posted = posts[1].place /\ Len(rows) <= 1
    BY <2>1, <2>2 DEF RowsInv
  <2>4. PICK r \in R!FirstRow : posts' = [posts EXCEPT ![1].step = "found", ![1].row = r]
    BY <1>7, <2>3 DEF R!FindRow
  <2>5. r = Len(rows)
    <3>1. CASE rows = <<>>
      BY <2>4, <3>1 DEF R!FirstRow
    <3>2. CASE rows # <<>>
      BY <2>3, <2>4, <3>2 DEF R!FirstRow
    <3>3. QED
      BY <3>1, <3>2
  <2>6. PICK q : q = [posts[1] EXCEPT !.step = "found", !.row = r]
    OBVIOUS
  <2>7. q \in R!Post /\ q.place = posts[1].place /\ q.row = r
    <3>1. posts[1] \in R!Post /\ r \in Nat
      BY <2>3, <2>5, ElementOfSeq
    <3>2. QED
      BY <2>6, <3>1 DEF R!Post
  <2>8. posts' = [posts EXCEPT ![1] = q]
    BY <2>4, <2>6
  <2>9. Len(posts') = 1 /\ posts'[1] = q /\ posts' # <<>>
    BY <2>2, <2>3, <2>7, <2>8, ExceptSeq, EmptySeq
  <2>10. rows' = rows /\ told' = told
    BY <1>7 DEF R!FindRow
  <2>11. QED
    BY <2>1, <2>3, <2>5, <2>7, <2>9, <2>10 DEF RowsInv
<1>8. ASSUME NEW i \in DOMAIN posts, R!SaveRow(i) PROVE RowsInv'
  <2>1. SUFFICES ASSUME ~told.muddled PROVE RowsInv'
    BY <1>8 DEF RowsInv, R!SaveRow
  <2>2. posts # <<>>
    BY EmptySeq
  <2>3. /\ i = 1 /\ Len(posts) = 1 /\ told.posted = posts[1].place /\ Len(rows) <= 1
        /\ posts[1].row = Len(rows)
    BY <1>8, <2>1, <2>2 DEF RowsInv, R!SaveRow
  <2>4. posts' = <<>> /\ told' = told
    <3>1. posts' = F!RemoveAt(posts, 1)
      BY <1>8, <2>3, TakenFromPosts DEF R!SaveRow
    <3>2. QED
      BY <1>8, <2>3, <3>1, TakenOut DEF R!SaveRow
  <2>5. told.posted \in R!Place /\ told.posted # R!NoPlace
    BY <1>0, <2>3
  <2>6. rows' = <<told.posted>>
    <3>1. CASE Len(rows) = 0
      <4>1. rows = <<>> /\ rows' = Append(rows, told.posted)
        BY <1>8, <2>3, <3>1, EmptySeq DEF R!SaveRow
      <4>2. QED
        BY <4>1
    <3>2. CASE Len(rows) = 1
      <4>1. rows' = [rows EXCEPT ![1] = told.posted]
        BY <1>8, <2>3, <3>2 DEF R!SaveRow
      <4>2. rows \in [1..1 -> R!Place]
        BY <3>2, LenProperties
      <4>3. rows' \in [1..1 -> R!Place] /\ rows'[1] = told.posted
        <5>1. 1 \in 1..1
          OBVIOUS
        <5>2. QED
          BY <2>5, <4>1, <4>2, <5>1, Zenon
      <4>4. <<told.posted>> \in [1..1 -> R!Place] /\ <<told.posted>>[1] = told.posted
        BY <2>5
      <4>5. QED
        BY <4>3, <4>4
    <3>3. QED
      BY <2>3, <3>1, <3>2
  <2>7. QED
    BY <2>4, <2>5, <2>6 DEF RowsInv
<1>9. ASSUME NEW i \in DOMAIN posts, R!LosePost(i) PROVE RowsInv'
  BY <1>0, <1>9, MuddledParts DEF R!LosePost, RowsInv
<1>10. ASSUME UNCHANGED <<format, rows, posts, mounted, chain, at, pending, told>> PROVE RowsInv'
  BY <1>1, <1>10
<1>11. CASE Unsaved
  BY <1>0, <1>1, <1>11, DisturbedParts DEF Unsaved
<1>12. QED
  BY <1>2, <1>3, <1>4, <1>5, <1>6, <1>7, <1>8, <1>9, <1>10, <1>11 DEF ReaderKinds

LEMMA DriftsOn ==
  ASSUME NEW a \in Nat, NEW b \in Nat, NEW m \in Nat, NEW d \in Nat,
         a <= b, b <= a + 1, b <= m, m <= b + d
  PROVE  a <= m /\ m <= a + (d + 1) /\ m <= b + (d + 1)
OBVIOUS

LEMMA ReopenStep ==
  ASSUME R!ReaderAssumption, R!TypeOK, RowsInv, ReopenInv, ReaderKinds
  PROVE  ReopenInv'
<1>0. /\ told \in R!Seen /\ at \in R!Place /\ at \in Nat /\ R!NoPlace \notin R!Place
      /\ told.mark \in Nat /\ told.reopened \in Nat /\ mounted \in R!Viewers \union {0}
      /\ chain \in [R!Viewers -> R!Phase] /\ 0 \notin R!Viewers
  BY ReaderConstants, ToldParts DEF R!TypeOK
<1>p. R!Position(at) \in Nat /\ R!Position(at) \in R!Place
  BY <1>0, PositionParts
<1>a. Base \in Nat
  BY <1>0, ReaderConstants, ToldParts DEF Base
<1>1. ASSUME told'.disturbed PROVE ReopenInv'
  BY <1>1 DEF ReopenInv
<1>2. ASSUME NEW v \in R!Viewers, Going(v) PROVE ReopenInv'
  <2>1. /\ UNCHANGED <<format, mounted, at, pending, told>>
        /\ (mounted' # 0 /\ chain'[mounted'] = "shown") <=> (mounted # 0 /\ chain[mounted] = "shown")
    BY <1>0, <1>2 DEF Going
  <2>2. QED
    BY <2>1 DEF ReopenInv, Base, Drift, R!Position
<1>3. ASSUME NEW v \in R!Viewers, R!OpenViewer(v) PROVE ReopenInv'
  <2>1. /\ UNCHANGED <<format, told>> /\ mounted = 0 /\ mounted' = v /\ at' = 0 /\ ~pending'
        /\ chain'[v] = "metadata"
    BY <1>0, <1>3 DEF R!OpenViewer
  <2>2. QED
    BY <2>1 DEF ReopenInv, Base, Drift
<1>4. ASSUME Closed PROVE ReopenInv'
  <2>1. /\ format' = format /\ mounted' = 0 /\ at' = 0 /\ ~pending' /\ told' = R!Dropping(told)
    BY <1>4 DEF Closed
  <2>2. CASE pending
    BY <1>0, <1>1, <2>1, <2>2, DroppedParts
  <2>3. CASE ~pending
    <3>1. told' = told
      BY <1>0, <2>1, <2>3, DroppedParts
    <3>2. QED
      BY <2>1, <2>3, <3>1 DEF ReopenInv, Base, Drift
  <2>4. QED
    BY <2>2, <2>3
<1>5. ASSUME NEW p \in R!Place, R!Turn(p) PROVE ReopenInv'
  <2>1. CASE told' = R!Disturbed(told)
    BY <1>0, <1>1, <2>1, DisturbedParts
  <2>2. CASE /\ told' = [told EXCEPT !.mark = R!Position(p), !.reopened = 0]
             /\ chain[mounted] = "shown" /\ ~told.disturbed
    <3>1. /\ told'.mark = R!Position(p) /\ told'.reopened = 0
          /\ (told'.muddled <=> told.muddled) /\ R!Position(p) \in Nat /\ ~told.muddled
      BY <1>0, <2>2, PositionParts DEF R!Seen, ReopenInv
    <3>2. mounted' # 0 /\ chain'[mounted'] = "shown" /\ at' = p /\ pending' /\ format' = format
      BY <1>5, <2>2 DEF R!Turn, R!Readable
    <3>3. Drift' = 0 /\ R!Position(at)' = R!Position(p)
      BY <3>1, <3>2 DEF Drift, R!Position
    <3>4. QED
      BY <3>1, <3>2, <3>3 DEF ReopenInv
  <2>3. QED
    BY <1>5, <2>1, <2>2 DEF R!Turn, R!If
<1>6. ASSUME R!Settle PROVE ReopenInv'
  <2>1. pending /\ ~pending' /\ UNCHANGED <<format, rows, mounted, chain, at>>
    BY <1>6, SettleParts
  <2>2. CASE told' = R!Muddled(told)
    BY <1>0, <1>1, <2>2, MuddledParts
  <2>3. CASE told' = [told EXCEPT !.posted = R!Position(at)]
    <3>1. /\ told'.posted = R!Position(at) /\ told'.mark = told.mark /\ told'.reopened = told.reopened
          /\ (told'.muddled <=> told.muddled) /\ (told'.disturbed <=> told.disturbed)
      BY <1>0, <2>3 DEF R!Seen
    <3>2. R!Position(at) # R!NoPlace /\ R!NoPlace' = R!NoPlace
      BY <1>0, <1>p DEF R!NoPlace
    <3>3. Base' = R!Position(at) /\ Drift' = Drift /\ R!Position(at)' = R!Position(at)
      BY <2>1, <3>1, <3>2 DEF Base, Drift, R!Position
    <3>4. QED
      BY <2>1, <3>1, <3>3 DEF ReopenInv
  <2>4. QED
    BY <1>6, <2>2, <2>3, SettleParts
<1>7. ASSUME NEW v \in R!Viewers, Restoring(v) PROVE ReopenInv'
  <2>1. CASE told' = R!Disturbed(told)
    BY <1>0, <1>1, <2>1, DisturbedParts
  <2>2. ASSUME posts = <<>>, ~pending, ~told.disturbed, told' = [told EXCEPT !.reopened = @ + 1],
               NEW s \in R!SavedPlaces, at' \in R!Restored(s)
        PROVE  ReopenInv'
    <3>1. ~told.muddled
      BY <2>2 DEF ReopenInv
    <3>2. s = Base
      <4>1. rows = IF told.posted = R!NoPlace THEN <<>> ELSE <<told.posted>>
        BY <2>2, <3>1 DEF RowsInv
      <4>2. QED
        BY <2>2, <4>1 DEF R!SavedPlaces, Base
    <3>3. Base \in R!Place
      BY <1>0, ReaderConstants, ToldParts DEF Base
    <3> DEFINE Now == R!Position(at')
    <3>4. /\ Now \in Nat /\ Now <= Base /\ Base <= Now + 1
          /\ format = "pdf" => Now = Base
      BY <2>2, <3>2, <3>3, RestoredParts, PositionParts
    <3>5. /\ told'.posted = told.posted /\ told'.mark = told.mark
          /\ told'.reopened = told.reopened + 1
          /\ (told'.muddled <=> told.muddled) /\ (told'.disturbed <=> told.disturbed)
      BY <1>0, <2>2 DEF R!Seen
    <3>6. mounted' # 0 /\ chain'[mounted'] = "shown" /\ format' = format
      BY <1>0, <1>7 DEF Restoring
    <3> HIDE DEF Now
    <3>7. Base' = Base
      BY <3>5 DEF Base
    <3>8. IF format = "pdf" THEN Drift = 0 /\ Drift' = 0
          ELSE Drift = told.reopened /\ Drift' = told.reopened + 1
      BY <3>5, <3>6 DEF Drift
    <3>9. Base <= told.mark /\ told.mark <= Base + Drift
      BY <2>2 DEF ReopenInv
    <3>10. Now <= told.mark /\ told.mark <= Now + Drift' /\ told.mark <= Base + Drift'
      <4>1. CASE format = "pdf"
        BY <1>0, <1>a, <3>4, <3>8, <3>9, <4>1
      <4>2. CASE format # "pdf"
        <5>1. Drift = told.reopened /\ Drift' = told.reopened + 1 /\ told.reopened \in Nat
          BY <1>0, <3>8, <4>2
        <5>2. /\ Now <= told.mark /\ told.mark <= Now + (told.reopened + 1)
              /\ told.mark <= Base + (told.reopened + 1)
          BY <1>0, <1>a, <3>4, <3>9, <5>1, DriftsOn
        <5>3. QED
          BY <5>1, <5>2
      <4>3. QED
        BY <4>1, <4>2
    <3>11. R!Position(at)' = Now
      BY <3>6 DEF R!Position, Now
    <3>12. QED
      BY <3>1, <3>5, <3>6, <3>7, <3>9, <3>10, <3>11 DEF ReopenInv
  <2>3. QED
    BY <1>7, <2>1, <2>2, RestoringParts
<1>8. ASSUME NEW i \in DOMAIN posts, R!FindRow(i) \/ R!SaveRow(i) PROVE ReopenInv'
  <2>1. UNCHANGED <<format, mounted, chain, at, pending, told>>
    BY <1>8 DEF R!FindRow, R!SaveRow, R!viewer
  <2>2. QED
    BY <2>1 DEF ReopenInv, Base, Drift, R!Position
<1>9. ASSUME NEW i \in DOMAIN posts, R!LosePost(i) PROVE ReopenInv'
  BY <1>0, <1>1, <1>9, MuddledParts DEF R!LosePost
<1>10. ASSUME UNCHANGED <<format, rows, posts, mounted, chain, at, pending, told>> PROVE ReopenInv'
  BY <1>10 DEF ReopenInv, Base, Drift, R!Position
<1>11. ASSUME Unsaved PROVE ReopenInv'
  BY <1>0, <1>1, <1>11, DisturbedParts DEF Unsaved
<1>12. QED
  BY <1>2, <1>3, <1>4, <1>5, <1>6, <1>7, <1>8, <1>9, <1>10, <1>11 DEF ReaderKinds

LEMMA ReaderStep ==
  ASSUME R!ReaderAssumption
  PROVE  R!TypeOK /\ Counted /\ RowsInv /\ ReopenInv /\ [R!Next]_R!vars
           => R!TypeOK' /\ Counted' /\ RowsInv' /\ ReopenInv'
BY ReaderSteps, ReaderTypeStep, ReaderCountStep, ReaderRowsStep, ReopenStep

\* The viewer's chain, posts and history are what its handlers take them for: no
\* more places are restored than there were openings, whichever calls fail and
\* whatever goes on after the viewer was left.
THEOREM ReaderTypeCorrect == ViewerSpec => []R!TypeOK
<1>1. R!Init => R!TypeOK /\ Counted /\ RowsInv /\ ReopenInv
  BY ReaderInit, ViewerAssumption
<1>2. QED
  BY <1>1, ReaderStep, ViewerAssumption, PTL DEF ViewerSpec, R!Spec

\* UpdateReadingProgress looks for the row and writes it in two steps: as long as
\* one post is answered before the next is sent, there is one row, with the place
\* posted last.
THEOREM RowsCorrect == ViewerSpec => []QuietSavesLast
<1>1. R!Init => R!TypeOK /\ Counted /\ RowsInv /\ ReopenInv
  BY ReaderInit, ViewerAssumption
<1>2. RowsInv => QuietSavesLast
  BY DEF QuietSavesLast, RowsInv, R!QuietSavesLast
<1>3. QED
  BY <1>1, <1>2, ReaderStep, ViewerAssumption, PTL DEF ViewerSpec, R!Spec

\* Posting the position that was restored feeds the rounding of an EPUB's location
\* back, one location for each opening and no more, however many pages a location
\* has; a PDF reopens at the very place.
THEOREM ReopensCorrect == ViewerSpec => []ReopensWhereLeft
<1>1. R!Init => R!TypeOK /\ Counted /\ RowsInv /\ ReopenInv
  BY ReaderInit, ViewerAssumption
<1>2. ReopenInv => ReopensWhereLeft
  BY DEF ReopensWhereLeft, ReopenInv, R!ReopensWhereLeft, Drift
<1>3. QED
  BY <1>1, <1>2, ReaderStep, ViewerAssumption, PTL DEF ViewerSpec, R!Spec
=============================================================================
