------------------------------ MODULE Library ------------------------------
(***************************************************************************)
(* The list of books.  The page asks for one page of the catalog after     *)
(* another while others add and take away books, and a search narrows what *)
(* has come so far.  CatalogService sorts by title and cuts a page out of  *)
(* the books of that moment: the pages of one list need not fit together.  *)
(***************************************************************************)
EXTENDS Naturals, Sequences, FiniteSets, SequencesExt

CONSTANTS
  Books,        \* the books there are or will be
  Title,        \* the place of each book's title in the alphabet
  PageSize      \* pageSize (20 in the code)

LibraryAssumption ==
  /\ IsFiniteSet(Books) /\ Title \in [Books -> Nat \ {0}]
  /\ PageSize \in Nat \ {0}

VARIABLES
  available,    \* the books this reader may see now
  list,         \* books: what the pages have brought
  filteredBooks, \* what is shown
  query,        \* searchQuery: a title, NoQuery when it is empty
  nextPage,     \* page: the one to ask for
  asking,       \* a call, the timer, or how the listing ended
  history       \* for the properties: available at first, what happened since

vars == <<available, list, filteredBooks, query, nextPage, asking, history>>

NoQuery == 0

Titles == {Title[b] : b \in Books}

Asking == {"call", "timer", "loaded", "failed"}

InTitleOrder(s) == \A i, j \in DOMAIN s : i < j => Title[s[i]] <= Title[s[j]]

TypeOK ==
  /\ available \subseteq Books
  /\ list \in Seq(Books) /\ filteredBooks \in Seq(Books)
  /\ query \in Titles \union {NoQuery}
  /\ nextPage \in Nat \ {0} /\ asking \in Asking
  /\ history \in [start : SUBSET Books, added : BOOLEAN, removed : BOOLEAN]

Init ==
  /\ available \in SUBSET Books
  /\ list = <<>> /\ filteredBooks = <<>> /\ query = NoQuery
  /\ nextPage = 1 /\ asking = "call"
  /\ history = [start |-> available, added |-> FALSE, removed |-> FALSE]

----------------------------------------------------------------------------
(* What the page shows of what it has                                      *)

\* The query is matched anywhere in a title, an author, a series or a genre;
\* an empty one matches every book.
Matches(b, q) == q = NoQuery \/ Title[b] = q

\* sort keeps the books of one title in the order they have.
SortedBefore(s, i, j) ==
  Title[s[i]] < Title[s[j]] \/ (Title[s[i]] = Title[s[j]] /\ i <= j)

Place(s, kept, i) == Cardinality({j \in kept : SortedBefore(s, j, i)})

\* The books at some places of s, sorted by title.
Sorted(s, kept) ==
  [k \in 1..Cardinality(kept) |-> s[CHOOSE i \in kept : Place(s, kept, i) = k]]

Filtered(s, q) == Sorted(s, {i \in DOMAIN s : Matches(s[i], q)})

\* The books as they came while nobody searches.
Shown(s, q) == IF q = NoQuery THEN s ELSE Filtered(s, q)

----------------------------------------------------------------------------
(* Paging                                                                  *)

\* ORDER BY Title leaves books of one title in any order.
Orders == {s \in SetToSeqs(available) : InTitleOrder(s)}

\* Skip, then Take.
PageOf(order) ==
  LET size == Len(order)
      last == nextPage * PageSize
  IN  SubSeq(order, last - PageSize + 1, IF last < size THEN last ELSE size)

\* getBooks sorts the page, loadBooks leaves out what it has.
NewBooks(results) == Sorted(results, {i \in DOMAIN results : results[i] \notin ToSet(list)})

\* Mutant: the books of a page are not compared with those that came before.
AnswerAppended ==
  /\ asking = "call"
  /\ \E order \in Orders :
       LET results == PageOf(order)
       IN  /\ list' = list \o results
           /\ filteredBooks' = IF results = <<>> THEN filteredBooks ELSE Shown(list', query)
           /\ nextPage' = IF results = <<>> THEN nextPage ELSE nextPage + 1
           /\ asking' = IF Len(results) < PageSize THEN "loaded" ELSE "timer"
  /\ UNCHANGED <<available, query, history>>

\* Mutant: only a page that is not full ends the list; an empty one does not.
AnswerNeverEmpty ==
  /\ asking = "call"
  /\ \E order \in Orders :
       LET results == PageOf(order)
       IN  /\ list' = list \o NewBooks(results)
           /\ filteredBooks' = IF results = <<>> THEN filteredBooks ELSE Shown(list', query)
           /\ nextPage' = IF results = <<>> THEN nextPage ELSE nextPage + 1
           /\ asking' = IF results # <<>> /\ Len(results) < PageSize
                        THEN "loaded" ELSE "timer"
  /\ UNCHANGED <<available, query, history>>

\* Mutant: the list is taken to be complete with its first page.
AnswerEndsEarly ==
  /\ asking = "call"
  /\ \E order \in Orders :
       /\ list' = list \o NewBooks(PageOf(order))
       /\ filteredBooks' = Shown(list', query)
  /\ asking' = "loaded" /\ nextPage' = nextPage + 1
  /\ UNCHANGED <<available, query, history>>

\* The answer to loadBooks.  A page that is empty or not full ends the list.
PageAnswered ==
  /\ asking = "call"
  /\ \E order \in Orders :
       LET results == PageOf(order)
       IN  /\ list' = list \o NewBooks(results)
           /\ filteredBooks' = IF results = <<>> THEN filteredBooks ELSE Shown(list', query)
           /\ nextPage' = IF results = <<>> THEN nextPage ELSE nextPage + 1
           /\ asking' = IF Len(results) < PageSize THEN "loaded" ELSE "timer"
  /\ UNCHANGED <<available, query, history>>

\* Nothing asks again.
PageFails ==
  /\ asking = "call" /\ asking' = "failed"
  /\ UNCHANGED <<available, list, filteredBooks, query, nextPage, history>>

NextPage ==
  /\ asking = "timer" /\ asking' = "call"
  /\ UNCHANGED <<available, list, filteredBooks, query, nextPage, history>>

Search(q) ==
  /\ query' = q /\ filteredBooks' = Filtered(list, q)
  /\ UNCHANGED <<available, list, nextPage, asking, history>>

----------------------------------------------------------------------------
(* Meanwhile                                                               *)

\* An owner adds a book, or support gives a restricted one back.
AddBook(b) ==
  /\ b \notin available /\ available' = available \union {b}
  /\ history' = [history EXCEPT !.added = TRUE]
  /\ UNCHANGED <<list, filteredBooks, query, nextPage, asking>>

\* A book is deleted, restricted, or put into an older age category.
RemoveBook(b) ==
  /\ b \in available /\ available' = available \ {b}
  /\ history' = [history EXCEPT !.removed = TRUE]
  /\ UNCHANGED <<list, filteredBooks, query, nextPage, asking>>

Next ==
  \/ PageAnswered \/ PageFails \/ NextPage
  \/ \E q \in Titles \union {NoQuery} : Search(q)
  \/ \E b \in Books : AddBook(b) \/ RemoveBook(b)

\* Every call is answered or fails, and timers run.
Fairness == WF_vars(PageAnswered \/ PageFails) /\ WF_vars(NextPage)

Spec == Init /\ [][Next]_vars /\ Fairness

----------------------------------------------------------------------------
(* Properties                                                              *)

Tied == \E a, b \in available : a # b /\ Title[a] = Title[b]

\* A list that ended without an error holds every book there was when it
\* began: books added while the pages come only push the others back, so a
\* later page still meets them.  It fails if a book goes away in between, and
\* if two titles tie (loadBooks and the Skip and Take of GetBooks).
NothingIsHidden ==
  asking = "loaded" /\ ~history.removed /\ ~Tied => history.start \subseteq ToSet(list)

\* However pages overlap and searches change while they come, each book is
\* shown once, exactly the books that match are shown, and by title if
\* nothing was added or removed (the comparison of ids in loadBooks, and
\* filterBooks).
ShownOnceInOrder ==
  /\ \A i, j \in DOMAIN filteredBooks : filteredBooks[i] = filteredBooks[j] => i = j
  /\ ToSet(filteredBooks) = {b \in ToSet(list) : Matches(b, query)}
  /\ ~history.added /\ ~history.removed => InTitleOrder(filteredBooks)

\* The paging ends, whatever is added and removed: page numbers only grow.
ListingEnds == <>[](asking \in {"loaded", "failed"})
=============================================================================
