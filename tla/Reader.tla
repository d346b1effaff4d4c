------------------------------- MODULE Reader -------------------------------
(***************************************************************************)
(* One account reads one book: the viewer's chain of calls, the overlay    *)
(* that every page of the client shares, and the reading position that     *)
(* FileService keeps.  Nothing cancels the chain of a viewer that has been *)
(* left, and positions are posted without waiting for one another.         *)
(*                                                                         *)
(* A place is a page of the book as it is displayed; 0 is its start.  The  *)
(* viewer saves the position of a PDF as that of its scroll bar, and that  *)
(* of an EPUB as one of the locations it divides the text into, 1600       *)
(* characters each, of which several pages may share one.                  *)
(***************************************************************************)
EXTENDS Naturals, Sequences, SequencesExt

CONSTANTS
  LastPlace,    \* the places are 0..LastPlace
  LocationOf,   \* the location of an EPUB that the page at a place starts in
  Openings,     \* bound on how often a viewer is opened
  MaxPosts      \* bound on the posts that are under way at once

Place == 0..LastPlace

\* Locations are numbered among those that a page starts in.
ReaderAssumption ==
  /\ {LastPlace, Openings, MaxPosts} \subseteq Nat
  /\ LocationOf \in [Place -> Place] /\ LocationOf[0] = 0
  /\ \A p \in 1..LastPlace : LocationOf[p] \in {LocationOf[p - 1], LocationOf[p - 1] + 1}

NoPlace == LastPlace + 1

VARIABLES
  format,       \* fileType: "pdf" or "epub"
  rows,         \* the ReadingProgress rows of the account for the file
  posts,        \* the posts under way, in FileService or on their way there
  mounted,      \* the viewer on the page that is open, 0 when it has none
  chain,        \* how far each viewer has come with loading
  listing,      \* book lists that have not been answered
  at,           \* the place the viewer on the page shows
  pending,      \* a scroll waits for its debounce, or a relocation is coming
  overlay,      \* GlobalLoadingService._isVisible
  seen          \* history, for the properties only

server == <<rows, posts>>
viewer == <<mounted, chain, at, pending>>
loading == <<listing, overlay>>
vars == <<format, server, viewer, loading, seen>>

Viewers == 1..Openings

Phase == {"unopened", "metadata", "book", "file", "document", "progress",
          "shown", "ended"}

\* What the viewer saves of place p, as a percentage.
Position(p) == IF format = "pdf" THEN p ELSE LocationOf[p]

Post == [step : {"sent", "found"}, place : Place, row : Nat]

\* posted: the position posted last.  mark: the one the reader turned to last.
\* reopened: how often it has been restored since.  muddled: a post was lost,
\* or two were under way at once.  disturbed: a position was restored or left
\* before it had settled.  What no longer counts is forgotten.
Seen == [posted : Place \union {NoPlace}, mark : Place, reopened : 0..Openings,
         muddled : BOOLEAN, disturbed : BOOLEAN]

Disturbed(h) == [h EXCEPT !.mark = 0, !.reopened = 0, !.disturbed = TRUE]

Muddled(h) == [Disturbed(h) EXCEPT !.posted = NoPlace, !.muddled = TRUE]

If(condition, h, g) == IF condition THEN h ELSE g

TypeOK ==
  /\ format \in {"pdf", "epub"}
  /\ rows \in Seq(Place) /\ posts \in Seq(Post)
  /\ mounted \in Viewers \union {0}
  /\ chain \in [Viewers -> Phase]
  /\ at \in Place /\ pending \in BOOLEAN
  /\ listing \in Nat /\ overlay \in BOOLEAN
  /\ seen \in Seen

Init ==
  /\ format \in {"pdf", "epub"}
  /\ rows = <<>> /\ posts = <<>>
  /\ mounted = 0 /\ chain = [v \in Viewers |-> "unopened"]
  /\ at = 0 /\ pending = FALSE
  /\ listing = 1 /\ overlay = TRUE
  /\ seen = [posted |-> NoPlace, mark |-> 0, reopened |-> 0,
             muddled |-> FALSE, disturbed |-> FALSE]

----------------------------------------------------------------------------
(* The overlay: one flag for all pages                                     *)

Show == overlay' = TRUE

Hide == overlay' = FALSE

----------------------------------------------------------------------------
(* Positions are posted; FileService looks for the row, then writes        *)

\* The viewer posts position p.
SendPost(p) ==
  /\ Len(posts) < MaxPosts
  /\ posts' = Append(posts, [step |-> "sent", place |-> p, row |-> 0])
  /\ seen' = If(posts # <<>> \/ seen.muddled, Muddled(seen), [seen EXCEPT !.posted = p])

\* FirstOrDefault: any of the rows, 0 when there is none.
FirstRow == IF rows = <<>> THEN {0} ELSE DOMAIN rows

FindRow(i) ==
  /\ posts[i].step = "sent"
  /\ \E r \in FirstRow : posts' = [posts EXCEPT ![i].step = "found", ![i].row = r]
  /\ UNCHANGED <<format, rows, viewer, loading, seen>>

\* Mutant: always a new row.
SaveNewRow(i) ==
  /\ posts[i].step = "found"
  /\ rows' = Append(rows, posts[i].place)
  /\ posts' = RemoveAt(posts, i)
  /\ UNCHANGED <<format, viewer, loading, seen>>

SaveRow(i) ==
  /\ posts[i].step = "found"
  /\ rows' = IF posts[i].row = 0 THEN Append(rows, posts[i].place)
             ELSE [rows EXCEPT ![posts[i].row] = posts[i].place]
  /\ posts' = RemoveAt(posts, i)
  /\ UNCHANGED <<format, viewer, loading, seen>>

\* The viewer only logs the error.
LosePost(i) ==
  /\ posts' = RemoveAt(posts, i)
  /\ seen' = Muddled(seen)
  /\ UNCHANGED <<format, rows, viewer, loading>>

----------------------------------------------------------------------------
(* Opening and leaving                                                     *)

Unmount == mounted' = 0 /\ at' = 0 /\ pending' = FALSE

\* A scroll that waits for its debounce goes with the viewer.
Dropping(h) == If(pending, Disturbed(h), h)

OpenViewer(v) ==
  /\ mounted = 0
  /\ chain[v] = "unopened" /\ \A w \in 1..(v - 1) : chain[w] # "unopened"
  /\ mounted' = v /\ at' = 0 /\ pending' = FALSE
  /\ chain' = [chain EXCEPT ![v] = "metadata"]
  /\ Show
  /\ UNCHANGED <<format, server, listing, seen>>

\* To the list of the books, with the menu or the browser.
Leave ==
  /\ mounted # 0
  /\ Unmount
  /\ chain' = IF chain[mounted] = "shown" THEN [chain EXCEPT ![mounted] = "ended"]
              ELSE chain
  /\ listing' = listing + 1
  /\ Show
  /\ seen' = Dropping(seen)
  /\ UNCHANGED <<format, server>>

\* Its answer, or its failure.
ListAnswered ==
  /\ listing > 0 /\ listing' = listing - 1
  /\ Hide
  /\ UNCHANGED <<format, server, viewer, seen>>

----------------------------------------------------------------------------
(* The chain of viewer v, whether or not it is still on the page           *)

To(v, phase) == chain' = [chain EXCEPT ![v] = phase]

\* The chain goes on to its next call.
Continue(v, from, phase) ==
  /\ chain[v] = from /\ To(v, phase)
  /\ UNCHANGED <<format, server, mounted, at, pending, loading, seen>>

\* It gives up, and sends the tab elsewhere, whatever page that shows by now.
GiveUpElsewhere(v) ==
  /\ To(v, "ended") /\ Unmount /\ Hide
  /\ seen' = Dropping(seen)
  /\ UNCHANGED <<format, server, listing>>

\* It gives up where it is.
GiveUp(v) ==
  /\ To(v, "ended") /\ Hide
  /\ UNCHANGED <<format, server, mounted, at, pending, listing, seen>>

MetadataLoaded(v) == Continue(v, "metadata", "book")

MetadataFails(v) == chain[v] = "metadata" /\ GiveUpElsewhere(v)

BookLoaded(v) == Continue(v, "book", "file")

\* Or it is restricted, and the page is not the reviewers'.
BookFails(v) == chain[v] = "book" /\ GiveUpElsewhere(v)

FileLoaded(v) == Continue(v, "file", "document")

\* Mutant: the overlay stays.
FileFailsSilently(v) ==
  /\ chain[v] = "file" /\ To(v, "ended")
  /\ UNCHANGED <<format, server, mounted, at, pending, loading, seen>>

FileFails(v) == chain[v] = "file" /\ GiveUp(v)

\* 'pagesinit' of the PDF, or the locations of the EPUB.
DocumentOpened(v) == Continue(v, "document", "progress")

DocumentFails(v) == chain[v] = "document" /\ GiveUp(v)

\* Mutant: the percentage is divided before it is multiplied, in integers.
RestoredAtStart(place) == {0}

\* A PDF is scrolled to the percentage.  In an EPUB a page of the location is
\* displayed, or of the one before, which Math.floor of a product of doubles
\* may come to.
Restored(place) ==
  {p \in Place : \/ Position(p) = place
                 \/ format = "epub" /\ Position(p) + 1 = place}

SavedPlaces == IF rows = <<>> THEN {0} ELSE {rows[r] : r \in DOMAIN rows}

\* The viewer shows place p: a scroll, or a relocation, follows.
Display(p) ==
  /\ at' = p
  /\ pending' = (pending \/ format = "epub" \/ p # at)

ProgressLoaded(v) ==
  /\ chain[v] = "progress" /\ Hide
  /\ To(v, IF v = mounted THEN "shown" ELSE "ended")
  /\ IF v = mounted
     THEN /\ \E saved \in SavedPlaces : \E p \in Restored(saved) : Display(p)
          /\ seen' = If(posts # <<>> \/ pending \/ seen.disturbed, Disturbed(seen),
                         [seen EXCEPT !.reopened = @ + 1])
     ELSE UNCHANGED <<at, pending, seen>>
  /\ UNCHANGED <<format, server, mounted, listing>>

\* The PDF stays where it is; the EPUB is displayed from its start.
ProgressFails(v) ==
  /\ chain[v] = "progress" /\ Hide
  /\ To(v, IF v = mounted THEN "shown" ELSE "ended")
  /\ IF v = mounted
     THEN /\ IF format = "epub" THEN Display(0) ELSE UNCHANGED <<at, pending>>
          /\ seen' = Disturbed(seen)
     ELSE UNCHANGED <<at, pending, seen>>
  /\ UNCHANGED <<format, server, mounted, listing>>

----------------------------------------------------------------------------
(* Reading                                                                 *)

\* The pages of a PDF are there before its position is.
Readable ==
  /\ mounted # 0 /\ ~ overlay
  /\ \/ chain[mounted] = "shown"
     \/ chain[mounted] = "progress" /\ format = "pdf"

\* The reader scrolls, or turns one page when the last one is displayed.
Turn(p) ==
  /\ Readable /\ p \in Place \ {at}
  /\ format = "epub" => ~ pending /\ p \in {at - 1, at + 1}
  /\ at' = p /\ pending' = TRUE
  /\ seen' = If(chain[mounted] # "shown" \/ seen.disturbed, Disturbed(seen),
                [seen EXCEPT !.mark = Position(p), !.reopened = 0])
  /\ UNCHANGED <<format, server, mounted, chain, loading>>

\* 200 ms without a scroll, or 'relocated'.
Settle ==
  /\ pending /\ pending' = FALSE
  /\ SendPost(Position(at))
  /\ UNCHANGED <<format, rows, mounted, chain, at, loading>>

\* 'relocated', and the EPUB has no location for it.
SettleNowhere ==
  /\ format = "epub" /\ pending /\ pending' = FALSE
  /\ Hide
  /\ seen' = Disturbed(seen)
  /\ UNCHANGED <<format, server, mounted, chain, at, listing>>

----------------------------------------------------------------------------

\* An answer of a service.
Answer(v) ==
  \/ MetadataLoaded(v) \/ MetadataFails(v)
  \/ BookLoaded(v) \/ BookFails(v)
  \/ FileLoaded(v) \/ FileFails(v)
  \/ ProgressLoaded(v) \/ ProgressFails(v)

\* What pdf.js or epub.js make of the file.
Rendered(v) == DocumentOpened(v) \/ DocumentFails(v)

Next ==
  \/ \E v \in Viewers : Answer(v) \/ Rendered(v)
  \/ \E v \in Viewers : OpenViewer(v)
  \/ Leave \/ ListAnswered
  \/ \E p \in Place : Turn(p)
  \/ Settle \/ SettleNowhere
  \/ \E i \in DOMAIN posts : FindRow(i) \/ SaveRow(i) \/ LosePost(i)

\* Every call of a service is answered, well or badly; no document has to get
\* ready or fail (a broken one may do neither), nobody has to open a book or
\* turn a page, and no post has to arrive.
Spec ==
  /\ Init /\ [][Next]_vars
  /\ \A v \in Viewers : WF_vars(Answer(v))
  /\ WF_vars(ListAnswered)

----------------------------------------------------------------------------
(* Properties                                                              *)

(***************************************************************************)
(* UpdateReadingProgress finds or makes the row: when nothing is under     *)
(* way, no post was lost and no two were under way at once, the account    *)
(* has exactly one row for the file, with the place posted last.           *)
(***************************************************************************)
QuietSavesLast ==
  posts = <<>> /\ ~ seen.muddled =>
    rows = IF seen.posted = NoPlace THEN <<>> ELSE <<seen.posted>>

(***************************************************************************)
(* A book reopens where it was left: a PDF at that place, an EPUB in that  *)
(* location or one earlier for each time it was opened since - posting     *)
(* what was restored feeds the rounding back - unless posts raced or were  *)
(* lost, or a position was restored or left before it had settled.         *)
(***************************************************************************)
ReopensWhereLeft ==
  /\ mounted # 0 /\ chain[mounted] = "shown"
  /\ ~ seen.muddled /\ ~ seen.disturbed
  => /\ Position(at) <= seen.mark
     /\ seen.mark <= Position(at) + (IF format = "pdf" THEN 0 ELSE seen.reopened)

(***************************************************************************)
(* The overlay, which covers every page, goes away, whichever call of the  *)
(* chain fails and whatever page the reader has gone to meanwhile; but not *)
(* as long as the viewer on the page waits for its document.               *)
(***************************************************************************)
OverlayEnds ==
  overlay ~> \/ ~ overlay
             \/ mounted # 0 /\ chain[mounted] = "document"
=============================================================================
