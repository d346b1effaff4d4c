------------------------------- MODULE Viewer -------------------------------
(***************************************************************************)
(* The reader of a book (Reader) under names that do not meet those of the *)
(* pages, so that one module can extend both.                              *)
(***************************************************************************)
EXTENDS Naturals, Sequences

CONSTANTS LastPlace, LocationOf, Openings, MaxPosts

VARIABLES
  format, rows, posts, mounted, chain, listing, at, pending,
  covered,      \* overlay
  told          \* seen

R == INSTANCE Reader WITH overlay <- covered, seen <- told

ASSUME ViewerAssumption == R!ReaderAssumption

ViewerSpec == R!Spec

(***************************************************************************)
(* UpdateReadingProgress leaves one row with the place posted last when    *)
(* nothing is under way, unless posts raced or were lost.                  *)
(***************************************************************************)
QuietSavesLast == R!QuietSavesLast

(***************************************************************************)
(* The viewer restores the position a book was left at: exactly for a PDF, *)
(* at most a location earlier per opening for an EPUB, whose rounded       *)
(* position is posted back; unless posts or positions crossed.             *)
(***************************************************************************)
ReopensWhereLeft == R!ReopensWhereLeft

(***************************************************************************)
(* The overlay of GlobalLoadingService goes away, whichever call of the    *)
(* viewer's chain fails, unless its document gets neither ready nor fails. *)
(***************************************************************************)
OverlayEnds == R!OverlayEnds
=============================================================================
