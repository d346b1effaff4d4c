--------------------------- MODULE BookFilesClaims ---------------------------
(* What the refusal of CatalogService says of a restricted book.            *)
EXTENDS BookFiles

\* "Book '...' is restricted and its file cannot be changed." (BookController.cs:404):
\* while a book is restricted, its file row is not retired.
RestrictedKeepsItsFile ==
  [][book.restricted /\ book'.restricted /\ book.file \in Active
       => files'[book.file].active]_vars
=============================================================================
