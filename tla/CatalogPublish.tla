--------------------------- MODULE CatalogPublish ---------------------------
(***************************************************************************)
(* What the catalog sync promises to GET /api/books: searches read one     *)
(* whole version of the catalog, and a switch replaces it by another       *)
(* whole version of a later edition that keeps most of its books.          *)
(***************************************************************************)
EXTENDS Integers

CONSTANTS Sha, NoSha, Size, MinExpectedBooks

VARIABLES
  view,     \* the rows the *_active views return, and their version
  edition   \* which publication they come from

Whole(s) == [sha |-> s, books |-> 1 .. Size[s], contribs |-> 1 .. Size[s]]

Nothing == [sha |-> NoSha, books |-> {}, contribs |-> {}]

Init == view = Nothing /\ edition = 0

Retains(s) == view.sha # NoSha => 10 * Size[s] >= 8 * Size[view.sha]

Publish(s) ==
  /\ Size[s] >= MinExpectedBooks
  /\ Retains(s)
  /\ view' = Whole(s)
  /\ edition' > edition

Next == \E s \in Sha : Publish(s)

Spec == Init /\ [][Next]_<<view, edition>>
=============================================================================
