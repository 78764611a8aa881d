------------------------- MODULE MCDocumentSession -------------------------
(* Instances of DocumentSession for TLC. *)
EXTENDS DocumentSession

CONSTANTS a, b

\* A document of two pages, one of one page, an empty one, and no file.
Mixed == {<<a, b>>, <<a>>, <<>>, NoDoc}

\* The request beyond the last page comes from a view that is out of date.
TwoAndBeyond == 0 .. 2
=============================================================================
