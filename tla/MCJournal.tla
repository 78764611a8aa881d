----------------------------- MODULE MCJournal -----------------------------
(***************************************************************************)
(* Journal for TLC: a file with an increment of its own, in which object 1 *)
(* was defined anew, and one number for an object to be added.             *)
(***************************************************************************)
EXTENDS Journal

CONSTANTS a, b

MCFile ==
    LET n(v) == [type |-> "n", obj |-> v]
    IN  <<<<n(a), Blank, Blank>>, <<n(b), n(a), Blank>>>>
=============================================================================
