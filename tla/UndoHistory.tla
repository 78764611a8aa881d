---------------------------- MODULE UndoHistory ----------------------------
(***************************************************************************)
(* What undo and redo promise for one document: a line of versions with a  *)
(* present on it.  Editing adds a version and forgets the ones undone;     *)
(* undo and redo move along the line and never invent or reorder versions. *)
(* Old versions may be forgotten, and a version that is moved away from    *)
(* may be lost, but never one that was still ahead or behind.              *)
(***************************************************************************)
EXTENDS Sequences, Naturals

CONSTANT Versions

VARIABLES past, present, future

vars == <<past, present, future>>

\* Forgetting the oldest versions of a line.
Suffixes(s) == {SubSeq(s, k, Len(s)) : k \in 1 .. Len(s) + 1}

Init == past = <<>> /\ future = <<>> /\ present \in Versions

Edit ==
    /\ present' \in Versions
    /\ past' \in Suffixes(Append(past, present))
    /\ future' = <<>>

Undo ==
    /\ past # <<>>
    /\ present' = past[Len(past)]
    /\ past' = SubSeq(past, 1, Len(past) - 1)
    /\ future' \in {<<present>> \o future, future}

Redo ==
    /\ future # <<>>
    /\ present' = Head(future)
    /\ future' = Tail(future)
    /\ past' \in Suffixes(Append(past, present)) \cup {past}

\* The document changes without the history taking part.
Outside == present' \in Versions /\ UNCHANGED <<past, future>>

\* The document is opened or closed.
Reset == present' \in Versions /\ past' = <<>> /\ future' = <<>>

Next == Edit \/ Undo \/ Redo \/ Outside \/ Reset

Spec == Init /\ [][Next]_vars
=============================================================================
