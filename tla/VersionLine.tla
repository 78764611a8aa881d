---------------------------- MODULE VersionLine ----------------------------
(***************************************************************************)
(* What the journal of a PDF document promises: a line of versions and a   *)
(* place on it.  Undo and redo move one step and change no version.  Only  *)
(* an edit changes the line: it forgets the versions that were undone, and *)
(* never one that lies behind.                                             *)
(***************************************************************************)
EXTENDS Sequences, Naturals

CONSTANT Versions

VARIABLES
    line,  \* the versions, oldest first
    at     \* the place of the present one

vars == <<line, at>>

Init == at = 1 /\ line \in [{1} -> Versions]

\* The line is what is given and one more version.
Grown(s) ==
    /\ Len(line') = Len(s) + 1
    /\ SubSeq(line', 1, Len(s)) = s
    /\ line'[Len(s) + 1] \in Versions

\* A named operation adds a version.
Edit == at' = at + 1 /\ Grown(SubSeq(line, 1, at))

\* A consequence of the last operation becomes part of it.
Amend == at' = at /\ Grown(SubSeq(line, 1, at - 1))

\* An operation has begun to change something; it may still be abandoned.
Forget == at' = at /\ line' = SubSeq(line, 1, at)

Undo == at > 1 /\ at' = at - 1 /\ UNCHANGED line

Redo == at < Len(line) /\ at' = at + 1 /\ UNCHANGED line

\* The history ends here, the version stays.
Reset == at' = 1 /\ line' = <<line[at]>>

Next == Forget \/ Undo \/ Redo \/ Amend \/ Edit \/ Reset

Spec == Init /\ [][Next]_vars
=============================================================================
