--------------------------- MODULE MCWorkstation ---------------------------
(* Instances of Workstation for TLC. *)
EXTENDS Workstation, TLC

CONSTANTS report, plan

\* Documents differ in nothing but their path.
AnyDocs == Permutations(Docs)

Editing == {"undo", "recognise", "generate"}
Lifecycle == {"autosave", "close", "restore", "editContent", "turnPage"}
Saves == {"save"}
Accepting == {"save", "recognise"}
PageTurns == {"turnPage"}
Acceptances == {"recognise"}
Restores == {"close", "restore"}
=============================================================================
