-------------------------- MODULE IncrementalSave --------------------------
(***************************************************************************)
(* The file replacement behind Save and Save As (incremental_save of       *)
(* MuPdfEngine), behind the project sidecars and the shell's library (the  *)
(* two atomic_write, called a registry here) and behind doc_export.  The   *)
(* new file is written beside the target, the old target is renamed to a   *)
(* backup, the new file is renamed to the target and the backup is         *)
(* removed; an export reads its file back twice and may withdraw it.  Each *)
(* file-system call is one step, may fail on its own, and the process may  *)
(* die or the machine lose power between any two of them.                  *)
(*                                                                         *)
(* One path is modelled, with its temporary and its backup.  The content   *)
(* of a file is the number of the save that wrote it: 1 is the file found  *)
(* at start, if there is one, and the n-th save writes version n + 1.      *)
(* Directory operations are ordered and survive a power loss; file data    *)
(* survive it once synced.                                                 *)
(***************************************************************************)
EXTENDS Naturals

CONSTANTS
    MaxSaves,     \* bound on the number of saves
    Writers,      \* who writes the path: a document, a registry, an export
    FsyncModes,   \* the values of request.fsync that callers use
    PowerLoss     \* whether the machine may lose power

ASSUME MaxSavesAssumption == MaxSaves \in Nat
ASSUME ModesAssumption == FsyncModes \subseteq BOOLEAN /\ PowerLoss \in BOOLEAN

ASSUME WritersAssumption == Writers \subseteq {"document", "registry", "export"}

VARIABLES
    writer,             \* who writes this path
    target, tmp, bak,   \* the three files
    pc,                 \* the next file-system call of the save under way
    ver,                \* the version being saved, or last saved
    fsync,              \* request.fsync
    targetExisted,      \* the local target_existed
    result,             \* how the last save returned
    acked               \* the last version reported as saved

files == <<target, tmp, bak>>
vars == <<writer, target, tmp, bak, pc, ver, fsync, targetExisted, result, acked>>

NoFile == [v |-> 0, st |-> "absent"]
\* Only a save of a document is asked whether to sync.
Modes == IF writer = "document" THEN FsyncModes ELSE {TRUE}

Contents == {NoFile} \cup [v : Nat, st : {"partial", "written", "synced"}]

\* Types, and whose the backup is: a save touches it only if it found a target
\* that it had to move there.
TypeOK ==
    /\ writer \in Writers
    /\ target \in Contents /\ tmp \in Contents /\ bak \in Contents
    /\ pc \in {"idle", "create", "write", "sync", "dropBak", "stage",
               "commit", "rollback", "cleanup", "discard",
               "validate", "reopen", "withdraw", "restore"}
    /\ ver \in Nat \ {0}
    /\ fsync \in BOOLEAN
    /\ targetExisted \in BOOLEAN
    /\ result \in {"none", "ok", "err"}
    /\ acked \in Nat
    /\ pc \in {"dropBak", "stage", "rollback", "cleanup", "restore"} => targetExisted

Exists(f) == f # NoFile

Init ==
    /\ writer \in Writers
    /\ target \in {NoFile, [v |-> 1, st |-> "synced"]}
    /\ tmp = NoFile /\ bak = NoFile
    /\ pc = "idle" /\ ver = 1
    /\ fsync \in Modes
    /\ targetExisted = FALSE
    /\ result = "none"
    /\ acked = 0

-----------------------------------------------------------------------------
\* Leaving the function with Ok or with an error.
Return(r) ==
    /\ pc' = "idle"
    /\ result' = r
    /\ acked' = IF r = "ok" THEN ver ELSE acked
    /\ UNCHANGED <<writer, ver, fsync, targetExisted>>

Goto(l) ==
    /\ pc' = l
    /\ UNCHANGED <<writer, ver, fsync, targetExisted, result, acked>>

\* The error of a call is returned; all but a save of a document remove the
\* temporary first, an export not when the old target cannot be moved.
Fail == IF writer = "document" THEN Return("err") ELSE Goto("discard")

FailStaging == IF writer = "export" THEN Return("err") ELSE Fail

\* The temporary is complete: look at what is there and start replacing.
StartReplacing ==
    /\ targetExisted' = Exists(target)
    /\ pc' = IF ~Exists(target) THEN "commit"
             ELSE IF Exists(bak) THEN "dropBak" ELSE "stage"
    /\ UNCHANGED <<writer, ver, fsync, result, acked>>

Begin ==
    /\ pc = "idle" /\ ver <= MaxSaves
    /\ ver' = ver + 1
    /\ fsync' \in Modes
    /\ pc' = "create"
    /\ result' = "none"
    /\ UNCHANGED <<writer, target, tmp, bak, targetExisted, acked>>

\* File::create truncates a temporary that an interrupted save left behind; a
\* registry takes a new name each time, and the one left behind stays.
CreateTmp ==
    /\ pc = "create"
    /\ \/ tmp' = [v |-> ver, st |-> "partial"] /\ Goto("write")
       \/ UNCHANGED tmp /\ Fail
    /\ UNCHANGED <<target, bak>>

\* Mutant: the temporary is never synced.
WriteTmpUnsynced ==
    /\ pc = "write"
    /\ \/ tmp' = [tmp EXCEPT !.st = "written"] /\ StartReplacing
       \/ UNCHANGED tmp /\ Fail
    /\ UNCHANGED <<target, bak>>

WriteTmp ==
    /\ pc = "write"
    /\ \/ /\ tmp' = [tmp EXCEPT !.st = "written"]
          /\ IF fsync THEN Goto("sync") ELSE StartReplacing
       \/ UNCHANGED tmp /\ Fail
    /\ UNCHANGED <<target, bak>>

SyncTmp ==
    /\ pc = "sync"
    /\ \/ /\ tmp' = [tmp EXCEPT !.st = "synced"]
          /\ IF writer = "export" THEN Goto("validate") ELSE StartReplacing
       \/ UNCHANGED tmp /\ Fail
    /\ UNCHANGED <<target, bak>>

\* validate_output_file on the temporary.
Validate ==
    /\ pc = "validate"
    /\ StartReplacing \/ Fail
    /\ UNCHANGED files

DropBak ==
    /\ pc = "dropBak"
    /\ \/ bak' = NoFile /\ Goto("stage")
       \/ UNCHANGED bak /\ FailStaging
    /\ UNCHANGED <<target, tmp>>

\* Mutant: the old target is removed, not renamed.
StageByRemoval ==
    /\ pc = "stage"
    /\ \/ target' = NoFile /\ Goto("commit")
       \/ UNCHANGED target /\ FailStaging
    /\ UNCHANGED <<tmp, bak>>

Stage ==
    /\ pc = "stage"
    /\ \/ bak' = target /\ target' = NoFile /\ Goto("commit")
       \/ UNCHANGED <<target, bak>> /\ FailStaging
    /\ UNCHANGED tmp

\* The new file is in place: the backup goes, if there is one.
Finish == IF targetExisted /\ Exists(bak) THEN Goto("cleanup") ELSE Return("ok")

\* Mutant: any backup is moved back, one of an interrupted save included.
CommitMovingAnyBack ==
    /\ pc = "commit"
    /\ \/ /\ target' = tmp /\ tmp' = NoFile
          /\ IF writer = "export" THEN Goto("reopen") ELSE Finish
       \/ /\ UNCHANGED <<target, tmp>>
          /\ IF Exists(bak) THEN Goto("rollback") ELSE Fail
    /\ UNCHANGED bak

\* When the rename fails an existing target is moved back, or the save ends.
Commit ==
    /\ pc = "commit"
    /\ \/ /\ target' = tmp /\ tmp' = NoFile
          /\ IF writer = "export" THEN Goto("reopen") ELSE Finish
       \/ /\ UNCHANGED <<target, tmp>>
          /\ IF targetExisted /\ Exists(bak) THEN Goto("rollback") ELSE Fail
    /\ UNCHANGED bak

\* Best effort: the result of moving the backup back is ignored.
Rollback ==
    /\ pc = "rollback"
    /\ \/ target' = bak /\ bak' = NoFile
       \/ UNCHANGED <<target, bak>>
    /\ Fail
    /\ UNCHANGED tmp

\* A save reports an error when the backup cannot be removed, although the
\* new version is in place; the others ignore it.
Cleanup ==
    /\ pc = "cleanup"
    /\ \/ bak' = NoFile /\ Return("ok")
       \/ UNCHANGED bak /\ Return(IF writer = "document" THEN "err" ELSE "ok")
    /\ UNCHANGED <<target, tmp>>

\* validate_output_file on the exported file.
Reopen ==
    /\ pc = "reopen"
    /\ Finish \/ Goto("withdraw")
    /\ UNCHANGED files

\* The exported file does not read back: it is removed, as far as possible.
Withdraw ==
    /\ pc = "withdraw"
    /\ target' \in {target, NoFile}
    /\ IF targetExisted /\ Exists(bak) THEN Goto("restore") ELSE Return("err")
    /\ UNCHANGED <<tmp, bak>>

\* And the file before it is moved back.
Restore ==
    /\ pc = "restore"
    /\ \/ target' = bak /\ bak' = NoFile
       \/ UNCHANGED <<target, bak>>
    /\ Return("err")
    /\ UNCHANGED tmp

\* Best effort again.
Discard ==
    /\ pc = "discard"
    /\ tmp' \in {tmp, NoFile}
    /\ Return("err")
    /\ UNCHANGED <<target, bak>>

-----------------------------------------------------------------------------
\* The process dies in the middle of a save; the files stay as they are.
Die ==
    /\ pc' = "idle"
    /\ result' = "none"
    /\ UNCHANGED <<writer, ver, fsync, targetExisted, acked>>

Kill ==
    /\ pc # "idle"
    /\ UNCHANGED files
    /\ Die

\* After a power loss a file whose data were not synced may be torn.
Survivors(f) ==
    IF f.st = "written" THEN {f, [f EXCEPT !.st = "partial"]} ELSE {f}

LosePower ==
    /\ PowerLoss
    /\ target' \in Survivors(target)
    /\ tmp' \in Survivors(tmp)
    /\ bak' \in Survivors(bak)
    /\ Die

Step == CreateTmp \/ WriteTmp \/ SyncTmp \/ DropBak \/ Stage \/ Commit \/ Rollback \/ Cleanup
        \/ Validate \/ Reopen \/ Withdraw \/ Restore \/ Discard

Next == Begin \/ Step \/ Kill \/ LosePower

Spec == Init /\ [][Next]_vars

-----------------------------------------------------------------------------
(***************************************************************************)
(* Properties.                                                             *)
(***************************************************************************)

\* The copy a user is left with: the target, or the backup while there is
\* no target.
Surviving == IF Exists(target) THEN target ELSE bak

\* The path under which the document is opened never holds a file that was
\* only partly written, whatever call of incremental_save failed and
\* wherever it was interrupted.
TargetNeverTorn == target.st # "partial"

\* When incremental_save returns Ok the new version is at the target path
\* itself, not only in the temporary or in the backup.
OkMeansInstalled == result = "ok" => target.v = ver

\* A backup is only ever older than the target beside it, so that removing
\* it at the start of the next save cannot lose the newer copy.
BackupIsOlder == (Exists(target) /\ Exists(bak)) => bak.v < target.v

\* The strengthening the proofs use: where the new version is at each call,
\* and that what the replacement moves is whole and in order.
Whole(f) == f.st = "synced" \/ (f.st = "written" /\ ~PowerLoss)

ReplacementInvariant ==
    /\ fsync \in Modes
    /\ pc # "idle" => result = "none"
    /\ Exists(target) => Whole(target)
    /\ Exists(bak) => Whole(bak)
    /\ target.v <= ver /\ bak.v <= ver
    /\ pc \notin {"idle", "cleanup"} => bak.v < ver
    /\ pc \notin {"idle", "cleanup", "reopen", "withdraw", "restore"} => target.v < ver
    /\ pc \in {"write", "sync"} => tmp.v = ver /\ Exists(tmp)
    /\ pc = "sync" => tmp.st = "written"
    /\ pc \in {"validate", "dropBak", "stage", "commit"} => tmp.v = ver /\ Whole(tmp)
    /\ pc \in {"dropBak", "stage"} => Exists(target)
    /\ pc \in {"commit", "rollback"} => ~Exists(target)
    /\ pc = "stage" => ~Exists(bak)
    /\ pc \in {"reopen", "withdraw"} => target.v = ver /\ Exists(target)
    /\ pc = "restore" => target.v = ver \/ ~Exists(target)
    /\ pc \in {"reopen", "withdraw", "restore"} => acked <= bak.v
    /\ pc \in {"reopen", "withdraw", "restore", "validate"} => writer = "export"
    /\ pc = "cleanup" => target.v = ver /\ Exists(target) /\ Exists(bak)
    /\ BackupIsOlder
    /\ acked <= Surviving.v
    /\ OkMeansInstalled

\* The replacement behaves like one atomic, durable write: the version that
\* can be read back only moves forward, but for an export that is withdrawn,
\* and an acknowledged one is never lost, over every failed call, kill and
\* power loss.
Readable == IF Surviving.st = "partial" THEN 0 ELSE Surviving.v

Durable == INSTANCE DurableFile WITH current   <- Readable,
                                     revocable <- writer = "export"

DurableSpec == Durable!Spec
=============================================================================
