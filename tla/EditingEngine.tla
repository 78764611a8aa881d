--------------------------- MODULE EditingEngine ---------------------------
(***************************************************************************)
(* Transactions, undo and redo: editing_core's EditingEngine, working on   *)
(* the sessions of DocumentSession.                                        *)
(*                                                                         *)
(* A transaction takes a snapshot of the document, applies its operations  *)
(* one by one, each of which writes the session, and then commits or       *)
(* fails.  A snapshot is kept in memory, or in a file when it is large.    *)
(* The size of a document is its number of pages.  While a transaction     *)
(* runs no other command does.                                             *)
(***************************************************************************)
EXTENDS DocumentSession, SequencesExt

CONSTANTS
    BlankPage,              \* the page InsertBlankPage makes
    MaxPages,               \* bound on the length of a document
    MaxOps,                 \* bound on the operations of a transaction
    MaxSnapshots,           \* bound on next_snapshot_id
    MaxUndoEntries,         \* the fields of UndoMemoryBudget
    MaxInMemory,
    MaxDiskBacked,
    SpillToDiskThreshold,
    Beside,                 \* the other commands on sessions that are in use
    OtherInstances,         \* whether the program may be started again
    Watched                 \* the session a property looks at

ASSUME BlankAssumption == BlankPage \in Pages
ASSUME BudgetAssumption ==
    /\ {MaxPages, MaxOps, MaxSnapshots, MaxUndoEntries, MaxInMemory,
        MaxDiskBacked, SpillToDiskThreshold} \subseteq Nat
    /\ Beside \subseteq {"read", "store", "edit"}
    /\ OtherInstances \in BOOLEAN
    /\ Watched \in Nat \ {0}

VARIABLES
    undo, redo,       \* the stacks of snapshots of each session
    disk,             \* the snapshot files
    nextSnapshotId,
    tx                \* the transaction under way

engineVars == <<undo, redo, disk, nextSnapshotId, tx>>
allVars == <<sessions, nextId, files, undo, redo, disk, nextSnapshotId, tx>>

\* file is the id of the snapshot's file, 0 when it is in memory.
Snapshot == [doc : Docs, file : Nat]
SnapshotFile == [session : Nat, file : Nat, doc : Docs]
Idle == [session |-> 0, before |-> [doc |-> <<>>, file |-> 0], ops |-> 0]

EngineTypeOK ==
    /\ TypeOK
    /\ undo \in [Live -> Seq(Snapshot)] /\ redo \in [Live -> Seq(Snapshot)]
    /\ disk \in SUBSET SnapshotFile
    /\ nextSnapshotId \in Nat \ {0}
    /\ tx \in [session : Nat, before : Snapshot, ops : Nat]

EngineInit ==
    /\ Init
    /\ undo = <<>> /\ redo = <<>>
    /\ disk = {}
    /\ nextSnapshotId = 1
    /\ tx = Idle

-----------------------------------------------------------------------------
(* Snapshots. *)

Spills(d) == Len(d) >= SpillToDiskThreshold

NewSnapshot(d) == [doc |-> d, file |-> IF Spills(d) THEN nextSnapshotId ELSE 0]

FilesOf(id, entries) ==
    {[session |-> id, file |-> e.file, doc |-> e.doc] : e \in Range(entries)}

\* The effect on the disk of creating a snapshot and then deleting some.
StoreSnapshot(id, d, deleted) ==
    /\ nextSnapshotId <= MaxSnapshots
    /\ nextSnapshotId' = nextSnapshotId + 1
    /\ disk' = (disk \cup IF Spills(d) THEN FilesOf(id, <<NewSnapshot(d)>>) ELSE {})
               \ deleted

\* A snapshot can be restored from memory, or from a file that is there.
Restorable(id, e) == e.file = 0 \/ FilesOf(id, <<e>>) \subseteq disk

\* usage_for_session counts by tier.
InMemory(entries) == SelectSeq(entries, LAMBDA e : e.file = 0)
OnDisk(entries) == SelectSeq(entries, LAMBDA e : e.file # 0)
Usage(entries) == FoldLeft(LAMBDA n, e : n + Len(e.doc), 0, entries)

WithinBudget(u, r) ==
    /\ Usage(InMemory(u \o r)) <= MaxInMemory
    /\ Usage(OnDisk(u \o r)) <= MaxDiskBacked

\* Mutant: one entry too many is kept.
KeptOneMore(u, r) ==
    SubSeq(u, IF Len(u) > MaxUndoEntries THEN Len(u) - MaxUndoEntries ELSE 1, Len(u))

\* prune_to_budget drops the oldest undo entries, one after the other, until
\* the rest fits or none is left.
Kept(u, r) ==
    LET Rest(k) == SubSeq(u, k, Len(u))
        fits == {k \in 1 .. Len(u) :
                    Len(Rest(k)) <= MaxUndoEntries /\ WithinBudget(Rest(k), r)}
    IN  Rest(IF fits = {} THEN Len(u) + 1
             ELSE CHOOSE k \in fits : \A j \in fits : k <= j)

\* Mutant: the file of an entry that stays is deleted too.
PrunedOneMore(u, r) == SubSeq(u, 1, Len(u) - Len(Kept(u, r)) + 1)

Pruned(u, r) == SubSeq(u, 1, Len(u) - Len(Kept(u, r)))

-----------------------------------------------------------------------------
(* Transactions. *)

\* create_snapshot fails, and the transaction with it, when the snapshot
\* cannot be stored: then nothing has happened.
BeginTransaction(id) ==
    LET d == sessions[id].bytes
    IN  /\ tx = Idle
        /\ tx' = [session |-> id, before |-> NewSnapshot(d), ops |-> 0]
        /\ StoreSnapshot(id, d, {})
        /\ UNCHANGED <<sessions, nextId, files, undo, redo>>

\* Every operation opens the current bytes, changes the document and writes
\* it back; with_pdf_document stops there.
Apply(s) ==
    /\ tx # Idle /\ tx.ops < MaxOps
    /\ tx' = [tx EXCEPT !.ops = @ + 1]
    /\ Update(tx.session, s)
    /\ UNCHANGED <<nextId, files, undo, redo, disk, nextSnapshotId>>

\* with_pdf_document_and_sync_pages also reads the page list back.
SyncPages(s) ==
    LET n == Len(s.bytes)
    IN  [s EXCEPT !.pages = n, !.pageCount = n,
                  !.currentPage = IF n > 0 /\ @ >= n THEN n - 1 ELSE @]

Rewritten(s, d) == Invalidate(Write(s, d))

\* InsertText, DeleteText, Redact and the form operations; ReplaceText is
\* two of them.
EditText(i, x) ==
    LET s == sessions[tx.session]
    IN  /\ CanInvalidate(s) /\ i < Len(s.bytes)
        /\ Apply(Rewritten(s, WithPage(s.bytes, i, x)))

\* An operation of a kind that is not implemented, and a move to where the
\* page already is.
Nothing == Apply(sessions[tx.session])

RotatePage(i, x) ==
    LET s == sessions[tx.session]
    IN  /\ CanInvalidate(s) /\ i < Len(s.bytes)
        /\ Apply(SyncPages(Rewritten(s, WithPage(s.bytes, i, x))))

DeletePage(i) ==
    LET s == sessions[tx.session]
    IN  /\ CanInvalidate(s)
        /\ i < s.pages /\ i < Len(s.bytes)
        /\ Apply(SyncPages(Rewritten(s, RemoveAt(s.bytes, i + 1))))

\* The page organizer, which alone asks for this, does not delete what it
\* counts as the last page.
DeletePageFromOrganizer(i) == sessions[tx.session].pageCount > 1 /\ DeletePage(i)

\* The end of the page list stands for the end of the document.
InsertBlankPage(i) ==
    LET s == sessions[tx.session]
        n == Len(s.bytes)
        at == IF i = s.pages THEN n ELSE i
    IN  /\ CanInvalidate(s) /\ n < MaxPages
        /\ i <= s.pages /\ at <= n
        /\ Apply(SyncPages(Rewritten(s, InsertAt(s.bytes, at + 1, BlankPage))))

\* The page is inserted again at its new place and then deleted at its old.
Moved(d, from, to) ==
    LET insertAt == IF from < to THEN to + 1 ELSE to
        deleteAt == IF from < to THEN from ELSE from + 1
    IN  RemoveAt(InsertAt(d, insertAt + 1, d[from + 1]), deleteAt + 1)

MovePage(from, to) ==
    LET s == sessions[tx.session]
    IN  /\ CanInvalidate(s) /\ from # to
        /\ {from, to} \subseteq 0 .. s.pages - 1
        /\ {from, to} \subseteq 0 .. Len(s.bytes) - 1
        /\ Apply(SyncPages(Rewritten(s, Moved(s.bytes, from, to))))

\* An operation fails: the snapshot is discarded, what the operations before
\* it wrote stays, without the dirty flag.
FailTransaction ==
    LET debts == IF tx.ops = 0 THEN {} ELSE {"dirty"}
    IN
    /\ tx # Idle
    /\ Update(tx.session, Owing(sessions[tx.session], debts))
    /\ disk' = disk \ FilesOf(tx.session, <<tx.before>>)
    /\ tx' = Idle
    /\ UNCHANGED <<nextId, files, undo, redo, nextSnapshotId>>

\* Mutant: the transactions undone before can still be redone.
CommitKeepingRedo ==
    LET id == tx.session
        u == Append(undo[id], tx.before)
    IN  /\ tx # Idle
        /\ undo' = [undo EXCEPT ![id] = Kept(u, redo[id])]
        /\ disk' = disk \ FilesOf(id, Pruned(u, redo[id]))
        /\ Update(id, MarkDirty(sessions[id]))
        /\ tx' = Idle
        /\ UNCHANGED <<nextId, files, redo, nextSnapshotId>>

CommitTransaction ==
    LET id == tx.session
        u == Append(undo[id], tx.before)
    IN  /\ tx # Idle
        /\ undo' = [undo EXCEPT ![id] = Kept(u, <<>>)]
        /\ redo' = [redo EXCEPT ![id] = <<>>]
        /\ disk' = disk \ FilesOf(id, redo[id] \o Pruned(u, <<>>))
        /\ Update(id, MarkDirty(sessions[id]))
        /\ tx' = Idle
        /\ UNCHANGED <<nextId, files, nextSnapshotId>>

-----------------------------------------------------------------------------
(* Undo and redo. *)

\* Mutants: the restored bytes are not invalidated, or not marked dirty.
RestoredWithoutRevision(s, d) == MarkDirty(Write(s, d))

RestoredUnflagged(s, d) == Invalidate(Write(s, d))

Restored(s, d) == Invalidate(MarkDirty(Write(s, d)))

\* The file of the entry that is popped stays on disk.  When the snapshot
\* for the other stack cannot be stored, the document is restored all the
\* same and the command returns an error.
Undo(id) ==
    LET s == sessions[id]
        e == Last(undo[id])
    IN  /\ tx = Idle /\ CanInvalidate(s)
        /\ undo[id] # <<>> /\ Restorable(id, e)
        /\ Update(id, Restored(s, e.doc))
        /\ undo' = [undo EXCEPT ![id] = Front(@)]
        /\ \/ /\ redo' = [redo EXCEPT ![id] = Append(@, NewSnapshot(s.bytes))]
              /\ StoreSnapshot(id, s.bytes, {})
           \/ UNCHANGED <<redo, disk, nextSnapshotId>>
        /\ UNCHANGED <<nextId, files, tx>>

Redo(id) ==
    LET s == sessions[id]
        e == Last(redo[id])
        u == Append(undo[id], NewSnapshot(s.bytes))
        r == Front(redo[id])
    IN  /\ tx = Idle /\ CanInvalidate(s)
        /\ redo[id] # <<>> /\ Restorable(id, e)
        /\ Update(id, Restored(s, e.doc))
        /\ redo' = [redo EXCEPT ![id] = r]
        /\ \/ /\ undo' = [undo EXCEPT ![id] = Kept(u, r)]
              /\ StoreSnapshot(id, s.bytes, FilesOf(id, Pruned(u, r)))
           \/ UNCHANGED <<undo, disk, nextSnapshotId>>
        /\ UNCHANGED <<nextId, files, tx>>

-----------------------------------------------------------------------------
(* The commands of the session store, with what they do to the engine. *)

\* Nothing of the engine exists yet for a new session.
OpenSession(p) ==
    /\ tx = Idle
    /\ Open(p)
    /\ undo' = [id \in Live' |-> IF id \in Live THEN undo[id] ELSE <<>>]
    /\ redo' = [id \in Live' |-> IF id \in Live THEN redo[id] ELSE <<>>]
    /\ UNCHANGED <<disk, nextSnapshotId, tx>>

\* Mutant: closing a document leaves its stacks behind.
CloseKeepingStacks(id) ==
    /\ tx = Idle
    /\ Close(id)
    /\ UNCHANGED engineVars

\* clear_session removes the stacks and the directory of the session.
CloseSession(id) ==
    /\ tx = Idle
    /\ Close(id)
    /\ undo' = [i \in Live' |-> undo[i]]
    /\ redo' = [i \in Live' |-> redo[i]]
    /\ disk' = {f \in disk : f.session # id}
    /\ UNCHANGED <<nextSnapshotId, tx>>

SessionCommand(id) ==
    /\ tx = Idle
    /\ \/ "read" \in Beside /\ Read(id)
       \/ "store" \in Beside /\ Store(id)
       \/ "edit" \in Beside /\ Edit(id)
    /\ UNCHANGED engineVars

\* A second instance of the program clears the directory they share.
OtherInstanceStarts ==
    /\ OtherInstances
    /\ disk' = {}
    /\ UNCHANGED <<sessions, nextId, files, undo, redo, nextSnapshotId, tx>>

Operation ==
    \/ Nothing
    \/ \E i \in Requested :
          \/ DeletePageFromOrganizer(i) \/ InsertBlankPage(i)
          \/ \E x \in Pages : EditText(i, x) \/ RotatePage(i, x)
          \/ \E j \in Requested : MovePage(i, j)

EngineNext ==
    \/ \E p \in Paths : OpenSession(p)
    \/ \E id \in Live :
          \/ CloseSession(id) \/ SessionCommand(id)
          \/ BeginTransaction(id) \/ Undo(id) \/ Redo(id)
    \/ tx # Idle /\ (Operation \/ CommitTransaction \/ FailTransaction)
    \/ OtherInstanceStarts

EngineSpec == EngineInit /\ [][EngineNext]_allVars

-----------------------------------------------------------------------------
(***************************************************************************)
(* Properties.                                                             *)
(***************************************************************************)

\* Whatever is on a stack, or will go there when the transaction commits,
\* can be restored: no snapshot file is deleted while an entry needs it, as
\* long as the program is not started a second time.
SnapshotsReadable ==
    ~OtherInstances =>
        /\ \A id \in Live : \A e \in Range(undo[id]) \cup Range(redo[id]) :
              Restorable(id, e)
        /\ tx # Idle => Restorable(tx.session, tx.before)

\* Closing a document takes its snapshot files with it, those included that
\* no entry refers to any more, and no stack ever gets too deep.
NothingOutlivesItsSession ==
    /\ \A f \in disk : f.session \in Live
    /\ \A id \in Live : Len(undo[id]) <= MaxUndoEntries

\* The dirty flag can be believed between transactions as well, undo and redo
\* included, unless a command wrote without setting it: a failed transaction
\* does, when some of its operations had been applied.
FlagIsRight == tx = Idle => CleanMeansSaved

\* The strengthening the proofs use: no two entries of a session share a
\* snapshot file, and the next one has a file of its own.
Numbered(s, next) ==
    /\ \A k \in DOMAIN s : s[k].file < next
    /\ \A j, k \in DOMAIN s : s[j].file = s[k].file => j = k \/ s[j].file = 0

Apart(s, t) ==
    \A j \in DOMAIN s, k \in DOMAIN t : s[j].file = t[k].file => s[j].file = 0

FilesAreUnique ==
    /\ \A id \in Live : /\ Numbered(undo[id], nextSnapshotId)
                       /\ Numbered(redo[id], nextSnapshotId)
                       /\ Apart(undo[id], redo[id])
    /\ tx # Idle => /\ tx.session \in Live
                    /\ Numbered(<<tx.before>>, nextSnapshotId)
                    /\ Apart(<<tx.before>>, undo[tx.session])
                    /\ Apart(<<tx.before>>, redo[tx.session])

\* Also the session a transaction works on is right until an operation has
\* been applied.
Flagged(s) == s.isDirty \/ s.bytes = s.saved \/ "dirty" \in s.owes

FlagsAreRight ==
    \A id \in Live :
        Flagged(sessions[id]) \/ (tx # Idle /\ tx.session = id /\ tx.ops > 0)

\* What the page organizer says of a document: it retains a page.
RetainsAPage == \A id \in Live : sessions[id].bytes # <<>>

\* For any one document the engine behaves like a line of versions.  A
\* transaction under way has not moved the present yet.
VersionsOf(entries) == [k \in DOMAIN entries |-> entries[k].doc]

Past == IF Watched \in Live THEN VersionsOf(undo[Watched]) ELSE <<>>

Present ==
    IF Watched \notin Live THEN NoDoc
    ELSE IF tx.session = Watched THEN tx.before.doc ELSE sessions[Watched].bytes

Future == IF Watched \in Live THEN Reverse(VersionsOf(redo[Watched])) ELSE <<>>

History == INSTANCE UndoHistory WITH
    Versions <- Docs \cup {NoDoc}, past <- Past, present <- Present, future <- Future

HistoryIsLinear == History!Spec
=============================================================================
