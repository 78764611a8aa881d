# A verification project for R2H-PDF

R2H-PDF is a desktop PDF editor: a React frontend (`src/src`), a Rust backend
under Tauri (`src/src-tauri/src`), and MuPDF (`src/source`, `src/include`), the
C library that reads, draws and writes documents. This directory holds TLA+
models of the backend's core logic, of the frontend's shell and of those parts
of the library that keep state between calls, the TLC configurations that check
them on small instances, and proofs of the main theorems, checked by TLAPS, for
instances of every size.

Paths below are relative to `src/src-tauri/src` unless they start otherwise.

    tlc -config IncrementalSave.cfg MCIncrementalSave.tla
    tlapm IncrementalSave_proofs.tla

## 1. The system

### How it runs

The frontend calls commands of the backend. Most are synchronous and Tauri runs
them one at a time on the main thread: a command is one atomic step for every
other command, and it is modelled as one action. Locks (a map of sessions, one
mutex per session, one per engine) are taken and released inside a command. The
exceptions are a few asynchronous commands (`ai_run_task`, `ai_get_status`,
`ai_cancel_task`, `bentopdf_open`), OCR worker threads, and a separate host
process (`document_engine_host.rs`). What does interleave with a command is the
outside: the process may be killed and the machine may lose power between two
file-system calls, every call may fail, another instance of the program may be
started (nothing prevents it), and the frontend may act on an answer that is no
longer up to date. In the frontend, which has one thread, every call of the
backend is an `await`: between the call and its answer the user may switch,
open, edit, save or close documents, and a callback goes on with the values of
the render it was created in.

The library is called from several threads at once. A context can be cloned for
each thread; the clones share one store, one glyph cache and the locks. A lock
is given up in the middle of a call wherever something is destroyed, allocated or
drawn that may call back into the library, so a call is several critical
sections and other threads step in between. A document is used by one thread at
a time; its journal is sequential.

### Components

| Component | Source | State it keeps | Operations | Interacts with |
|---|---|---|---|---|
| File replacement | `document_core/mupdf_engine.rs` | target, `.r2h.tmp`, `.r2h.bak` | `incremental_save` | called by the session store; the file system |
| Document sessions | `document_core/session.rs`, `render.rs` | per session: bytes, page list, `page_count`, current page, dirty flag, revision, parsed handle | open, close, render, extract text, navigate, save, form commands | everything that edits writes into a session |
| Render cache | `document_core/cache.rs` | map, use order, byte counter, two limits | get, insert, clear, invalidate a page | owned by a session, cleared with every revision |
| Editing engine | `editing_core/engine.rs` | undo and redo stacks of snapshots, snapshot files, budget | apply transaction, undo, redo, clear session | reads and writes sessions; cleared when a document closes |
| Content edits | `content_editing/*.rs` | edit history with snapshots | text and image edits, find and replace, revert | write sessions |
| Annotations | `annotation_core/engine.rs` | annotations per session, a sidecar file | create, update, delete | creating writes the session |
| Forms | `document_core/forms.rs` | none of its own | create, update, delete field | through the session store |
| Export | `document_core/export.rs` | temporary, backup, target | `doc_export` | reads a session, may take its result over into it |
| Project and shell persistence | `project_persistence.rs`, `shell_persistence.rs` | JSON files; library records with caps | load, save, upserts | called by the frontend after a save or an export |
| Performance and reliability | `performance_reliability_core` | job queue, autosave ring, recovery ring | schedule, autosave, recover | not on the path of a save |
| Document engine host | `document_engine_host.rs` | documents of the host process | requests, line by line | parent process |
| Search, AI, OCR | `search_core`, `ai_core`, `document_core/ocr.rs` | indexes, tasks, workers | index, query, run, cancel | read sessions |
| BentoPDF runtime, licensing | `bentopdf_runtime.rs`, `license.rs` | a child process; an activation file | start, stop; activate | external |
| Frontend | `src/src` | tabs, flags, editor objects | save, autosave, page organizer, menus | all of the above, asynchronously |
| Resource store | `src/source/fitz/store.c`, `memory.c` | items in a list and a hash table, reference counts, total size, flags for scavenging and reaping | find, store, remove, evict, reap, scavenge, shrink, filter, empty | every thread; `malloc` scavenges it; images are keys that are counted |
| Hash table | `src/source/fitz/hash.c` | open addressing, a load counter | find, insert, grow, remove, filter | used by the store under its lock |
| Glyph cache | `src/source/fitz/draw-glyph.c` | renderings in a list and in chains, total size | render a glyph, purge, drop | painting threads; Type 3 glyphs call back into it |
| Journal and sections | `src/source/pdf/pdf-object.c`, `pdf-xref.c` | cross-reference sections, an index, entries of undo fragments | begin, end, abandon, alter, add, undo, redo, discard | every edit of a document |
| The rest of MuPDF | `src/source`, `src/thirdparty` | none between calls, or caches of the above | parse, draw, decode, write | external |

### What is hard here

* **One document, four copies.** A session holds the bytes, the page list, a
  parsed handle and rendered pages. More than a dozen commands in five modules
  write the bytes, and each has to flag the session dirty and to move its
  revision by itself. A missing call shows up several commands later, as a stale
  page on the screen or as work lost on closing.
* **Replacing a file without losing it**, with failures and crashes between any
  two calls.
* **Undo over whole documents, under a budget**: entries move between two stacks
  and a disk, files are deleted when entries are dropped, transactions fail half
  way, and other commands edit the same document beside the engine.
* **Bookkeeping by hand**: a cache with a queue and a counter beside its map.
* **The frontend's view**, which is only refreshed when somebody asks.
* **Critical sections with gaps.** The store, the hash table and the glyph cache
  let go of their lock inside an operation and go on with what they knew.
* **Undo by fragments.** Operations nest, are glued together, abandoned, undone
  and redone, and each fragment is a swap that only works once and in order.

`PROJECT.json` lists the hazards one by one, with the line where each bites and
the properties that cover it.

### What makes each component correct

| Component | Properties |
|---|---|
| File replacement | an acknowledged version survives everything; the target is never a torn file; Ok means installed; a backup is never newer than the target |
| Sessions | what is drawn is what would be saved; a clean flag can be believed; a revision names one content; page indices name pages |
| Render cache | map, queue and counter agree; limits hold; the least recently used go first, and no more than needed |
| Editing engine | the history is a line of versions; every entry can be restored; nothing survives the document; flag, view and revision stay right |
| Frontend shell | overlays are stored under their own document, but for those a late acceptance brings to another; undo always applies; every task ends; a document with unsaved changes is shown as such; closing takes one tab |
| Resource store | counts are users; nothing in use is destroyed; list, table and total agree; orphans are reaped; nothing is left over; an allocation fails last |
| Hash table | a search ends; what was inserted and not removed is found |
| Glyph cache | list, chains and total agree, no key is cached twice; a glyph is freed after its last use, not before |
| Journal | undo and redo move along a line of versions; an open operation can be reverted; references resolve; the index finds the newest definition |
| not modelled yet: content edit history | a revert restores what its record says, and says so when it no longer can |
| not modelled yet: OCR, AI, search | a late answer is not applied to a document it does not belong to; a cancelled task ends |

## 2. The modules

| Module | Models |
|---|---|
| `DurableFile` | abstract: an atomic, durable write of numbered versions, where wanted one that can be withdrawn |
| `IncrementalSave` | the file replacement of a document, a registry and an export, one step per file-system call; implements `DurableFile` |
| `IncrementalSave_proofs` | its theorems |
| `DocumentSession` | the sessions and every command that writes one |
| `DocumentSession_proofs` | its theorems |
| `UndoHistory` | abstract: a line of versions with a present on it |
| `EditingEngine` | transactions, undo, redo, on top of `DocumentSession`; implements `UndoHistory` for each document |
| `EditingEngine_proofs` | its theorems |
| `PageRenderCache` | the cache of rendered pages with its queue, counter and limits |
| `GlyphCache` | the glyph cache and the threads that paint |
| `HashTable` | the hash table and the threads that use it |
| `Caches` | these three side by side, a behaviour using one of them, and their properties under one set of names |
| `Caches_proofs` | theorems of the page cache, the glyph cache and the hash table |
| `ResourceStore` | the store, the threads that share it, and allocation |
| `ResourceStore_proofs` | its theorems |
| `VersionLine` | abstract: a line of versions and a place on it |
| `Journal` | the journal of a PDF document over its cross-reference sections; implements `VersionLine` |
| `Journal_proofs` | its theorems |
| `Workstation` | the frontend's tabs, editor overlays, and the tasks that open, save, autosave, accept text, close and restore |
| `Workstation_proofs` | its theorems |
| `Selections` | taking entries out of a queue or a linked list in place |
| `CommonLemmas` | lemmas the proofs share: induction, functions defined by recursion, sums over sets, sequences with entries taken out |
| `MC...` | instances for TLC |

Definitions whose comment begins with "Mutant" are wrong variants of the
definition they precede, one for each property; replacing the definition by its
variant makes TLC find the property violated.

### IncrementalSave

Three pieces of code replace a file in the same way: `incremental_save` writes a
document, the two `atomic_write` (`project_persistence.rs`, `shell_persistence.rs`)
write a registry, `doc_export` writes an export. `writer` says which of them
writes the path of a behaviour. They differ in what they do on the way:

| | document | registry | export |
|---|---|---|---|
| temporary | one name, truncated | a new name each time | a new name each time |
| sync | if the request says so | always | always |
| the temporary is read back before the replacement | no | no | yes |
| an error before or at the rename | leaves the temporary | removes it | removes it, but for an error in staging |
| the target is read back afterwards | no | no | yes; if it does not validate it is removed and the backup moved back |
| the backup cannot be removed | an error | ignored | ignored |

`target`, `tmp` and `bak` are the file, the temporary and the backup. The content
of a file is a version number and how safe it is: `partial` (being written),
`written` (complete but not synced) or `synced`. `pc` is the next file-system
call; the locals `target_existed` and `request.fsync` are variables. Each call
succeeds or fails, and a failure takes the code's early return. `Kill` stops a
write anywhere. `LosePower` may in addition tear the data of files that were not
synced. Renames and removals are assumed ordered and durable (a journalling file
system); the code syncs no directory, so this is an assumption about the file
system and not a result.

`backup_path.exists()` is read anew before moving the backup back and before
removing it; the model reads it there as well. Temporaries that a registry or an
export leaves behind are not counted: each has a name of its own and nothing
reads it. The backup is moved, moved back or removed only on the paths on which a
target was found, which `TypeOK` states beside the types.

`DurableFile` says what all this amounts to: the version that can be read back
moves forward in one step, an acknowledged one is never lost, and only an export
can take back a version, which it then has not acknowledged.

### DocumentSession

A document is the sequence of its pages, a page is one of a few contents: two
documents are equal when their bytes would be. `sessions` maps ids to the
fields of `DocumentSession` that control anything: `bytes` and `pages` (the page
list of `OpenedDocument`), `pageCount`, `currentPage` and `viewportPage`,
`isDirty`, `revision`, `parsed` (`cached_document`) and `cache` (the entries of
the render pipeline, with the page they show). Two fields are history and only
properties read them: `saved`, the content last read from or written to the
session's file, and `owes`, what a command that wrote the bytes and returned
early did not do: move the revision, or set the flag. The exceptions in the
properties are these debts and nothing else, so that they are explicit: an
annotation, a form command whose metadata refresh failed, and (in
`EditingEngine`) a transaction that failed half way.

The commands: `Open`, `Close`, `Render` (which moves the current page before it
checks anything, parses on demand, and may fail after that), `ExtractText`,
`GoToPage`, `Save` and `SaveFails` (Save As when the path differs; a failed save
may have replaced the file or left it staged away, which is what
`IncrementalSave` allows), `TextEdit` and `TextEditRejected` (a verification
that fails puts the old bytes back), `FormEdit`, `AnnotCreate`, `Export`
(to a path other than the session's own, and optionally taking the exported
bytes over) and `ExportFails`.

### EditingEngine

It extends `DocumentSession` with the stacks, the snapshot files, the snapshot
counter and the transaction under way. A transaction is several steps, because
each operation writes the session on its own and any of them may fail:
`BeginTransaction`, any number of operations, then `CommitTransaction` or
`FailTransaction`. It is still one command, so nothing but a second instance
steps in between. The operations keep their code's conditions: the
page list is checked first and the document again, `InsertBlankPage` takes the
end of the list for the end of the document, `MovePage` inserts the page again
and then deletes the original. `DeletePage` deletes whatever page it is asked to,
the last one too; that one page has to stay is a rule of the page organizer
(`src/src/features/page-organizer/usePageOrganizer.ts:58`), by the page count it was
told, and stands in `DeletePageFromOrganizer`. `Kept` and `Pruned` are `prune_to_budget`;
`Restorable` is a snapshot in memory or a file that is there. `Undo` and `Redo`
each have the branch where the document is restored but the snapshot for the
other stack cannot be stored.

`HistoryIsLinear` is a refinement: the past of a document is the undo stack, the
future the redo stack read backwards, the present its bytes (the bytes before
the transaction while one is under way).

### PageRenderCache

`map`, `order` and `bytes` are the fields of the struct; `uses` is a history
variable, the keys in the order of their last use. A key stands for a page at
one zoom and viewport, a value for its size. `EvictToFit` takes the shortest
prefix of the queue after which both limits hold, which is where the loop stops.
An insertion larger than the byte limit evicts everything, itself included; that
is what the code does and the properties allow it.

### GlyphCache

`lru` is the list, `chain` the chains of the hash table, `total` the bytes,
`glyphs` the renderings in memory with the key each is of, and `refs` their
counts; `held` is what each thread still has to paint. `FZ_LOCK_GLYPHCACHE` is
held through a call, so a hit, an outline glyph and a purge are one step each. A
Type 3 glyph is drawn with the lock given up: `StartDrawing` and `Drawn` or
`DrawingFails` are steps of their own, and `Drawn` looks the key up again before
it inserts, as the code does. `Encache` inserts and evicts until the total fits,
the new glyph included. Renderings above the size limit, and those clipped to a
scissor, are `Uncached`.

### HashTable

`ents` are the slots, `load` the counter. `Probe`, `Stop` and `Found` are the
searches, written as the slots a search passes. `Removed` closes the gap that a
removal leaves by the code's comparison (`MayMove`). `Insert` that finds the
table crowded becomes `StartGrowing`, which gives up the lock to allocate, and
then `Grow`, `GrownMeanwhile` or `GrowFails`, and `FinishInsert`: three critical
sections. `stored` is a history variable, what a caller may expect to find.

### ResourceStore

`list`, `hash` and `size` are the store; an item is identified with its value and
a key with what it names. `refs` counts the references of values, `keyRefs` and
`imgRefs` those of images, which are keys that are counted themselves
(`fz_key_storable`): `keyRefs` are the references by items, and an image whose
count falls to those is only known to the store. `alive`, `held` and `users` say
what is allocated and who uses it. `lock` is `FZ_LOCK_ALLOC`. A call is a record
with the place it is at and, as `back`, the call it returns to, since storing,
allocating and dropping end in the same loops (`Reap`, `Scavenge`, `DropItem`):
each action is one critical section. `StoreNew` leaves out the exits on a failed
`malloc` and a failed insertion into the hash table: the value is then not stored
and nothing else has changed. `Malloc` is an allocation that the system may
refuse, with its phases; `Phases` is 16 in the code. Arithmetic that wraps in the
code wraps here at `Word`. A limit of 0 is `FZ_STORE_UNLIMITED` (`Unlimited`): nothing
is evicted to make room, and scavenging goes by the total. `Fonts` are the values
with a `droppable` callback. Theirs answers by whether the calling thread holds the
font library's lock, which the store does not see, so that scavenging takes either
answer (`inFont`): more behaviours than the code has. `lost` is a history variable,
the sizes that `fz_remove_item` took out without subtracting them, so that
`BooksAgree` states what the total is rather than what it should be: it does not
hold that subtraction (`store.c:656`) against the code.

### Journal

`doc` is the document: its sections, newest first, the index of the section in
which each object was found last, whether the newest section is an incremental
one, and the length. `Put`, `EnsureIncrementalObject` and `Load` are the three
ways the index moves. `hist` are the entries of the journal and `current` how many
are done, in place of the pointer; `pending` are the operations that are open,
one inside the other, each with its fragments. A fragment is an object's number,
what is to be swapped in, and whether the object is to be blanked. `Alter` is
`prepare_object_for_alteration` and the change it prepares; `AddObject` is
`pdf_add_object`; `Update` is `pdf_update_object` on an object that is there.
`Resolved` is `resolve_undo`, `Swapped` is `swap_fragments`.

An object's content is a value or a reference to an added object. What a reader
sees of the file's own objects (`Seen`) is the version; added objects are reached
through them. `begun` and `line` are history: what the document was when each open
operation began, and the versions on the line. `Version(k)` is what undoing and
redoing up to the k-th entry would give, computed by the code's own swaps, and
`VersionsAreRecoverable` says that it is the k-th version of the line;
`HistoryIsALine` says that the line behaves as `VersionLine` does.

`Unstashed` says whether callers use `Update` on an object that their operation
has not altered before. The header promises that such a change "will throw an
error"; the code lets it pass and undo knows nothing of it.

`Discard` is `pdf_discard_journal`, which empties the entries and the open
operation and leaves the count of nested operations alone. No caller in the
repository discards in the middle of an operation (the code's own comment on the
pending operation is "Should be NULL"), and `DiscardBetweenOperations`, the action
in `Next`, takes that as a condition on callers.

### Workstation

`tabs` and `active` are the state of `useWorkstationState`; a tab is its id, its
document, its dirty flag and whether its session's state has arrived (`ready`).
`objects`, `undo` and `redo` are the state of `usePdfEditorState`, which keeps
the overlay objects of all sessions in one list and one pair of stacks. An
object is its identity and its session; the identity names the document it was
drawn on, so that a property can say where it may be stored. `live` and
`changed` are the backend's sessions and their dirty flags, `sidecar` the overlays
stored with each document.

The tasks are state machines over their awaits. `opening` is `openPdfPath` (open,
state, project, record; where the state cannot be read the tab is updated first,
`StateFails`, and the session closed next, `FailedSessionClosed`, which may fail),
`saving` is `runSave` (pdf, project, library), `closing` is
`closeActiveTabWithSession` (session, index), `restoring` what is left of the loop
of `onRestore`. Each holds what the code read before the await: a save its
session and objects, a close the tabs of its render (`seen`), the restoring loop
the tabs of the first render (`TabsAtMount`). Every call of the backend may fail,
with the code's early return. `CloseTab` is `closeTab` and takes the captured tabs
as a parameter. `SyncTab` is `sessionStateToTabPatch`, applied when a session's
state arrives and on every turn of a page. `CanDraw` says when the page with its
overlays is on the screen: the active tab is ready. Deleting, undo and redo ask
for nothing but an object or an entry: both work across documents.

`accepting` is the acceptance of recognised text. `handleCreateOverlays`
(`src/src/features/ocr/OcrPanel.tsx:54`) awaits the backend's overlays and then calls
the `acceptOcrOverlays` of the render of the click: the tab, its session and its
objects are those of that render, and the objects are given to the save
(`src/src/App.tsx:432`, `editorObjectsOverride`). The save takes the document that is
active when it starts (`src/src/hooks/usePdfSave.ts:33`), and the
request it makes does not look at the sessions of the objects. So `TakeSave` takes
ids and document from different places. Text that a model generated is there when
it is accepted, and `AcceptGenerated` is one step up to the save
(`App.tsx:478`). A save that is refused or fails takes back what was added. The
identity of a recognised object is made of the hash of the document and the
place of the text, so that accepting it twice makes one object, number 0 of its
document; two documents are assumed to differ in content, and an edit between two
acceptances, after which the same text gets a new identity, is left out.
`strayed` is history: the documents that were saved with what had been accepted
for another.

One open, one save, one close and one acceptance of recognised text are under way
at a time. For the save this is the code's own guard, and for an acceptance the
panel's while it stays mounted. For the opens and closes it is a restriction: two
opens, or two closes, over each other are covered neither by the runs nor by the
proofs. `Uses` switches off what a run is not about.

## 3. The runs

| Run | Bounds | Shows |
|---|---|---|
| `save_power` | 4 writes of a document, a registry or an export, all with fsync; failures, kills and power losses unlimited | `ReplacementInvariant` (the inductive invariant), `TargetNeverTorn`, and `DurableSpec`: the replacement implements `DurableFile` |
| `session_view` | 1 session, 2 paths, documents of 0 to 2 pages with 2 contents, revisions to 2 | `CoherenceInvariant` (the inductive invariant), `ViewIsCurrent`, `CleanMeansSaved`, `RevisionNamesContent` |
| `session_handle` | as `session_view`, 1 path | violated: `HandleIsCurrent` |
| `engine_undo` | 1 document of up to 2 pages, 2 contents, 2 operations per transaction, 5 snapshots, 2 undo entries, 2 pages in memory, 4 on disk, spilling from 2 pages on; other edits beside the engine | `SnapshotsReadable`, `NothingOutlivesItsSession`, `HistoryIsLinear` |
| `engine_view` | 1 operation per transaction, 3 snapshots; reads and saves beside the engine, a second instance | `ViewIsCurrent`, `FlagIsRight` |
| `caches` | pages: 4 keys of 3 pages, sizes 1, 2 and 5, 3 entries, 4 bytes; glyphs: 2 threads, 4 keys in 2 chains, 2 of Type 3, 1 never cached, 4 renderings, 3 bytes; table: 2 threads, 6 keys, initial size 6 | `PagesAreCoherent`, `PagesEvictLeastRecent`, `GlyphsAreCoherent`, `GlyphsFreedAfterLastUse`, `TableSearchesEnd`, `TableFindsWhatIsStored` |
| `store_share` | 2 threads, an image with a small and a large rendering, an object of one document that may refuse to be dropped, a store of size 2, 2 phases | `RefsAreUsers`, `NothingReachableDestroyed`, `BooksAgree`, `OrphansAreReaped`, `NothingLeft` |
| `store_alloc` | the same, the object droppable at any time | violated: `AllocationFailsLast` |
| `journal` | a file of 2 objects with an increment of its own, 1 object added, 3 changes, 2 operations inside each other | `IndexFindsNewest`, `OnceInEntry`, `ReferencesResolve`, `BeginsAreRecoverable`, `VersionsAreRecoverable`, `HistoryIsALine` |
| `shell_tasks` | 1 document opened up to 2 times over 2 launches, no overlays; autosaves, closes, content edits, turning pages, restoring | `TabsAreSound`, and `TasksEnd` under `FairSpec` |
| `shell_editor` | 2 documents, 2 opens, 2 overlay objects drawn, generated or recognised, 1 launch; undo, selecting tabs, text accepted and saved | `OnlyAcceptanceStrays`, `StacksFitObjects` |
| `shell_unsaved` | 1 document, 1 object, turning pages | violated: `UnsavedIsShown` |

Every passing run but two also checks the type invariant of its modules.

Why these bounds are enough. Two saves in a row already meet a temporary, a
backup and a missing target left by the first; four allow a failure to follow a
recovery from a failure. Saves without fsync, on a machine that keeps power, are
left to the proofs, which cover both; all callers that the application wires up
ask for it. Two contents tell stale from current; two pages tell a wrong index
and a page that moved; an empty stored file and an index beyond the end meet the
guards. Two revisions allow an entry of a previous revision in the cache. More
than one session is left to the proofs as well: a command touches one session.
In the engine one page stays in memory and two spill, two entries overflow the
undo limit, and five snapshots allow commit, undo, redo and another commit over
pruned entries. The page cache has one key more than entries fit, sizes for which
either limit is reached first, and one that never fits. The glyph cache has two
keys in each chain, so that a search passes an entry that is not its own, a Type 3
glyph in each, and room for some but not all of them. The keys of the hash table
collide at one slot, wrap round the end, and are just enough to make the smallest
table grow while another thread inserts. In the store the large rendering alone
fills it, so that every insertion evicts; the object belongs to a document of one
thread, so that filtering by document is met; two phases are the first that keeps
something and the last that keeps nothing. With `Hashed = {image}`, where objects
have no hash key, `store_share` gives the same result. In the journal one object
is in both sections of the file and one in the older only, so that an object
copied forward, one already there and one that is new all occur; three changes
allow an operation with an inner one, and a change after an undo; `VersionLine`
is met with up to three versions on it. In the shell one
document opened twice is two tabs, two sessions and one sidecar, so an open can
overlap the close or the save of the other tab; two documents and two objects let
a save of one be under way while the other is active, an acceptance end in the
other, and undo cross from one to the other. Saves from the menu, which store what
is there, make that run too long; `Workstation_saves.cfg` has them, without undo. `MaxOpens`, `MaxRevision`, `MaxSnapshots`, `MaxOps`, `MaxPages`,
`MaxSaves`, `MaxObjects`, `MaxLaunches`, `MaxGlyphs`, `MaxLost`, `MaxChanges`,
`MaxObject` and `MaxNesting` are bounds of the model only; each is a
guard and a run stops where they are reached, which is why those cfgs switch
deadlock checking off. Where `MaxRevision` is reached only writes stop. The two
documents of `shell_editor` are interchangeable (no operation tells one path from
another), which is what its symmetry set says; `shell_tasks`, which checks
liveness, uses none.

Fairness. All modules but `Workstation` have safety properties only:
`IncrementalSave`, `DocumentSession`, `EditingEngine`, `PageRenderCache` and
`Journal` wait for nothing, and what the threads of the store, the table and the
glyph cache wait for is a mutex that each of them lets go of within a bounded
number of steps. A task of the shell waits for the backend. `Answers` is weak fairness
on the steps that are answers, for the open, the save and the close separately:
every command of the backend is synchronous and returns, with a result or an
error, and the event loop then runs the continuation. Nothing is assumed of which
of the two it returns, nor of the user, who may open, save or close for ever or
not at all.

### What the violated runs say

* `session_handle`. The comments of `DocumentSession::cached_document` and of
  `render_from_parsed` say the parsed handle corresponds to the bytes. Creating
  an annotation (`annotation_core/engine.rs:304`) replaces the bytes only. Open,
  annotate: two steps.
* `store_alloc`. `fz_store_scavenge` frees `size + store->size - max`, and skips a
  phase in the one case in which there is something to free
  (`src/source/fitz/store.c:953`). A store that is over its limit is never
  scavenged, and the allocation fails; one that is under it makes the subtraction
  wrap, and is emptied. `memory.c:39` says that allocations fail only when
  scavenging cannot free anything.
* `shell_unsaved`. The tab's flag has two owners. Drawing marks the tab; turning
  the page sets it to the backend's flag, which knows nothing of overlays
  (`src/src/lib/pdfSession.ts:47`). The flag is what the autosave
  looks at. The trace shows the shortest way; `Uses` in the cfg selects others:
  an overlay drawn during a save, which the save does not hold and whose mark it
  clears, or an edit of the content, which marks the backend only.

### Further configurations

They are not among the runs, and are there to be run by hand. Two pass.
`Workstation_saves.cfg` (with `MCWorkstation`) is `OnlyAcceptanceStrays` with saves
from the menu beside acceptances. `ResourceStore_unlimited.cfg` (`MCResourceStore`)
is `store_share` for a store without a limit. The other five each state one
property that the code does not keep.

* `EditingEngine_lastpage.cfg` (with `MCEditingEngine`), `RetainsAPage`. `undo`
  does not read the page list back (`editing_core/engine.rs:408`). Insert a page,
  undo, delete page 0: the guard of the page organizer, "a PDF must retain at
  least one page", counts a page that is no longer there, and the document ends
  with none. For the same reason an export after such an undo fails: the file is
  validated against the stale count.
* `Workstation_accept.cfg` (`MCWorkstation`), `NoForeignOverlays`. Open a document,
  have its text recognised and accept it; before the backend answers, the opening of
  another document makes that one active. The overlays of the first are stored in
  the sidecar of the second, whose own overlays they replace. The comment on
  `src/src/features/pdf-editor/projectPersistence.ts:108` has it that the session of an object is not stored
  and that of the active document put in when the project is opened: from then on
  they are the second document's. `acceptOcrOverlays` does reject a
  "foreign-session result" (`src/src/App.tsx:412`), but compares it with the tab of
  its own render. `OnlyAcceptanceStrays`, in the runs, says that this is the only
  way for an overlay to get into another document's sidecar.
* `Workstation_overlays.cfg` (`MCWorkstation`), `OpeningKeepsOverlays`. Opening a
  document that has a project replaces the objects of all open documents
  (`src/src/features/pdf-editor/usePdfEditorState.ts:60`), and the next save of one
  of them stores an empty list.
* `Workstation_close.cfg` (`MCWorkstation`), `ClosingTakesOneTab`. `closeTab` sets
  the tabs to those it captured (`src/src/state/useWorkstationState.ts:128`).
  `onRestore` calls the one of the first render, when there were none: open, launch
  again, and the document that has just been reopened has no tab, while its session
  is open in the backend. In the same way a tab opened while another is being
  closed is lost.
* `Journal_abandon.cfg` (`MCJournal`), `AbandonReverts`, with `Unstashed`. Begin,
  `pdf_update_object`, abandon: the object keeps its new content, where
  `src/include/mupdf/pdf/object.h:399` says "Revert to the state when you began".
  `pdf_rearrange_pages` is such a caller: it replaces the root
  (`src/source/pdf/pdf-clean-file.c:314`) in an operation that it abandons on error.

Observed while reading, and not modelled: `fz_remove_item` does not subtract what
it removes, although `BooksAgree` only says that the total is off by exactly that;
`fz_shrink_store` takes its percentage of the limit and not of what is in the store
(`store.h:382-391`); `pdf_deserialise_journal` puts entries where
`pdf_add_journal_fragment` does not look for them and fails at the first fragment
(`pdf-object.c:1733-1745`); after a signature, which starts a new section, an undo
swaps with that section only (`pdf-xref.c:542`); `ai_cancel_task` waits for the
mutex that the task it cancels holds (`ai_core/ipc.rs:9-39`); a library file that a
crash left staged away is read as an empty library (`shell_persistence.rs:391`).

## 4. The proofs

| Theorem | States |
|---|---|
| `ReplacementIsSound` | `TypeOK` and `ReplacementInvariant`, always |
| `SaveIsWellTyped` | `TypeOK` |
| `TargetIsNeverTorn`, `OkIsHonest`, `BackupStaysOlder` | `TargetNeverTorn`, `OkMeansInstalled`, `BackupIsOlder` |
| `SaveIsDurable` | `Spec => Durable!Spec` |
| `SessionsAreCoherent`, `SessionsAreWellTyped` | `TypeOK` and `CoherenceInvariant`, always |
| `ViewStaysCurrent`, `CleanFlagIsRight`, `PageListStaysRight` | `ViewIsCurrent`, `CleanMeansSaved`, `PageListMatchesBytes` |
| `RevisionIsAKey` | `RevisionNamesContent` |
| `EngineIsSound`, `EngineIsWellTyped` | `EngineInv` and `EngineTypeOK`, always |
| `FilesStayUnique`, `SnapshotsStayReadable`, `SnapshotsEndWithSession`, `FlagStaysRight` | `FilesAreUnique`, `SnapshotsReadable`, `NothingOutlivesItsSession`, `FlagIsRight` |
| `EngineIsLinear` | `EngineSpec => HistoryIsLinear` |
| `ShellIsSound`, `ShellIsWellTyped` | `ShellInvariant` and `TypeOK`, always |
| `OnlyAcceptanceEverStrays`, `StacksAlwaysFit`, `TabsAlwaysSound` | `OnlyAcceptanceStrays`, `StacksFitObjects`, `TabsAreSound` |
| `JournalIsWellTyped`, `ReadingFindsNewest`, `EntriesStaySimple` | `TypeOK`, `IndexFindsNewest`, `OnceInEntry` |
| `BeginsStayRecoverable`, `VersionsStayRecoverable`, `ReferencesAlwaysResolve` | `BeginsAreRecoverable`, `VersionsAreRecoverable`, `ReferencesResolve` |
| `AbandonRevertsWhatIsStashed` | `Spec => AbandonReverts` |
| `HistoryImplementsALine` | `Spec => HistoryIsALine` |
| `PagesFitTogether`, `PagesCoherent` | `PagesInv`, always; `PagesAreCoherent` |
| `PagesEvictOldest` | `Spec => PagesEvictLeastRecent` |
| `GlyphsFitTogether` | `GlyphsInv`, always |
| `GlyphsCoherent`, `GlyphsFreed` | `GlyphsAreCoherent`, `GlyphsFreedAfterLastUse` |
| `TableFitsTogether` | `TableInv`, always |
| `SearchesAlwaysEnd`, `StoredIsFound` | `TableSearchesEnd`, `TableFindsWhatIsStored` |
| `CachesTyped` | `TypeOK` of the three |
| `StoreIsSound`, `StoreTyped` | `StoreInv` and `TypeOK`, always |
| `CountsAreRight`, `NoUseAfterFree`, `BooksAreRight` | `RefsAreUsers`, `NothingReachableDestroyed`, `BooksAgree` |
| `NoOrphanIsForgotten`, `StoreEndsEmpty` | `OrphansAreReaped`, `NothingLeft` |

They hold for any number of saves, any set of writers, and any number of
sessions, paths, pages and page contents; for any budgets, thresholds and
operations per transaction of the engine; for any documents, opens, launches and
overlay objects of the shell, with one open, save, close and acceptance at a time;
for any file, objects, changes and nesting of the
journal; for any keys, sizes and limits of the caches and the store, none
included, and any number of threads, for the hash table up to what its size allows. The last five of the journal assume `Unstashed = FALSE`, as its run
does: callers alter objects through the journal. Without that
`AbandonReverts` does not hold (section 3).

**IncrementalSave.** Assumption `FsyncWhereNeeded`: where power may be lost every
caller asks for fsync. That a target is never torn is not inductive: one has to
know what is in the temporary when it is renamed, that the backup is whole when
it is moved back, and that the target is absent at `commit`. `ReplacementInvariant`
says, for each value of `pc`, where the new version is and that whatever is about
to be moved is whole and in order; together with `TypeOK` it is inductive, one
step of the proof per file-system call. For an export it says in addition that
while a file may still be withdrawn the backup holds whatever was acknowledged
(`acked <= bak.v`). The refinement maps the abstract file to
the version that can be read back (`Readable`: that of the target, or of the
backup while there is none, and nothing if that file is torn). It needs in
addition that this version never goes back but when an export withdraws it, and
then not behind an acknowledged one, which the invariant gives at the renames and
the removals.

**DocumentSession.** The invariant is `Coherent`, for each session: the page list
has the length of the document, every cached page carries the current revision
and there is a handle wherever there are pixels, handle and pixels are those of
the bytes unless a revision is owed, and the flag is right unless it is owed.
The clause that pixels exist only with a handle is the strengthening: `Render`
draws from the handle, so pixels are right because the handle was, and both are
dropped together. A command replaces one session, so `UpdatePreserves` reduces
each to a lemma about one record. `RevisionIsAKey` is an action property and
follows from what each operation does to bytes, revision and debts.

**EditingEngine.** The invariant is `EngineInv`: types, one conjunct for the
stacks of a session, one for the transaction under way, one for the flags.
`SnapshotsReadable` is not inductive: a file that one entry drops might be the
file of another, or of a snapshot about to be taken. `FilesAreUnique` is the
strengthening: an entry on disk has a number of its own, below the next one,
over both stacks and the transaction, and the files there are those of entries.
`FlagIsRight` speaks of sessions between transactions; inductively the session of
a running one is right until an operation has been applied (`FlagsAreRight`).
Pruning drops the oldest entries until the limits hold; the proofs use of it that
what is kept is the rest of the list, no deeper than the limit, and that what goes
is removed from the disk (`KeptIsARest`). `EngineIsLinear` maps the stacks to the past and the
future, and the bytes, or the snapshot of the running transaction, to the
present; undo with nothing stored for redo is the branch where the future is
forgotten.

**Workstation.** `MaxLaunches` is at least one: the shell has been started.
`ShellInvariant` holds types; that there is a document for each session ever opened
(an owner function, existentially quantified, since the backend does not say);
that tabs, tasks and objects name sessions with the document they believe them to
have; that objects are numbered and of the document their identity names; that
the entries of either stack can be applied one after the other to the objects
that are there; and that no two tabs, of those shown and of those captured by a
task, have one id. `OnlyAcceptanceStrays` is not inductive: it speaks of sidecars
only, and what is stored with a document is loaded into the editor, onto the
stacks and into the next save. `AtHome` is the same promise for all of these, and
it is kept since a save stores the objects of the session it started with, which
is that of one document, unless it is the save of an acceptance; that is when the
document joins `strayed`. `StacksFitObjects` leaves recognised text out: whether it
is already there is decided in the render of the click, so that undo may have
taken it away, or redo have brought it back, by the time it is added.

**Journal.** Assumption `FileAssumption`: a file is a nonempty sequence of
sections whose entries are blank or hold a value, and a value is no reference.
The proofs see a document as one function, its *top*: the newest section, or a
blank one before the first change, for all other sections are the file's own.
`Sane` is the invariant without history: there is a top, the index leads past no
definition, nothing is defined above the document's length, and the entries, open
operations included, mention each object once. `IndexFindsNewest` and
`OnceInEntry` follow from it, for callers of either kind.

What undo and abandon restore is not a function of the state that a step could be
followed through: what a swap gives depends on all later ones. `Recoverable` says
instead that there *are* tops, `G` of the open operations and `V` along the line,
from which the present one is reached by the recorded swaps, each swap being
possible in the direction it will be needed (`Swaps`), each showing what `begun`
and `line` remember, and each in which every reference resolves (`Resolves`; an
operation only adds definitions, `Grows`). The models' recursive `Version(k)` is
then shown to be the k-th of them by induction (`VersionIs`). The hard case is the
implicit operation that ends after an undo: it does not discard what can be
redone. `Untouched` is what saves it: while something can be redone, what is open
has only added objects, under numbers that nothing to be redone mentions. The
later tops are then those of before, overlaid with what was added
(`TimelineOverlay`). The refinement `HistoryIsALine` needs of it that such an
operation leaves what is seen unchanged.

**Caches.** Assumptions: sizes and limits are naturals, and a rendered page has at
least one byte. Keys and threads may be infinitely many: what is cached is finite
because a list is, and the holders of a glyph because each joined in a step. In
the page cache the invariant is `PagesInv`: the queue holds each key of the map once, in the order of
last use, the counter is the sum of the sizes, and both limits hold. The loop that
evicts stops at the shortest prefix after which they do (`EvictToFit`), which
exists since the empty cache fits; dropping a prefix of the queue and removing its
keys from the map take the same sum from the counter. `PagesEvictLeastRecent`
needs of the invariant that the queue *is* the order of use, and of the minimum
that a shorter prefix would not have done.

In the glyph cache `CacheIsCoherent` is not inductive: nothing in it keeps a thread
from bringing back a rendering that has been freed. `GlyphsInv` counts: a
rendering has as many references as holders, and one more while it is listed
(`Counted`), and is in memory as long as that is not zero; the chains hold what the
list holds, no key is listed twice, the total is the sum over the list and within
the limit. `EncacheMakesRoom` is its hard lemma: the oldest are evicted until the
total fits, the new glyph itself if it must be. A thread that draws a Type 3 glyph
has none of that key (`DrawsAnew`) and looks it up again when it is done, without
which the list would come to hold the key twice.

In the hash table neither property is inductive: that a key is found now does not
say that it will be when another one has left a hole on the way to it. `Sound` does:
no key is in the table twice (`Once`), and the search for an entry passes no free
one on its way from its home (`Reached`, with `Passes`, which is the comparison of
`do_removal`). `RemainderForward` turns the remainders of the code into one case
distinction, the step round the end. `StopIs` and `FoundIs` say where a search
stops and that it finds what is there; `InsertedIsSound`, `RehashedIsSound` and
`FilteredIsSound` that the operations keep this. `HalfStep` is the hard one, for one
look of a removal. `Half` says what holds in its middle: only the hole interrupts
the way to an entry, and only to an entry further behind than the looks have come.
An entry that moves into the hole leaves a new one, and the search for an entry in
front cannot pass it, since it would first have had to pass the free entry at which
the loop is going to stop; this is why a table that is quite full may not be removed
from. That there is such an entry is the other half of `TableInv`, `Bounded`.
`fz_hash_insert` looks at the load only before it grows. A thread that has lost the
race to grow inserts into whatever the table has become, so the load may come to
one more than the limit for each such thread: the threads that wait (`Waiting`) are
counted along with the load, and a table that grows doubles and makes room for all.
So the number of threads must be small next to the table: `ThreadsAssumption` bounds
it by what the initial size leaves above the limit after it has doubled once. The
table that threads share starts with 4096 entries (`src/source/fitz/store.c:71`),
which allows 1638 threads; the other tables have no lock and belong to one. The run
has 2 threads, the most that its 6 entries allow.

**ResourceStore.** Assumptions: the threads are finite in number, a value has a
positive size, images have a hash key, and a document is used by one thread; keys
and values may be infinitely many. None of the properties is inductive, for each
step of a call relies on what the calls of the other threads have taken out of the
store and not yet destroyed. `StoreInv` therefore has a part for the calls
(`CallsInv`): a thread inside of a critical section has the lock, the value it is
storing is one it holds under a key it may use, and no two threads store, take out
or destroy the same value. The other parts are `Books` (what can be found is
what is listed or being stored, `Known`, and the hash table knows all of it that has
a hash key; the total is the sum over what is listed and counted), `Accounts` (a
count is the holders of a value plus one for the store; what is allocated is held,
in the store, or about to be destroyed, and the last of these is neither of the
others; an image has a reference for each item under it, in the store or in a chain
that a thread has yet to discard, and one for each user), `Flags` and `Contexts`.
Three lemmas carry the proof. `Stepped` says what a thread's step from one place of
its calls to another does to the values on their way in, out, and to destruction.
`RemoveStep` is the common part of all actions that take items out, evicting,
reaping, filtering, removing and emptying. `InsertingUsed` is why none of them
takes an item that another thread is still linking into the list: it has two
references, its key is in use, and there is a context. `StoreEndsEmpty` follows
since the last context is gone only when every thread has given up what it held.

**CommonLemmas.** A nonempty set of naturals has a least element; a set of naturals
that holds zero and with a number its successor holds all (`Induction`), and the same
for sequences (`SequenceInduction`): induction over a set, not over an operator.
Functions defined by recursion over a sequence exist (`RecursionExists`). The prover
takes no recursive definition for granted: it is a `CHOOSE`, and nothing is known of
it until a function that satisfies the equation is shown to exist. That is done
for the sum over a finite set that the community modules define (`TotalIsFold`,
then `TotalRemove`, `TotalUnion`, `TotalMinus`) and for taking entries out of a
sequence (`Without`: what is left, in which order, and that nothing is twice).

Model-checked only: the violated
properties, which are refuted; and `TasksEnd`, that the open, the save and the
close are idle again and again, since liveness under fairness and
`ENABLED` are out of the prover's reach. So are induction theorems with an
operator as a parameter, and `RECURSIVE` operators; the recursion in these modules
is written as functions.

## 5. Not modelled, and why

* Drawing, parsing, fonts, content streams, comparison, vectors, reports, the
  engineering calculator: functions of their input, no state between calls.
* Most of MuPDF. The bulk of its half a million lines are tables (character maps,
  glyph lists, colour profiles, fonts), bindings, command line tools, decoders,
  interpreters and layout, which keep no state between calls, or third-party code.
  What is shared between threads or undone is in the four modules above; the map
  can therefore not come near a large share of the C lines, and says nothing by
  covering few of them.
* In the journal: signing and the sections it starts, saving, deleting objects,
  streams, the local section that holds generated appearances, the caches of pages
  and of the page tree that undo drops, the serialised form.
* In the store: keeping a value twice in one thread, scavengers other than the
  store, further contexts cloned while others run.
* The AI models, OCR programs, BentoPDF: external.
* Zoom, rotation of the view, permissions, overlays, watermarks: nothing in the
  properties depends on them; a rotation of a page is an edit.
* In the shell: Save As (whose dialog adds one more await), reopening a session
  that has expired, the selection, moving and patching an overlay, the limit of 100
  entries on the undo stack, two opens or two closes over each other, and how long
  recognition itself takes.
* Lock poisoning: a panic inside a command, after which every command on the
  session fails.
* Two failures inside one call of the file system (a rename that half happens).

## 6. The plan

Done, in this order: the save, since every other promise ends in it; the
session, which everything else writes; the editing engine on top of it; the page
cache under it; the shell of the frontend above all of them; then the library's
shared state, store, table and glyphs, its journal, and the two other writers of
files.

Next, extending the model:

1. `ContentEditHistory`: records with snapshots under `MAX_SNAPSHOTS` and the
   byte limit, reverts in any order, composed with `DocumentSession`.
2. The reader of the registry: what a load finds in the window of a write.
3. The rest of `Workstation`: Save As with its dialog, expired sessions, several
   opens and closes at once; then its composition with `DocumentSession` in place
   of `live` and `changed`.
4. `Journal` with signatures and deletion; its composition with the store, whose
   items undo purges.
5. `AnnotationStore`, `ShellLibrary`, `DocumentEngineHost`, the job scheduler,
   autosave and recovery rings.
6. `OcrJobs` and `AiTasks`: workers, time limits, cancellation, late answers;
   liveness under the fairness of threads that are running.

Then, proving more: the components above as they are modelled, and the composition
of `Workstation` with `DocumentSession` as a refinement.
