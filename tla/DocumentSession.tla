-------------------------- MODULE DocumentSession --------------------------
(***************************************************************************)
(* The open documents of the backend: document_core's SessionStore, and    *)
(* the commands of the other modules that write into a session.            *)
(*                                                                         *)
(* A document is the sequence of its pages; page i of the code is element  *)
(* i + 1.  A session keeps the document twice more besides its bytes: as a *)
(* parsed handle, from which text and pixels are produced, and as rendered *)
(* pages in a cache keyed by the document revision.  Commands are          *)
(* synchronous and run one at a time, so each is one step.                 *)
(*                                                                         *)
(* Zoom, rotation and fonts are left out: nothing below depends on them.   *)
(* The cache never evicts here (its capacity is 256 entries); its own      *)
(* bookkeeping is the subject of PageRenderCache.                          *)
(***************************************************************************)
EXTENDS Naturals, Sequences

CONSTANTS
    Pages,         \* the contents a page can have
    NoDoc,         \* no document: a missing file, a handle not yet parsed
    Paths,         \* the files of the file system
    StoredFiles,   \* what a file may hold at start
    Requested,     \* the page indices a command may ask for
    MaxOpens,      \* bound on the number of documents opened
    MaxRevision    \* bound on document_revision

Docs == Seq(Pages)

ASSUME NoDocAssumption == NoDoc \notin Docs
ASSUME FilesAssumption == StoredFiles \subseteq Docs \cup {NoDoc}
ASSUME RequestedAssumption == Requested \subseteq Nat
ASSUME BoundsAssumption == MaxOpens \in Nat /\ MaxRevision \in Nat

VARIABLES
    sessions,   \* the live sessions by id
    nextId,     \* the id of the next session
    files       \* the file system

vars == <<sessions, nextId, files>>

\* What a command that wrote into a session and returned without more still
\* owes it: a revision, and the dirty flag.  A history variable, read by the
\* properties only.
Debts == {"revision", "dirty"}

CacheEntry == [page : Nat, rev : Nat, shows : Pages]

Session ==
    [path : Paths, bytes : Docs, pages : Nat, pageCount : Nat,
     currentPage : Nat, viewportPage : Nat, isDirty : BOOLEAN,
     revision : Nat, parsed : Docs \cup {NoDoc}, cache : SUBSET CacheEntry,
     saved : Docs, owes : SUBSET Debts]

TypeOK ==
    /\ nextId \in Nat \ {0}
    /\ DOMAIN sessions \subseteq 1 .. nextId - 1
    /\ sessions \in [DOMAIN sessions -> Session]
    /\ files \in [Paths -> Docs \cup {NoDoc}]

Init ==
    /\ sessions = <<>>
    /\ nextId = 1
    /\ files \in [Paths -> StoredFiles]

Live == DOMAIN sessions

-----------------------------------------------------------------------------
\* Mutants: the parsed handle survives the revision; the revision stays.
InvalidateKeepingHandle(s) ==
    [s EXCEPT !.revision = @ + 1, !.cache = {}, !.owes = @ \ {"revision"}]

InvalidateKeepingRevision(s) ==
    [s EXCEPT !.parsed = NoDoc, !.cache = {}, !.owes = @ \ {"revision"}]

\* increment_document_revision: every derived copy is dropped.
Invalidate(s) ==
    [s EXCEPT !.revision = @ + 1, !.parsed = NoDoc, !.cache = {},
              !.owes = @ \ {"revision"}]

Write(s, d) == [s EXCEPT !.bytes = d]

MarkDirty(s) == [s EXCEPT !.isDirty = TRUE]

Owing(s, debts) == [s EXCEPT !.owes = @ \cup debts]

\* refresh_doc_metadata.
RefreshMetadata(s) == [s EXCEPT !.pages = Len(s.bytes)]

\* get_or_parse_document.
Parse(s) == IF s.parsed = NoDoc THEN [s EXCEPT !.parsed = s.bytes] ELSE s

CanInvalidate(s) == s.revision < MaxRevision

Update(id, s) == sessions' = [sessions EXCEPT ![id] = s]

-----------------------------------------------------------------------------
\* Mutant: the id counter is not advanced.
OpenKeepingCounter(p) ==
    /\ files[p] \notin {NoDoc, <<>>}
    /\ sessions' = [id \in Live \cup {nextId} |->
                       [path |-> p, bytes |-> files[p],
                        pages |-> Len(files[p]), pageCount |-> Len(files[p]),
                        currentPage |-> 0, viewportPage |-> 0, isDirty |-> FALSE,
                        revision |-> 0, parsed |-> files[p], cache |-> {},
                        saved |-> files[p], owes |-> {}]]
    /\ UNCHANGED <<nextId, files>>

\* A document without pages is refused; opening a file twice makes two
\* sessions.
Open(p) ==
    /\ nextId <= MaxOpens
    /\ files[p] \notin {NoDoc, <<>>}
    /\ LET d == files[p]
           s == [path |-> p, bytes |-> d, pages |-> Len(d), pageCount |-> Len(d),
                 currentPage |-> 0, viewportPage |-> 0, isDirty |-> FALSE,
                 revision |-> 0, parsed |-> d, cache |-> {},
                 saved |-> d, owes |-> {}]
       IN  sessions' = [id \in Live \cup {nextId} |->
                           IF id = nextId THEN s ELSE sessions[id]]
    /\ nextId' = nextId + 1
    /\ UNCHANGED files

Close(id) ==
    /\ sessions' = [i \in Live \ {id} |-> sessions[i]]
    /\ UNCHANGED <<nextId, files>>

\* The current page moves before the request is checked.  Drawing may fail
\* on any page.
Hit(s, i) == \E e \in s.cache : e.page = i /\ e.rev = s.revision

Drawable(s, i) == i < s.pages /\ i < Len(s.parsed)

Rendered(s, i) ==
    [s EXCEPT !.cache = @ \cup {[page |-> i, rev |-> s.revision,
                                 shows |-> s.parsed[i + 1]]}]

Render(id, i) ==
    LET moved == [sessions[id] EXCEPT !.currentPage = i, !.viewportPage = i]
        s == Parse(moved)
    IN  /\ \/ Update(id, s)
           \/ /\ ~Hit(s, i) /\ Drawable(s, i)
              /\ Update(id, Rendered(s, i))
        /\ UNCHANGED <<nextId, files>>

ExtractText(id) ==
    /\ Update(id, Parse(sessions[id]))
    /\ UNCHANGED <<nextId, files>>

\* doc_navigate and go_to_page.
GoToPage(id, i) ==
    /\ i < sessions[id].pages
    /\ Update(id, [sessions[id] EXCEPT !.currentPage = i, !.viewportPage = i])
    /\ UNCHANGED <<nextId, files>>

-----------------------------------------------------------------------------
\* Save, and Save As when p is another path.
Save(id, p) ==
    LET s == sessions[id]
    IN  /\ CanInvalidate(s)
        /\ files' = [files EXCEPT ![p] = s.bytes]
        /\ Update(id, Invalidate([s EXCEPT !.path = p, !.isDirty = FALSE,
                                           !.saved = s.bytes,
                                           !.owes = @ \ {"dirty"}]))
        /\ UNCHANGED nextId

\* A save that returns an error may have replaced the file, or left it
\* staged away under its backup name (module IncrementalSave).
SaveFails(id, p) ==
    /\ files' \in {[files EXCEPT ![p] = d] : d \in {sessions[id].bytes, NoDoc}}
    /\ UNCHANGED <<sessions, nextId>>

-----------------------------------------------------------------------------
\* The document with page i replaced.
WithPage(d, i, x) == [d EXCEPT ![i + 1] = x]

\* Mutant: the edit forgets the dirty flag.
TextEditUnflagged(id, i, x) ==
    LET s == sessions[id]
    IN  /\ CanInvalidate(s) /\ i < Len(s.bytes)
        /\ Update(id, Invalidate(Write(s, WithPage(s.bytes, i, x))))
        /\ UNCHANGED <<nextId, files>>

\* Content edits: apply_native_text_edit, the other native edits and images.
TextEdit(id, i, x) ==
    LET s == sessions[id]
    IN  /\ CanInvalidate(s) /\ i < Len(s.bytes)
        /\ Update(id, Invalidate(MarkDirty(Write(s, WithPage(s.bytes, i, x)))))
        /\ UNCHANGED <<nextId, files>>

\* An edit that fails its verification puts the old bytes back.
TextEditRejected(id) ==
    /\ CanInvalidate(sessions[id])
    /\ Update(id, Invalidate(sessions[id]))
    /\ UNCHANGED <<nextId, files>>

\* Form field commands.  When the metadata cannot be refreshed the command
\* returns early, with the new bytes in place.
FormEdit(id, i, x) ==
    LET s == sessions[id]
        written == Write(s, WithPage(s.bytes, i, x))
    IN  /\ i < Len(s.bytes)
        /\ \/ /\ CanInvalidate(s)
              /\ Update(id, Invalidate(MarkDirty(RefreshMetadata(written))))
           \/ Update(id, Owing(written, Debts))
        /\ UNCHANGED <<nextId, files>>

\* apply_annotation_to_pdf only replaces the bytes.
AnnotCreate(id, i, x) ==
    LET s == sessions[id]
    IN  /\ i < Len(s.bytes)
        /\ Update(id, Owing(Write(s, WithPage(s.bytes, i, x)), Debts))
        /\ UNCHANGED <<nextId, files>>

\* Mutant: the session takes over the exported bytes and nothing more.
ExportWithoutRevision(id, p, i, x) ==
    LET s == sessions[id]
    IN  /\ p # s.path /\ i < Len(s.bytes)
        /\ files' = [files EXCEPT ![p] = WithPage(s.bytes, i, x)]
        /\ Update(id, MarkDirty(Write(s, WithPage(s.bytes, i, x))))
        /\ UNCHANGED nextId

\* doc_export writes a copy, with annotations or redactions applied to it,
\* to a path other than the session's own; in the mode
\* apply_to_current_document the session then takes over the exported bytes.
Export(id, p, i, x) ==
    LET s == sessions[id]
        exported == WithPage(s.bytes, i, x)
    IN  /\ p # s.path /\ i < Len(s.bytes)
        /\ Len(s.bytes) = s.pageCount
        /\ files' = [files EXCEPT ![p] = exported]
        /\ \/ UNCHANGED sessions
           \/ CanInvalidate(s) /\ Update(id, Invalidate(MarkDirty(Write(s, exported))))
        /\ UNCHANGED nextId

\* The commit of an export can fail with the old target staged away.
ExportFails(id, p) ==
    /\ p # sessions[id].path
    /\ files' = [files EXCEPT ![p] = NoDoc]
    /\ UNCHANGED <<sessions, nextId>>

-----------------------------------------------------------------------------
Read(id) ==
    \/ ExtractText(id)
    \/ \E i \in Requested : Render(id, i) \/ GoToPage(id, i)

Store(id) ==
    \E p \in Paths : Save(id, p) \/ SaveFails(id, p) \/ ExportFails(id, p)

Edit(id) ==
    \/ TextEditRejected(id)
    \/ \E i \in Requested, x \in Pages :
          \/ TextEdit(id, i, x) \/ FormEdit(id, i, x) \/ AnnotCreate(id, i, x)
          \/ \E p \in Paths : Export(id, p, i, x)

Next ==
    \/ \E p \in Paths : Open(p)
    \/ \E id \in Live : Close(id) \/ Read(id) \/ Store(id) \/ Edit(id)

Spec == Init /\ [][Next]_vars

-----------------------------------------------------------------------------
(***************************************************************************)
(* Properties.                                                             *)
(***************************************************************************)

\* The parsed handle is a handle of the current bytes.
CurrentHandle(s) == s.parsed \in {NoDoc, s.bytes}

\* A rendered page that a request can still hit shows the page of the
\* current bytes, and there is such a page.
CurrentPixels(s) ==
    \A e \in s.cache : e.rev = s.revision =>
        e.page < Len(s.bytes) /\ e.shows = s.bytes[e.page + 1]

\* What the user sees and what text is extracted from is what would be
\* saved, except after a write that was given no revision.
ViewIsCurrent ==
    \A id \in Live : LET s == sessions[id] IN
        "revision" \in s.owes \/ (CurrentHandle(s) /\ CurrentPixels(s))

\* A session whose flag says it needs no save has nothing but what it last
\* read from or wrote to its file, except after a write that did not set
\* the flag.
CleanMeansSaved ==
    \A id \in Live : LET s == sessions[id] IN
        s.isDirty \/ s.bytes = s.saved \/ "dirty" \in s.owes

\* A page index the session accepts names a page of the document.
PageListMatchesBytes ==
    \A id \in Live : sessions[id].pages = Len(sessions[id].bytes)

\* A revision names one content of a session: the key under which rendered
\* pages are cached may be trusted.
Keyed(s, t) ==
    s.bytes = t.bytes \/ t.revision > s.revision \/ "revision" \in t.owes

RevisionNamesContent ==
    [][\A id \in Live \cap Live' : Keyed(sessions[id], sessions'[id])]_vars

\* What DocumentSession::cached_document and render_from_parsed state of the
\* handle, with no exception.
HandleIsCurrent == \A id \in Live : CurrentHandle(sessions[id])

\* The strengthening the proofs use: pixels come from a handle, and both go
\* when the revision moves.
Coherent(s) ==
    /\ s.pages = Len(s.bytes) /\ s.pageCount = Len(s.bytes)
    /\ \A e \in s.cache : e.rev = s.revision /\ s.parsed # NoDoc
    /\ "revision" \in s.owes \/ (CurrentHandle(s) /\ CurrentPixels(s))
    /\ s.isDirty \/ s.bytes = s.saved \/ "dirty" \in s.owes

CoherenceInvariant == \A id \in Live : Coherent(sessions[id])
=============================================================================
