--------------------------- MODULE Workstation ----------------------------
(***************************************************************************)
(* The application's shell: tabs, the overlay objects of the editor, and   *)
(* the tasks that open, save, autosave, close and restore documents.  The  *)
(* shell has one thread; a task is a function that awaits answers of the   *)
(* backend, and any other event may be handled at an await.  What a task   *)
(* read before an await it keeps: a callback sees the tabs of the render   *)
(* it was created in, and replaces the present tabs by what it computes    *)
(* from those.                                                             *)
(*                                                                         *)
(* One open, one save, one close and one acceptance of recognised text run *)
(* at a time; only the save is guarded against a second one in the code.   *)
(* An overlay object is its identity; where it is and what it shows, the   *)
(* selection, titles, pages, zoom and the depth of the undo stack (100)    *)
(* are left out, and so is Save As.  The backend is its set of sessions    *)
(* and their modified flags, its files the overlays in the project         *)
(* sidecars.  Documents differ in content, and recognition finds one block *)
(* in each.                                                                *)
(***************************************************************************)
EXTENDS Naturals, Sequences, FiniteSets

CONSTANTS
    Docs,          \* paths of documents
    MaxOpens,      \* bound on sessions opened
    MaxObjects,    \* bound on overlay objects drawn and generated, and on acceptances begun
    MaxLaunches,   \* bound on launches
    Uses           \* what the user does besides opening documents and drawing on them

AllUses == {"save", "close", "undo", "autosave", "turnPage", "editContent", "restore",
            "recognise", "generate"}

ASSUME BoundsAssumption == {MaxOpens, MaxObjects} \subseteq Nat /\ MaxLaunches \in Nat \ {0}
ASSUME UsesAssumption == Uses \subseteq AllUses

VARIABLES
    tabs, active,      \* the open tabs and the active one
    objects,           \* editor.objects, of all sessions
    undo, redo,        \* the editor's stacks, of all sessions
    opening, saving, closing, restoring,   \* the tasks under way
    live, changed,     \* backend sessions, and those with unsaved bytes
    sidecar,           \* overlays stored for each document
    opened, created, launches,
    accepting,         \* the acceptance of recognised text under way
    strayed            \* history: documents that were saved with what was accepted for another

shell == <<tabs, active>>
editor == <<objects, undo, redo, created>>
tasks == <<opening, saving, closing, restoring>>
backend == <<live, changed, sidecar, opened>>
acceptance == <<accepting, strayed>>
vars == <<shell, editor, tasks, backend, acceptance, launches>>

Sessions == 1..MaxOpens
Doc(n) == <<"doc-session", n>>
Pending(n) == <<"pending-reopen", n>>
NoTab == <<"none", 0>>
TabIds == {Doc(n) : n \in Sessions} \cup {Pending(n) : n \in Sessions}
Tab == [id : TabIds, doc : Docs, dirty : BOOLEAN, ready : BOOLEAN]
NewTab(id, d) == [id |-> id, doc |-> d, dirty |-> FALSE, ready |-> FALSE]

\* Number 0 is what recognition finds: it is named by the content of the
\* document, so accepting it twice makes the same object.
ObjectIds == Docs \X (0..MaxObjects)
Recognised(d) == <<d, 0>>
Object == [id : ObjectIds, session : Sessions]
NoProject == [stored |-> FALSE, ids |-> {}]
Projects == {NoProject} \cup [stored : {TRUE}, ids : SUBSET ObjectIds]

Entry == [op : {"add", "delete"}, object : Object]
Idle == [pc |-> "idle"]

TypeOK ==
    /\ tabs \in Seq(Tab)
    /\ active \in TabIds \cup {NoTab}
    /\ objects \subseteq Object
    /\ undo \in Seq(Entry) /\ redo \in Seq(Entry)
    /\ opening \in {Idle} \cup
          [pc : {"open", "state", "failed", "project", "record"}, doc : Docs,
           session : Sessions, restore : BOOLEAN]
    /\ saving \in {Idle} \cup
          [pc : {"pdf", "project", "library"}, session : Sessions, doc : Docs,
           ids : SUBSET ObjectIds, added : SUBSET Object, auto : BOOLEAN]
    /\ accepting \in {Idle} \cup
          [pc : {"overlays"}, session : Sessions, doc : Docs, ids : SUBSET ObjectIds,
           known : BOOLEAN]
    /\ strayed \subseteq Docs
    /\ closing = Idle
       \/ closing \in [pc : {"session", "index"}, tab : TabIds, seen : Seq(Tab)]
    /\ restoring \in Seq(Tab)
    /\ live \subseteq Sessions /\ changed \subseteq live
    /\ sidecar \in [Docs -> Projects]
    /\ opened \in 0..MaxOpens /\ created \in 0..MaxObjects
    /\ launches \in 1..MaxLaunches

Init ==
    /\ tabs = <<>> /\ active = NoTab
    /\ objects = {} /\ undo = <<>> /\ redo = <<>>
    /\ opening = Idle /\ saving = Idle /\ closing = Idle /\ restoring = <<>>
    /\ live = {} /\ changed = {}
    /\ sidecar = [d \in Docs |-> NoProject]
    /\ opened = 0 /\ created = 0 /\ launches = 1
    /\ accepting = Idle /\ strayed = {}

-----------------------------------------------------------------------------
\* Helpers of the shell's state.
RangeOf(s) == {s[i] : i \in DOMAIN s}
Ids(ts) == {t.id : t \in RangeOf(ts)}

UpdateTab(ts, id, dirty) ==
    [i \in DOMAIN ts |-> IF ts[i].id = id THEN [ts[i] EXCEPT !.dirty = dirty] ELSE ts[i]]

\* A tab whose session could not be initialised shows an error.
ErrorTab(ts, n) ==
    [i \in DOMAIN ts |-> IF ts[i].id = Doc(n) THEN [ts[i] EXCEPT !.ready = FALSE] ELSE ts[i]]

\* sessionStateToTabPatch: the tab is ready and has the backend's flag.
SyncTab(ts, n) ==
    [i \in DOMAIN ts |-> IF ts[i].id = Doc(n)
                         THEN [ts[i] EXCEPT !.dirty = (n \in changed), !.ready = TRUE]
                         ELSE ts[i]]

\* The session of the active tab; isBackendPdfSession is HasSession.
HasSession == \E n \in Sessions : active = Doc(n) /\ active \in Ids(tabs)
ActiveSession == CHOOSE n \in Sessions : active = Doc(n)
TabOf(id) == CHOOSE t \in RangeOf(tabs) : t.id = id

\* Only a tab that is ready shows its page, and the overlays over it.
CanDraw == HasSession /\ TabOf(active).ready
ObjectsOf(n) == {o.id : o \in {x \in objects : x.session = n}}
Here == {o.id : o \in objects}

\* closeTab, with the tabs and the active tab of the render it belongs to.
WithoutTab(ts, id) ==
    LET kept[i \in 0 .. Len(ts)] ==
            IF i = 0 THEN <<>>
            ELSE IF ts[i].id = id THEN kept[i - 1]
            ELSE Append(kept[i - 1], ts[i])
    IN  kept[Len(ts)]
PositionOf(ts, id) == CHOOSE i \in DOMAIN ts : ts[i].id = id
Fallback(ts, id) ==
    LET rest == WithoutTab(ts, id)
        i == PositionOf(ts, id)
    IN IF rest = <<>> THEN NoTab ELSE rest[IF i > 2 THEN i - 1 ELSE 1].id

CloseTab(seen, seenActive, id) ==
    /\ tabs' = WithoutTab(seen, id)
    /\ active' = IF seenActive = id THEN Fallback(seen, id) ELSE active

-----------------------------------------------------------------------------
(***************************************************************************)
(* Opening: openPdfPath.                                                   *)
(***************************************************************************)

StartOpen(d) ==
    /\ opening = Idle /\ opened < MaxOpens
    /\ opening' = [pc |-> "open", doc |-> d, session |-> opened + 1, restore |-> FALSE]
    /\ UNCHANGED <<shell, editor, saving, closing, restoring, backend, acceptance, launches>>

\* The loop of onRestore opens the tabs of the last session one by one.
StartReopen ==
    /\ opening = Idle /\ restoring # <<>> /\ opened < MaxOpens
    /\ opening' = [pc |-> "open", doc |-> Head(restoring).doc,
                   session |-> opened + 1, restore |-> TRUE]
    /\ UNCHANGED <<shell, editor, saving, closing, restoring, backend, acceptance, launches>>

\* Returning null: the placeholder of a restored tab is kept and shows an error.
OpenReturnsNull ==
    /\ opening' = Idle
    /\ restoring' = IF opening.restore THEN Tail(restoring) ELSE restoring

\* onRestore was created by the first render, when there was no tab.
TabsAtMount == <<>>

OpenReturns ==
    /\ opening' = Idle
    /\ IF opening.restore
       THEN /\ restoring' = Tail(restoring)
            /\ CloseTab(TabsAtMount, NoTab, Head(restoring).id)
       ELSE UNCHANGED <<restoring, shell>>

OpenFails ==
    /\ opening.pc = "open"
    /\ OpenReturnsNull
    /\ UNCHANGED <<shell, editor, saving, closing, backend, acceptance, launches>>

\* Mutant: the backend numbers sessions by how many there are.
OpenAnswersReusing ==
    /\ opening.pc = "open"
    /\ LET n == Cardinality(live) + 1 IN
       /\ opened' = opened + 1 /\ live' = live \cup {n}
       /\ tabs' = Append(tabs, NewTab(Doc(n), opening.doc))
       /\ active' = Doc(n)
       /\ opening' = [opening EXCEPT !.pc = "state", !.session = n]
    /\ UNCHANGED <<editor, saving, closing, restoring, changed, sidecar, acceptance, launches>>

OpenAnswers ==
    /\ opening.pc = "open"
    /\ LET n == opening.session IN
       /\ opened' = n /\ live' = live \cup {n}
       /\ tabs' = Append(tabs, NewTab(Doc(n), opening.doc))
       /\ active' = Doc(n)
    /\ opening' = [opening EXCEPT !.pc = "state"]
    /\ UNCHANGED <<editor, saving, closing, restoring, changed, sidecar, acceptance, launches>>

StateAnswers ==
    /\ opening.pc = "state" /\ opening.session \in live
    /\ tabs' = SyncTab(tabs, opening.session)
    /\ opening' = [opening EXCEPT !.pc = "project"]
    /\ UNCHANGED <<active, editor, saving, closing, restoring, backend, acceptance, launches>>

\* A session whose state cannot be read is closed again; its tab stays.
StateFails ==
    /\ opening.pc = "state"
    /\ tabs' = ErrorTab(tabs, opening.session)
    /\ opening' = [opening EXCEPT !.pc = "failed"]
    /\ UNCHANGED <<active, editor, saving, closing, restoring, backend, acceptance, launches>>

\* Nothing looks at whether the session could be closed.
FailedSessionClosed ==
    /\ opening.pc = "failed"
    /\ \/ live' = live \ {opening.session} /\ changed' = changed \ {opening.session}
       \/ UNCHANGED <<live, changed>>
    /\ OpenReturnsNull
    /\ UNCHANGED <<shell, editor, saving, closing, sidecar, opened, acceptance, launches>>

Loaded == {[id |-> i, session |-> opening.session] : i \in sidecar[opening.doc].ids}

\* Mutant: the stacks of the replaced objects are kept.
ProjectAnswersKeepingStacks ==
    /\ opening.pc = "project" /\ sidecar[opening.doc].stored
    /\ objects' = Loaded
    /\ opening' = [opening EXCEPT !.pc = "record"]
    /\ UNCHANGED <<shell, undo, redo, created, saving, closing, restoring, backend, acceptance, launches>>

\* onProjectLoaded replaces all objects and both stacks.
ProjectAnswers ==
    /\ opening.pc = "project" /\ sidecar[opening.doc].stored
    /\ objects' = Loaded
    /\ undo' = <<>> /\ redo' = <<>>
    /\ opening' = [opening EXCEPT !.pc = "record"]
    /\ UNCHANGED <<shell, created, saving, closing, restoring, backend, acceptance, launches>>

\* There is no project, it cannot be read, or it has been recorded.
OpenEnds ==
    /\ opening.pc \in {"project", "record"}
    /\ OpenReturns
    /\ UNCHANGED <<editor, saving, closing, backend, acceptance, launches>>

-----------------------------------------------------------------------------
(***************************************************************************)
(* Editing.  Every change of overlays marks the active tab, if it has a    *)
(* session; a change of the document's content is known to the backend     *)
(* alone, whose flag replaces the tab's whenever the page is turned.       *)
(***************************************************************************)

MarkEditorDirty == tabs' = IF HasSession THEN UpdateTab(tabs, active, TRUE) ELSE tabs

PushUndo(op, o) == undo' = Append(undo, [op |-> op, object |-> o]) /\ redo' = <<>>

NewObject == [id |-> <<TabOf(active).doc, created + 1>>, session |-> ActiveSession]

AddObject ==
    /\ CanDraw /\ created < MaxObjects
    /\ objects' = objects \cup {NewObject} /\ PushUndo("add", NewObject)
    /\ created' = created + 1
    /\ MarkEditorDirty
    /\ UNCHANGED <<active, tasks, backend, acceptance, launches>>

\* Any object may be the one selected: the selection outlives a change of tab.
DeleteObject(o) ==
    /\ o \in objects
    /\ objects' = objects \ {o} /\ PushUndo("delete", o)
    /\ MarkEditorDirty
    /\ UNCHANGED <<active, created, tasks, backend, acceptance, launches>>

\* What applying or reverting an entry leaves of the objects.
Put(o) == {x \in objects : x.id # o.id} \cup {o}
Drop(o) == {x \in objects : x.id # o.id}

\* The stacks are those of all documents; the active tab is marked, also
\* when there is nothing to undo.
Undo ==
    /\ "undo" \in Uses
    /\ IF undo = <<>> THEN UNCHANGED <<objects, undo, redo>>
       ELSE LET e == undo[Len(undo)] IN
            /\ objects' = IF e.op = "add" THEN Drop(e.object) ELSE Put(e.object)
            /\ redo' = Append(redo, e)
            /\ undo' = SubSeq(undo, 1, Len(undo) - 1)
    /\ MarkEditorDirty
    /\ UNCHANGED <<active, created, tasks, backend, acceptance, launches>>

Redo ==
    /\ "undo" \in Uses
    /\ IF redo = <<>> THEN UNCHANGED <<objects, undo, redo>>
       ELSE LET e == redo[Len(redo)] IN
            /\ objects' = IF e.op = "add" THEN Put(e.object) ELSE Drop(e.object)
            /\ undo' = Append(undo, e)
            /\ redo' = SubSeq(redo, 1, Len(redo) - 1)
    /\ MarkEditorDirty
    /\ UNCHANGED <<active, created, tasks, backend, acceptance, launches>>

EditContent ==
    /\ "editContent" \in Uses /\ CanDraw
    /\ ActiveSession \in live \ changed
    /\ changed' = changed \cup {ActiveSession}
    /\ UNCHANGED <<shell, editor, tasks, live, sidecar, opened, acceptance, launches>>

TurnPage ==
    /\ "turnPage" \in Uses /\ HasSession /\ ActiveSession \in live
    /\ tabs' = SyncTab(tabs, ActiveSession)
    /\ UNCHANGED <<active, editor, tasks, backend, acceptance, launches>>

SelectTab(id) ==
    /\ id \in Ids(tabs) \ {active}
    /\ active' = id
    /\ UNCHANGED <<tabs, editor, tasks, backend, acceptance, launches>>

-----------------------------------------------------------------------------
(***************************************************************************)
(* Saving: runSave, from the menu, from the autosave timer, or at the end  *)
(* of an acceptance, which gives it the overlays to save.                  *)
(***************************************************************************)

\* The document is that of the tab that is active by now.
TakeSave(ids, added, auto) ==
    /\ saving = Idle /\ HasSession
    /\ saving' = [pc |-> "pdf", session |-> ActiveSession, doc |-> TabOf(active).doc,
                  ids |-> ids, added |-> added, auto |-> auto]

\* The timer saves only a document that is marked.
AutosaveDue == "autosave" \in Uses /\ TabOf(active).dirty

\* The menu and the timer save what the active session has by now.
StartSave(auto) ==
    /\ TakeSave(ObjectsOf(ActiveSession), {}, auto)
    /\ IF auto THEN AutosaveDue ELSE "save" \in Uses
    /\ UNCHANGED <<shell, editor, opening, closing, restoring, backend, acceptance, launches>>

PdfSaved ==
    /\ saving.pc = "pdf" /\ saving.session \in live
    /\ changed' = changed \ {saving.session}
    /\ saving' = [saving EXCEPT !.pc = "project"]
    /\ UNCHANGED <<shell, editor, opening, closing, restoring, live, sidecar, opened, acceptance, launches>>

\* Mutant: the guard against a second save is not released after an error.
PdfSaveFailsGuarded ==
    /\ saving.pc = "pdf"
    /\ saving' = saving
    /\ UNCHANGED <<shell, editor, opening, closing, restoring, backend, acceptance, launches>>

\* An acceptance whose save failed deletes what it added, unless it is gone,
\* and marks the tab it was made for.
WithdrawAdded ==
    LET added == {a.id : a \in saving.added} IN
    \/ \E o \in objects :
          o.id \in added /\ objects' = objects \ {o} /\ PushUndo("delete", o)
    \/ added \cap Here = {} /\ UNCHANGED <<objects, undo, redo>>

MarkWithdrawn(ts) ==
    IF saving.added = {} THEN ts
    ELSE UpdateTab(ts, Doc((CHOOSE a \in saving.added : TRUE).session), TRUE)

PdfSaveFails ==
    /\ saving.pc = "pdf"
    /\ WithdrawAdded
    /\ tabs' = MarkWithdrawn(tabs)
    /\ saving' = Idle
    /\ UNCHANGED <<active, created, opening, closing, restoring, backend, acceptance, launches>>

ProjectSaved ==
    /\ saving.pc = "project"
    /\ sidecar' = [sidecar EXCEPT ![saving.doc] = [stored |-> TRUE, ids |-> saving.ids]]
    /\ tabs' = UpdateTab(tabs, Doc(saving.session), FALSE)
    /\ saving' = [saving EXCEPT !.pc = "library"]
    /\ UNCHANGED <<active, editor, opening, closing, restoring, live, changed, opened, acceptance, launches>>

ProjectSaveFails ==
    /\ saving.pc = "project"
    /\ WithdrawAdded
    /\ tabs' = MarkWithdrawn(UpdateTab(tabs, Doc(saving.session), TRUE))
    /\ saving' = Idle
    /\ UNCHANGED <<active, created, opening, closing, restoring, backend, acceptance, launches>>

\* The autosave's onSuccess clears the flag of the tab that is active by now.
AutosaveSucceeds == IF HasSession THEN UpdateTab(tabs, active, FALSE) ELSE tabs

\* The save returns, whether the library took the record or not.
LibraryRecorded ==
    /\ saving.pc = "library"
    /\ saving' = Idle
    /\ tabs' = IF saving.auto THEN AutosaveSucceeds ELSE tabs
    /\ UNCHANGED <<active, editor, opening, closing, restoring, backend, acceptance, launches>>

-----------------------------------------------------------------------------
(***************************************************************************)
(* Accepting text that recognition or generation found.  The acceptance    *)
(* adds an object and has it saved with what the editor held, of the tab   *)
(* it was made for, in the render it was called in.  Recognised text is    *)
(* accepted in the render of the click, but only when the backend has      *)
(* answered; another tab may be active by then.                            *)
(***************************************************************************)

StartAccept ==
    /\ "recognise" \in Uses /\ accepting = Idle /\ HasSession /\ created < MaxObjects
    /\ created' = created + 1
    /\ accepting' = [pc |-> "overlays", session |-> ActiveSession, doc |-> TabOf(active).doc,
                     ids |-> ObjectsOf(ActiveSession),
                     known |-> Recognised(TabOf(active).doc) \in Here]
    /\ UNCHANGED <<shell, objects, undo, redo, tasks, backend, strayed, launches>>

AddAndSave(o, ids) ==
    /\ objects' = Put(o) /\ PushUndo("add", o)
    /\ tabs' = UpdateTab(tabs, Doc(o.session), TRUE)
    /\ TakeSave(ids \cup {o.id}, {o}, FALSE)

\* The save is refused: another is under way, or no session is active.
AddInVain(o) ==
    /\ saving # Idle \/ ~HasSession
    /\ objects' = Drop(o)
    /\ undo' = undo \o <<[op |-> "add", object |-> o], [op |-> "delete", object |-> o]>>
    /\ redo' = <<>>
    /\ tabs' = UpdateTab(tabs, Doc(o.session), TRUE)
    /\ UNCHANGED saving

\* What was there at the click is not added again, but saved all the same.
AcceptRecognised ==
    /\ accepting # Idle
    /\ LET o == [id |-> Recognised(accepting.doc), session |-> accepting.session] IN
       \/ ~accepting.known /\ AddAndSave(o, accepting.ids)
       \/ ~accepting.known /\ AddInVain(o)
       \/ accepting.known /\ TakeSave(accepting.ids, {}, FALSE)
          /\ UNCHANGED <<tabs, objects, undo, redo>>
    /\ strayed' = IF saving' = saving THEN strayed
                  ELSE strayed \cup ({saving'.doc} \ {accepting.doc})
    /\ accepting' = Idle
    /\ UNCHANGED <<active, created, opening, closing, restoring, backend, launches>>

\* The backend fails or finds no text, or there is nothing new and no save.
AcceptNothing ==
    /\ accepting # Idle
    /\ accepting' = Idle
    /\ UNCHANGED <<shell, editor, tasks, backend, strayed, launches>>

\* Mutant: what is saved with it is not restricted to the document.
AcceptGeneratedWithAll ==
    /\ "generate" \in Uses /\ HasSession /\ created < MaxObjects
    /\ AddAndSave(NewObject, Here) \/ AddInVain(NewObject)
    /\ created' = created + 1
    /\ UNCHANGED <<active, opening, closing, restoring, backend, acceptance, launches>>

\* Generated text is there already when it is accepted.
AcceptGenerated ==
    /\ "generate" \in Uses /\ HasSession /\ created < MaxObjects
    /\ AddAndSave(NewObject, ObjectsOf(ActiveSession)) \/ AddInVain(NewObject)
    /\ created' = created + 1
    /\ UNCHANGED <<active, opening, closing, restoring, backend, acceptance, launches>>

-----------------------------------------------------------------------------
(***************************************************************************)
(* Closing the active tab, and leaving the application.                    *)
(***************************************************************************)

StartClose ==
    /\ "close" \in Uses /\ closing = Idle /\ HasSession
    /\ closing' = [pc |-> "session", tab |-> active, seen |-> tabs]
    /\ UNCHANGED <<shell, editor, opening, saving, restoring, backend, acceptance, launches>>

\* A tab without a session is closed at once.
ClosePlaceholder ==
    /\ "close" \in Uses /\ active \in Ids(tabs) /\ ~HasSession
    /\ CloseTab(tabs, active, active)
    /\ UNCHANGED <<editor, tasks, backend, acceptance, launches>>

\* Mutant: what is known of a closed session is not forgotten.
SessionClosedKeepingFlag ==
    /\ closing.pc = "session"
    /\ live' = live \ {n \in Sessions : Doc(n) = closing.tab}
    /\ closing' = [closing EXCEPT !.pc = "index"]
    /\ UNCHANGED <<shell, editor, opening, saving, restoring, changed, sidecar, opened, acceptance, launches>>

\* A failure to close the session is only logged.
SessionClosed ==
    /\ closing.pc = "session"
    /\ LET gone == {n \in Sessions : Doc(n) = closing.tab} IN
       \/ live' = live \ gone /\ changed' = changed \ gone
       \/ UNCHANGED <<live, changed>>
    /\ closing' = [closing EXCEPT !.pc = "index"]
    /\ UNCHANGED <<shell, editor, opening, saving, restoring, sidecar, opened, acceptance, launches>>

\* Mutant: the next active tab is not chosen.
FinishCloseKeepingActive ==
    /\ closing.pc = "index"
    /\ tabs' = WithoutTab(closing.seen, closing.tab) /\ UNCHANGED active
    /\ closing' = Idle
    /\ UNCHANGED <<editor, opening, saving, restoring, backend, acceptance, launches>>

FinishClose ==
    /\ closing.pc = "index"
    /\ CloseTab(closing.seen, closing.tab, closing.tab)
    /\ closing' = Idle
    /\ UNCHANGED <<editor, opening, saving, restoring, backend, acceptance, launches>>

\* The process ends and is launched again.  The tabs are in local storage;
\* each becomes a placeholder with an id that no session has.
Relaunch ==
    /\ "restore" \in Uses /\ launches < MaxLaunches
    /\ LET places == [i \in DOMAIN tabs |-> NewTab(Pending(i), tabs[i].doc)] IN
       /\ tabs' = places
       /\ restoring' = places
       /\ active' = IF active \in Ids(tabs) THEN Pending(PositionOf(tabs, active))
                    ELSE IF tabs = <<>> THEN NoTab ELSE Pending(1)
    /\ objects' = {} /\ undo' = <<>> /\ redo' = <<>>
    /\ opening' = Idle /\ saving' = Idle /\ closing' = Idle
    /\ live' = {} /\ changed' = {}
    /\ launches' = launches + 1
    /\ accepting' = Idle
    /\ UNCHANGED <<created, sidecar, opened, strayed>>

-----------------------------------------------------------------------------
Open == StartReopen \/ OpenFails \/ OpenAnswers \/ StateAnswers \/ StateFails
        \/ FailedSessionClosed \/ ProjectAnswers \/ OpenEnds \/ \E d \in Docs : StartOpen(d)
Edit == AddObject \/ Undo \/ Redo \/ EditContent \/ TurnPage
        \/ \E o \in objects : DeleteObject(o)
Save == PdfSaved \/ PdfSaveFails \/ ProjectSaved \/ ProjectSaveFails \/ LibraryRecorded
        \/ \E auto \in BOOLEAN : StartSave(auto)
Close == StartClose \/ ClosePlaceholder \/ SessionClosed \/ FinishClose
Accept == StartAccept \/ AcceptRecognised \/ AcceptNothing \/ AcceptGenerated
Next == Open \/ Edit \/ Save \/ Accept \/ Close \/ Relaunch \/ \E id \in TabIds : SelectTab(id)

\* The backend answers every call.
Answers ==
    /\ WF_vars(OpenFails \/ OpenAnswers \/ StateAnswers \/ StateFails
               \/ FailedSessionClosed \/ ProjectAnswers \/ OpenEnds)
    /\ WF_vars(PdfSaved \/ PdfSaveFails \/ ProjectSaved \/ ProjectSaveFails \/ LibraryRecorded)
    /\ WF_vars(SessionClosed \/ FinishClose)

Spec == Init /\ [][Next]_vars
FairSpec == Spec /\ Answers

-----------------------------------------------------------------------------
(***************************************************************************)
(* Properties.                                                             *)
(***************************************************************************)

\* A project sidecar only ever holds overlays of its own document.  This is
\* refuted (Workstation_accept.cfg): text accepted in one tab is stored with
\* the document of another that became active before the backend answered.
NoForeignOverlays == \A d \in Docs : \A i \in sidecar[d].ids : i[1] = d

\* Nothing else does that: whichever tab was active when a save took its
\* overlays, wrote them or ended, a sidecar holds the overlays of another
\* document only after a late acceptance was saved with its document.
OnlyAcceptanceStrays == \A d \in Docs \ strayed : \A i \in sidecar[d].ids : i[1] = d

\* The editor can always revert the last entry of its stack and repeat the
\* last of the other: an added object is there, a deleted one is not, also
\* after a project was loaded into the editor under the stacks, and after a
\* failed save took back what it added.  Not so for recognised text: whether
\* it is there already is decided at the click, and it may come or go by undo
\* and redo until the answer adds it.
StacksFitObjects ==
    LET Present(s, op) == s # <<>> => LET e == s[Len(s)] IN
                             e.object.id[2] # 0 => ((e.op = op) = (e.object.id \in Here))
    IN Present(undo, "add") /\ Present(redo, "delete")

\* Two tabs never share an id, although closeTab puts back the tabs of an
\* earlier render: a tab opened meanwhile is lost, none is there twice.  Until
\* a session is restored the active tab is one of them: overlapping opens and
\* closes never leave the shell pointing at nothing.
TabsAreSound ==
    /\ Cardinality(Ids(tabs)) = Len(tabs)
    /\ launches = 1 => active \in Ids(tabs) \cup {NoTab}

\* The strengthenings the proofs use.  Every session belongs to one document:
\* the tabs, those a close still remembers included, the open under way and
\* the overlays, on the page or on a stack, agree which.
OwnedTabs(ts, owner) ==
    \A t \in RangeOf(ts), n \in Sessions :
        t.id = Doc(n) => n \in DOMAIN owner /\ t.doc = owner[n]

\* What is kept of document d, but for what strayed to it.
AtHome(ids, d) == \A i \in ids : i[1] = d \/ d \in strayed

Owned(o, owner) == o.session \in DOMAIN owner /\ AtHome({o.id}, owner[o.session])

Owns(owner) ==
    /\ OwnedTabs(tabs, owner)
    /\ closing # Idle => OwnedTabs(closing.seen, owner)
    /\ opening # Idle /\ opening.pc # "open"
         => opening.session \in DOMAIN owner /\ opening.doc = owner[opening.session]
    /\ \A o \in objects : Owned(o, owner)
    /\ \A e \in RangeOf(undo) \cup RangeOf(redo) : Owned(e.object, owner)
    /\ accepting # Idle =>
          /\ accepting.session \in DOMAIN owner
          /\ accepting.doc = owner[accepting.session]

SessionsAreOwned == \E owner \in [1 .. opened -> Docs] : Owns(owner)

SavesAreOwned ==
    /\ saving # Idle => AtHome(saving.ids, saving.doc)
    /\ accepting # Idle => AtHome(accepting.ids, accepting.doc)

\* Objects have numbers of their own, and the next one has not been used.
ObjectsAreNumbered ==
    /\ \A o \in objects : o.id[2] <= created
    /\ \A o, x \in objects : o.id = x.id => o = x
    /\ \A e \in RangeOf(undo) \cup RangeOf(redo) : e.object.id[2] <= created
    /\ \A d \in Docs : \A i \in sidecar[d].ids : i[2] <= created
    /\ saving # Idle => \A i \in saving.ids : i[2] <= created
    /\ accepting # Idle => \A i \in accepting.ids : i[2] <= created

\* The entries of a stack that are about one object, recognised text aside,
\* alternate, and the last of them can be applied.
Fits(s, op, here) ==
    /\ \A k \in DOMAIN s :
          (/\ s[k].object.id[2] # 0
           /\ \A j \in DOMAIN s : j > k => s[j].object.id # s[k].object.id)
              => ((s[k].op = op) <=> (s[k].object.id \in here))
    /\ \A j, k \in DOMAIN s :
          (/\ j < k /\ s[j].object.id = s[k].object.id /\ s[k].object.id[2] # 0
           /\ \A m \in DOMAIN s : j < m /\ m < k => s[m].object.id # s[k].object.id)
              => s[j].op # s[k].op

StacksFit == Fits(undo, "add", Here) /\ Fits(redo, "delete", Here)

\* The ids of tabs are unique, in every list of tabs there is, and the next
\* session's is not among them.
UniqueTabs(ts) == \A i, j \in DOMAIN ts : ts[i].id = ts[j].id => i = j

TasksAreSound ==
    /\ UniqueTabs(tabs) /\ Len(tabs) <= opened
    /\ closing # Idle =>
          /\ UniqueTabs(closing.seen) /\ Len(closing.seen) <= opened
          /\ closing.tab \in Ids(closing.seen)
    /\ opening # Idle /\ opening.pc = "open" => opening.session = opened + 1
    /\ opening # Idle /\ opening.restore => restoring # <<>>
    /\ launches = 1 => restoring = <<>> /\ active \in Ids(tabs) \cup {NoTab}

ShellInvariant ==
    /\ TypeOK /\ TasksAreSound
    /\ SessionsAreOwned /\ SavesAreOwned /\ OnlyAcceptanceStrays
    /\ ObjectsAreNumbered /\ StacksFit

\* Every open, save and close that was started ends, also if the backend
\* refuses any of its calls, so that a later save is not answered "busy": each
\* task is idle again and again.
TasksEnd == []<>(opening = Idle) /\ []<>(saving = Idle) /\ []<>(closing = Idle)

\* A document with changes that are not saved is shown as modified, once it
\* is open: in the status bar, in its properties and to the autosave.
Stored(n, d) == ObjectsOf(n) = sidecar[d].ids /\ n \notin changed

UnsavedIsShown ==
    \A t \in RangeOf(tabs), n \in live :
        (t.id = Doc(n) /\ ~(opening # Idle /\ opening.session = n) /\ ~Stored(n, t.doc))
            => t.dirty

\* Opening a document leaves the overlays of the documents in other tabs
\* alone.
OpeningKeepsOverlays ==
    [][opening # Idle /\ opening' # opening /\ launches' = launches
         => {o \in objects : o.session # opening.session /\ Doc(o.session) \in Ids(tabs)}
                \subseteq objects']_vars

\* closeTab takes away the tab it is called for and no other, and brings none
\* back: at the end of a close, and for the placeholder of a tab restored.
ClosingTakesOneTab ==
    [][launches' = launches =>
         /\ (closing # Idle /\ closing' = Idle)
              => Ids(tabs') = Ids(tabs) \ {closing.tab}
         /\ (opening # Idle /\ opening.restore /\ tabs' # tabs /\ opening' = Idle)
              => Ids(tabs') = Ids(tabs) \ {Head(restoring).id}]_vars
=============================================================================
