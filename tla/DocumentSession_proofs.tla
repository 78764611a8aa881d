----------------------- MODULE DocumentSession_proofs -----------------------
(***************************************************************************)
(* What a session derives from its bytes stays true to them, whatever      *)
(* commands run in whatever order, for any documents, paths and number of  *)
(* sessions.                                                               *)
(***************************************************************************)
EXTENDS DocumentSession, TLAPS

Good(s) == s \in Session /\ Coherent(s)

Inv == TypeOK /\ CoherenceInvariant

\* Replacing one session by a good one is all a command has to do.
LEMMA UpdatePreserves ==
    ASSUME Inv, NEW id \in Live, NEW t, Good(t), Update(id, t),
           UNCHANGED nextId, files' \in [Paths -> Docs \cup {NoDoc}]
    PROVE  Inv'
<1>1. DOMAIN sessions' = DOMAIN sessions BY DEF Update
<1>2. \A i \in DOMAIN sessions : sessions'[i] = IF i = id THEN t ELSE sessions[i]
  BY DEF Update, Live, Inv, TypeOK
<1>3. \A i \in DOMAIN sessions : Good(sessions'[i])
  BY <1>2 DEF Inv, TypeOK, CoherenceInvariant, Good, Live
<1>4. sessions' \in [DOMAIN sessions' -> Session]
  BY <1>1, <1>3 DEF Update, Good
<1>5. TypeOK'
  BY <1>1, <1>4 DEF Inv, TypeOK
<1>6. CoherenceInvariant'
  BY <1>1, <1>3 DEF CoherenceInvariant, Live, Good
<1>. QED BY <1>5, <1>6 DEF Inv

\* Dropping the derived copies makes any session coherent whose page counts
\* and dirty flag are right.
LEMMA InvalidatedIsGood ==
    ASSUME NEW s \in Session,
           s.pages = Len(s.bytes), s.pageCount = Len(s.bytes),
           s.isDirty \/ s.bytes = s.saved \/ "dirty" \in s.owes
    PROVE  Good(Invalidate(s))
<1>. DEFINE t == Invalidate(s)
<1>1. t \in Session
  <2>1. s.revision + 1 \in Nat BY DEF Session
  <2>2. s.owes \ {"revision"} \in SUBSET Debts BY DEF Session
  <2>3. {} \in SUBSET CacheEntry OBVIOUS
  <2>4. NoDoc \in Docs \cup {NoDoc} OBVIOUS
  <2>. QED BY <2>1, <2>2, <2>3, <2>4 DEF Invalidate, Session
<1>2. /\ t.bytes = s.bytes /\ t.pages = s.pages /\ t.pageCount = s.pageCount
      /\ t.isDirty = s.isDirty /\ t.saved = s.saved
      /\ t.cache = {} /\ t.parsed = NoDoc
      /\ "dirty" \in s.owes => "dirty" \in t.owes
  BY DEF Invalidate, Session
<1>3. CurrentHandle(t) /\ CurrentPixels(t)
  BY <1>2 DEF CurrentHandle, CurrentPixels
<1>4. Coherent(t)
  BY <1>2, <1>3 DEF Coherent
<1>. QED BY <1>1, <1>4 DEF Good

\* Parsing on demand and moving the current page leave a session coherent.
LEMMA ParsedIsGood ==
    ASSUME NEW s, Good(s)
    PROVE  Good(Parse(s)) /\ Parse(s).parsed \in Docs
                          /\ Parse(s).revision = s.revision
                          /\ Parse(s).pages = s.pages
<1>1. CASE s.parsed # NoDoc
  BY <1>1 DEF Parse, Good, Session
<1>2. CASE s.parsed = NoDoc
  <2>. DEFINE t == [s EXCEPT !.parsed = s.bytes]
  <2>1. Parse(s) = t BY <1>2 DEF Parse
  <2>2. t \in Session BY DEF Good, Session
  <2>3. /\ t.bytes = s.bytes /\ t.pages = s.pages /\ t.pageCount = s.pageCount
        /\ t.isDirty = s.isDirty /\ t.saved = s.saved /\ t.owes = s.owes
        /\ t.revision = s.revision /\ t.cache = s.cache /\ t.parsed = s.bytes
    BY DEF Good, Session
  <2>4. s.cache = {} BY <1>2 DEF Good, Coherent
  <2>5. CurrentHandle(t) /\ CurrentPixels(t)
    BY <2>3, <2>4 DEF CurrentHandle, CurrentPixels
  <2>6. Coherent(t) BY <2>3, <2>4, <2>5 DEF Coherent, Good
  <2>7. s.bytes \in Docs BY DEF Good, Session
  <2>. QED BY <2>1, <2>2, <2>3, <2>6, <2>7 DEF Good
<1>. QED BY <1>1, <1>2

\* Navigation touches nothing that coherence is about.
LEMMA MovedIsGood ==
    ASSUME NEW s, Good(s), NEW i \in Nat
    PROVE  Good([s EXCEPT !.currentPage = i, !.viewportPage = i])
<1>. DEFINE t == [s EXCEPT !.currentPage = i, !.viewportPage = i]
<1>1. t \in Session BY DEF Good, Session
<1>2. /\ t.bytes = s.bytes /\ t.pages = s.pages /\ t.pageCount = s.pageCount
      /\ t.isDirty = s.isDirty /\ t.saved = s.saved /\ t.owes = s.owes
      /\ t.revision = s.revision /\ t.cache = s.cache /\ t.parsed = s.parsed
  BY DEF Good, Session
<1>3. CurrentHandle(t) <=> CurrentHandle(s) BY <1>2 DEF CurrentHandle
<1>4. CurrentPixels(t) <=> CurrentPixels(s) BY <1>2 DEF CurrentPixels
<1>5. Coherent(t) BY <1>2, <1>3, <1>4 DEF Coherent, Good
<1>. QED BY <1>1, <1>5 DEF Good

\* A page drawn from the handle of a coherent session is a page of its bytes.
LEMMA RenderedIsGood ==
    ASSUME NEW s, Good(s), NEW i \in Nat, s.parsed \in Docs, Drawable(s, i)
    PROVE  Good(Rendered(s, i))
<1>. DEFINE e == [page |-> i, rev |-> s.revision, shows |-> s.parsed[i + 1]]
            t == [s EXCEPT !.cache = @ \cup {e}]
<1>1. Rendered(s, i) = t BY DEF Rendered
<1>2. i + 1 \in 1 .. Len(s.parsed)
  BY DEF Drawable, Docs
<1>3. e \in CacheEntry
  BY <1>2 DEF CacheEntry, Good, Session, Docs
<1>4. t \in Session BY <1>3 DEF Good, Session
<1>5. /\ t.bytes = s.bytes /\ t.pages = s.pages /\ t.pageCount = s.pageCount
      /\ t.isDirty = s.isDirty /\ t.saved = s.saved /\ t.owes = s.owes
      /\ t.revision = s.revision /\ t.parsed = s.parsed
      /\ t.cache = s.cache \cup {e}
  BY DEF Good, Session
<1>6. s.parsed # NoDoc BY NoDocAssumption
<1>7. \A c \in t.cache : c.rev = t.revision /\ t.parsed # NoDoc
  BY <1>5, <1>6 DEF Coherent, Good
<1>8. ASSUME CurrentHandle(s), CurrentPixels(s)
      PROVE  CurrentHandle(t) /\ CurrentPixels(t)
  <2>1. s.parsed = s.bytes BY <1>6, <1>8 DEF CurrentHandle
  <2>2. e.page < Len(s.bytes) /\ e.shows = s.bytes[e.page + 1]
    BY <2>1 DEF Drawable
  <2>3. CurrentPixels(t) BY <1>5, <1>8, <2>2 DEF CurrentPixels
  <2>. QED BY <1>5, <1>8, <2>3 DEF CurrentHandle
<1>9. Coherent(t)
  BY <1>5, <1>7, <1>8 DEF Coherent, Good
<1>. QED BY <1>1, <1>4, <1>9 DEF Good

\* Every way of editing a page ends in one of these sessions: one that owes
\* what was left out, or one that was marked and invalidated.
LEMMA EditedIsGood ==
    ASSUME NEW s, Good(s), NEW i \in Nat, i < Len(s.bytes), NEW x \in Pages
    PROVE  LET d == WithPage(s.bytes, i, x)  w == Write(s, d) IN
           /\ d \in Docs
           /\ w \in Session
           /\ Good(Owing(w, Debts))
           /\ Good(Invalidate(MarkDirty(w)))
           /\ RefreshMetadata(w) = w
<1>. DEFINE d == WithPage(s.bytes, i, x)
            w == Write(s, d)
            o == Owing(w, Debts)
            m == MarkDirty(w)
<1>1. s.bytes \in Seq(Pages) BY DEF Good, Session, Docs
<1>2. d \in Docs /\ Len(d) = Len(s.bytes)
  BY <1>1 DEF WithPage, Docs
<1>3. w \in Session BY <1>2 DEF Good, Session, Write
<1>4. /\ w.bytes = d /\ w.pages = s.pages /\ w.pageCount = s.pageCount
      /\ w.owes = s.owes /\ w.revision = s.revision
      /\ w.parsed = s.parsed /\ w.cache = s.cache
  BY DEF Good, Session, Write
<1>5. w.pages = Len(w.bytes) /\ w.pageCount = Len(w.bytes)
  BY <1>2, <1>4 DEF Good, Coherent
<1>6. o \in Session BY <1>3 DEF Owing, Session
<1>7. /\ o.bytes = d /\ o.pages = s.pages /\ o.pageCount = s.pageCount
      /\ Debts \subseteq o.owes /\ o.revision = s.revision
      /\ o.parsed = s.parsed /\ o.cache = s.cache
  BY <1>3, <1>4 DEF Owing, Session
<1>8. Coherent(o)
  BY <1>2, <1>7 DEF Coherent, Good, Debts
<1>9. m \in Session /\ m.isDirty /\ m.pages = w.pages /\ m.pageCount = w.pageCount
      /\ m.bytes = w.bytes
  BY <1>3 DEF MarkDirty, Session
<1>10. Good(Invalidate(m)) BY <1>5, <1>9, InvalidatedIsGood
<1>11. RefreshMetadata(w) = w
  BY <1>3, <1>5 DEF RefreshMetadata, Session
<1>. QED BY <1>2, <1>3, <1>6, <1>8, <1>10, <1>11 DEF Good
-----------------------------------------------------------------------------
\* A session is good from the moment it is opened.
LEMMA OpenPreserves ==
    ASSUME Inv, NEW p \in Paths, Open(p)
    PROVE  Inv'
<1>. DEFINE d == files[p]
            s == [path |-> p, bytes |-> d, pages |-> Len(d), pageCount |-> Len(d),
                  currentPage |-> 0, viewportPage |-> 0, isDirty |-> FALSE,
                  revision |-> 0, parsed |-> d, cache |-> {},
                  saved |-> d, owes |-> {}]
<1>1. d \in Docs /\ Len(d) \in Nat
  <2>1. d \in Docs \cup {NoDoc} BY DEF Inv, TypeOK
  <2>2. d # NoDoc BY DEF Open
  <2>3. d \in Docs BY <2>1, <2>2
  <2>. QED BY <2>3 DEF Docs
<1>2. s \in Session
  <2>1. FALSE \in BOOLEAN OBVIOUS
  <2>2. {} \in SUBSET CacheEntry /\ {} \in SUBSET Debts OBVIOUS
  <2>. QED BY <1>1, <2>1, <2>2 DEF Session
<1>3. Coherent(s)
  BY DEF Coherent, CurrentHandle, CurrentPixels
<1>4. DOMAIN sessions' = DOMAIN sessions \cup {nextId}
  BY DEF Open, Live
<1>5. \A i \in DOMAIN sessions' : sessions'[i] = IF i = nextId THEN s ELSE sessions[i]
  BY DEF Open, Live
<1>6. \A i \in DOMAIN sessions' : sessions'[i] \in Session /\ Coherent(sessions'[i])
  BY <1>2, <1>3, <1>4, <1>5 DEF Inv, TypeOK, CoherenceInvariant, Live
<1>7. sessions' \in [DOMAIN sessions' -> Session]
  BY <1>4, <1>6 DEF Open, Live
<1>8. TypeOK'
  <2>1. nextId \in Nat \ {0} /\ nextId' = nextId + 1 BY DEF Open, Inv, TypeOK
  <2>2. DOMAIN sessions' \subseteq 1 .. nextId' - 1
    BY <1>4, <2>1 DEF Inv, TypeOK
  <2>3. files' \in [Paths -> Docs \cup {NoDoc}] BY DEF Open, Inv, TypeOK
  <2>. QED BY <1>7, <2>1, <2>2, <2>3 DEF TypeOK
<1>9. CoherenceInvariant'
  BY <1>6 DEF CoherenceInvariant, Live
<1>. QED BY <1>8, <1>9 DEF Inv

\* Closing a session leaves the others as they were.
LEMMA ClosePreserves ==
    ASSUME Inv, NEW id \in Live, Close(id)
    PROVE  Inv'
<1>1. DOMAIN sessions' = DOMAIN sessions \ {id} BY DEF Close, Live
<1>2. \A i \in DOMAIN sessions' : sessions'[i] = sessions[i] BY DEF Close, Live
<1>3. sessions' \in [DOMAIN sessions' -> Session]
  BY <1>1, <1>2 DEF Close, Live, Inv, TypeOK
<1>4. TypeOK' BY <1>1, <1>3 DEF Close, Inv, TypeOK
<1>5. CoherenceInvariant'
  BY <1>1, <1>2 DEF CoherenceInvariant, Live, Inv
<1>. QED BY <1>4, <1>5 DEF Inv

\* Drawing, reading text and navigating keep every session coherent.
LEMMA ReadPreserves ==
    ASSUME Inv, NEW id \in Live, Read(id)
    PROVE  Inv'
<1>. DEFINE s == sessions[id]
<1>1. Good(s) BY DEF Good, Inv, TypeOK, CoherenceInvariant, Live
<1>2. files' \in [Paths -> Docs \cup {NoDoc}] /\ UNCHANGED nextId
  BY DEF Read, ExtractText, Render, GoToPage, Inv, TypeOK
<1>3. CASE ExtractText(id)
  <2>1. Good(Parse(s)) BY <1>1, ParsedIsGood
  <2>. QED BY <1>2, <1>3, <2>1, UpdatePreserves DEF ExtractText
<1>4. ASSUME NEW i \in Requested, Render(id, i) PROVE Inv'
  <2>. DEFINE m == [s EXCEPT !.currentPage = i, !.viewportPage = i]
  <2>1. i \in Nat BY RequestedAssumption
  <2>2. Good(m) BY <1>1, <2>1, MovedIsGood
  <2>3. Good(Parse(m)) /\ Parse(m).parsed \in Docs BY <2>2, ParsedIsGood
  <2>4. Drawable(Parse(m), i) => Good(Rendered(Parse(m), i))
    BY <2>1, <2>3, RenderedIsGood
  <2>5. \E t : Good(t) /\ Update(id, t)
    BY <1>4, <2>3, <2>4 DEF Render
  <2>. QED BY <1>2, <2>5, UpdatePreserves
<1>5. ASSUME NEW i \in Requested, GoToPage(id, i) PROVE Inv'
  <2>1. i \in Nat BY RequestedAssumption
  <2>2. Good([s EXCEPT !.currentPage = i, !.viewportPage = i])
    BY <1>1, <2>1, MovedIsGood
  <2>. QED BY <1>2, <1>5, <2>2, UpdatePreserves DEF GoToPage
<1>. QED BY <1>3, <1>4, <1>5 DEF Read

\* So do saving and exporting to another file, whether they fail or not.
LEMMA StorePreserves ==
    ASSUME Inv, NEW id \in Live, Store(id)
    PROVE  Inv'
<1>. DEFINE s == sessions[id]
<1>1. Good(s) BY DEF Good, Inv, TypeOK, CoherenceInvariant, Live
<1>2. s.bytes \in Docs BY <1>1 DEF Good, Session
<1>3. PICK p \in Paths : Save(id, p) \/ SaveFails(id, p) \/ ExportFails(id, p)
  BY DEF Store
<1>4. files' \in [Paths -> Docs \cup {NoDoc}]
  BY <1>2, <1>3 DEF Save, SaveFails, ExportFails, Inv, TypeOK
<1>5. CASE Save(id, p)
  <2>. DEFINE t == [s EXCEPT !.path = p, !.isDirty = FALSE, !.saved = s.bytes,
                             !.owes = @ \ {"dirty"}]
  <2>1. t \in Session
    <3>1. FALSE \in BOOLEAN OBVIOUS
    <3>2. s.owes \ {"dirty"} \in SUBSET Debts BY <1>1 DEF Good, Session
    <3>. QED BY <1>1, <1>2, <3>1, <3>2 DEF Good, Session
  <2>2. /\ t.bytes = s.bytes /\ t.pages = s.pages /\ t.pageCount = s.pageCount
        /\ t.saved = s.bytes
    BY <1>1 DEF Good, Session
  <2>3. Good(Invalidate(t))
    BY <1>1, <2>1, <2>2, InvalidatedIsGood DEF Good, Coherent
  <2>. QED BY <1>4, <1>5, <2>3, UpdatePreserves DEF Save
<1>6. CASE SaveFails(id, p) \/ ExportFails(id, p)
  <2>1. UNCHANGED <<sessions, nextId>> BY <1>6 DEF SaveFails, ExportFails
  <2>2. TypeOK' BY <1>4, <2>1 DEF Inv, TypeOK
  <2>3. CoherenceInvariant' BY <2>1 DEF Inv, CoherenceInvariant, Live
  <2>. QED BY <2>2, <2>3 DEF Inv
<1>. QED BY <1>3, <1>5, <1>6

\* And so does every command that writes the bytes of a document.
LEMMA EditPreserves ==
    ASSUME Inv, NEW id \in Live, Edit(id)
    PROVE  Inv'
<1>. DEFINE s == sessions[id]
<1>1. Good(s) BY DEF Good, Inv, TypeOK, CoherenceInvariant, Live
<1>2. Good(Invalidate(s))
  BY <1>1, InvalidatedIsGood DEF Good, Coherent
<1>3. CASE TextEditRejected(id)
  <2>1. files' \in [Paths -> Docs \cup {NoDoc}] /\ UNCHANGED nextId
    BY <1>3 DEF TextEditRejected, Inv, TypeOK
  <2>. QED BY <1>2, <1>3, <2>1, UpdatePreserves DEF TextEditRejected
<1>4. ASSUME NEW i \in Requested, NEW x \in Pages, i < Len(s.bytes),
             TextEdit(id, i, x) \/ FormEdit(id, i, x) \/ AnnotCreate(id, i, x)
      PROVE  Inv'
  <2>1. i \in Nat BY RequestedAssumption
  <2>2. files' \in [Paths -> Docs \cup {NoDoc}] /\ UNCHANGED nextId
    BY <1>4 DEF TextEdit, FormEdit, AnnotCreate, Inv, TypeOK
  <2>3. \E t : Good(t) /\ Update(id, t)
    BY <1>1, <1>4, <2>1, EditedIsGood DEF TextEdit, FormEdit, AnnotCreate
  <2>. QED BY <2>2, <2>3, UpdatePreserves
<1>5. ASSUME NEW i \in Requested, NEW x \in Pages, NEW p \in Paths,
             Export(id, p, i, x)
      PROVE  Inv'
  <2>. DEFINE d == WithPage(s.bytes, i, x)
  <2>1. i \in Nat /\ i < Len(s.bytes) BY <1>5, RequestedAssumption DEF Export
  <2>2. d \in Docs BY <1>1, <2>1, EditedIsGood
  <2>3. files' \in [Paths -> Docs \cup {NoDoc}] /\ UNCHANGED nextId
    BY <1>5, <2>2 DEF Export, Inv, TypeOK
  <2>4. CASE UNCHANGED sessions
    BY <2>3, <2>4 DEF Inv, TypeOK, CoherenceInvariant, Live
  <2>5. CASE Update(id, Invalidate(MarkDirty(Write(s, d))))
    <3>1. Good(Invalidate(MarkDirty(Write(s, d)))) BY <1>1, <2>1, EditedIsGood
    <3>. QED BY <2>3, <2>5, <3>1, UpdatePreserves
  <2>. QED BY <1>5, <2>4, <2>5 DEF Export
<1>. QED
  BY <1>3, <1>4, <1>5 DEF Edit, TextEdit, FormEdit, AnnotCreate

-----------------------------------------------------------------------------
\* In every reachable state of any instance each session is well formed and
\* coherent.
THEOREM SessionsAreCoherent == Spec => [](TypeOK /\ CoherenceInvariant)
<1>1. Init => Inv
  BY FilesAssumption DEF Init, Inv, TypeOK, CoherenceInvariant, Live
<1>2. Inv /\ [Next]_vars => Inv'
  <2>. SUFFICES ASSUME Inv, [Next]_vars PROVE Inv'
    OBVIOUS
  <2>1. CASE UNCHANGED vars
    BY <2>1 DEF vars, Inv, TypeOK, CoherenceInvariant, Live
  <2>2. CASE Next
    BY <2>2, OpenPreserves, ClosePreserves, ReadPreserves, StorePreserves,
       EditPreserves DEF Next
  <2>. QED BY <2>1, <2>2
<1>3. Inv <=> TypeOK /\ CoherenceInvariant BY DEF Inv
<1>. QED BY <1>1, <1>2, <1>3, PTL DEF Spec

\* The page a user sees, and the text a search or a model is given, are those
\* of the bytes a save would write, unless a command wrote bytes without a
\* revision.
THEOREM ViewStaysCurrent == Spec => []ViewIsCurrent
<1>1. CoherenceInvariant => ViewIsCurrent
  BY DEF CoherenceInvariant, Coherent, ViewIsCurrent
<1>. QED BY <1>1, SessionsAreCoherent, PTL

\* The sessions keep their types under every command.
THEOREM SessionsAreWellTyped == Spec => []TypeOK
BY SessionsAreCoherent, PTL

\* A clean flag can be believed, unless a command wrote bytes and left it.
THEOREM CleanFlagIsRight == Spec => []CleanMeansSaved
<1>1. CoherenceInvariant => CleanMeansSaved
  BY DEF CoherenceInvariant, Coherent, CleanMeansSaved
<1>. QED BY <1>1, SessionsAreCoherent, PTL

\* What each operation on a session does to the fields a revision is about.
LEMMA RevisionFields ==
    ASSUME NEW s \in Session, NEW d \in Docs, NEW i \in Nat, NEW p
    PROVE  /\ Invalidate(s).bytes = s.bytes
           /\ Invalidate(s).revision > s.revision
           /\ MarkDirty(s).revision = s.revision
           /\ Write(s, d).revision = s.revision
           /\ "revision" \in Owing(s, Debts).owes
           /\ Parse(s).bytes = s.bytes
           /\ [s EXCEPT !.currentPage = i, !.viewportPage = i].bytes = s.bytes
           /\ [s EXCEPT !.path = p, !.isDirty = FALSE, !.saved = s.bytes,
                        !.owes = @ \ {"dirty"}].bytes = s.bytes
<1>1. s.revision + 1 > s.revision BY DEF Session
<1>2. Invalidate(s).bytes = s.bytes /\ Invalidate(s).revision = s.revision + 1
  BY DEF Invalidate, Session
<1>3. MarkDirty(s).revision = s.revision /\ Write(s, d).revision = s.revision
  BY DEF MarkDirty, Write, Session
<1>4. "revision" \in Owing(s, Debts).owes
  BY DEF Owing, Session, Debts
<1>5. Parse(s).bytes = s.bytes BY DEF Parse, Session
<1>6. /\ [s EXCEPT !.currentPage = i, !.viewportPage = i].bytes = s.bytes
      /\ [s EXCEPT !.path = p, !.isDirty = FALSE, !.saved = s.bytes,
                   !.owes = @ \ {"dirty"}].bytes = s.bytes
  BY DEF Session
<1>. QED BY <1>1, <1>2, <1>3, <1>4, <1>5, <1>6

\* A write either moves the revision or stays in debt of one.
LEMMA EditIsKeyed ==
    ASSUME Inv, NEW id \in Live, Edit(id)
    PROVE  \/ UNCHANGED sessions
           \/ \E t : Update(id, t) /\ Keyed(sessions[id], t)
<1>. DEFINE s == sessions[id]
<1>1. Good(s) BY DEF Good, Inv, TypeOK, CoherenceInvariant, Live
<1>2. CASE TextEditRejected(id)
  <2>1. Invalidate(s).bytes = s.bytes BY <1>1, RevisionFields DEF Good, Session
  <2>. QED BY <1>2, <2>1 DEF TextEditRejected, Keyed
<1>3. CASE ~TextEditRejected(id)
  <2>1. PICK i \in Requested, x \in Pages :
             \/ TextEdit(id, i, x) \/ FormEdit(id, i, x) \/ AnnotCreate(id, i, x)
             \/ \E p \in Paths : Export(id, p, i, x)
    BY <1>3 DEF Edit
  <2>2. i \in Nat /\ i < Len(s.bytes)
    BY <2>1, RequestedAssumption DEF TextEdit, FormEdit, AnnotCreate, Export
  <2>. DEFINE d == WithPage(s.bytes, i, x)
              w == Write(s, d)
  <2>3. d \in Docs /\ w \in Session /\ RefreshMetadata(w) = w
    BY <1>1, <2>2, EditedIsGood
  <2>4. w.revision = s.revision /\ "revision" \in Owing(w, Debts).owes
    BY <1>1, <2>3, RevisionFields DEF Good
  <2>5. MarkDirty(w) \in Session /\ MarkDirty(w).revision = w.revision
    BY <2>3 DEF MarkDirty, Session
  <2>6. Invalidate(MarkDirty(w)).revision > s.revision
    BY <2>3, <2>4, <2>5, RevisionFields
  <2>7. Keyed(s, Owing(w, Debts)) /\ Keyed(s, Invalidate(MarkDirty(w)))
    BY <2>4, <2>6 DEF Keyed
  <2>. QED BY <2>1, <2>3, <2>7 DEF TextEdit, FormEdit, AnnotCreate, Export
<1>. QED BY <1>2, <1>3

\* The other operations on a session keep its bytes.
LEMMA ReadOrStoreIsKeyed ==
    ASSUME Inv, NEW id \in Live, Read(id) \/ Store(id)
    PROVE  \/ UNCHANGED sessions
           \/ \E t : Update(id, t) /\ Keyed(sessions[id], t)
<1>. DEFINE s == sessions[id]
<1>1. Good(s) BY DEF Good, Inv, TypeOK, CoherenceInvariant, Live
<1>2. s \in Session /\ s.bytes \in Docs BY <1>1 DEF Good, Session
<1>3. CASE ExtractText(id)
  BY <1>2, <1>3, RevisionFields DEF ExtractText, Keyed
<1>4. ASSUME NEW i \in Requested, Render(id, i) \/ GoToPage(id, i)
      PROVE  \E t : Update(id, t) /\ Keyed(s, t)
  <2>. DEFINE m == [s EXCEPT !.currentPage = i, !.viewportPage = i]
  <2>1. i \in Nat BY RequestedAssumption
  <2>2. Good(m) /\ m.bytes = s.bytes
    BY <1>1, <1>2, <2>1, MovedIsGood, RevisionFields
  <2>3. Good(Parse(m)) /\ Parse(m).bytes = s.bytes
    BY <1>2, <2>1, <2>2, ParsedIsGood, RevisionFields DEF Good
  <2>4. Rendered(Parse(m), i).bytes = Parse(m).bytes
    BY <2>3 DEF Rendered, Good, Session
  <2>. QED BY <1>4, <2>2, <2>3, <2>4 DEF Render, GoToPage, Keyed
<1>5. ASSUME NEW p \in Paths, Save(id, p)
      PROVE  \E t : Update(id, t) /\ Keyed(s, t)
  <2>. DEFINE t == [s EXCEPT !.path = p, !.isDirty = FALSE, !.saved = s.bytes,
                             !.owes = @ \ {"dirty"}]
  <2>1. Update(id, Invalidate(t)) BY <1>5 DEF Save
  <2>2. t.bytes = s.bytes BY <1>2, RevisionFields
  <2>3. Invalidate(t).bytes = t.bytes BY <1>2 DEF Invalidate, Session
  <2>. QED BY <2>1, <2>2, <2>3 DEF Keyed
<1>6. ASSUME NEW p \in Paths, SaveFails(id, p) \/ ExportFails(id, p)
      PROVE  UNCHANGED sessions
  BY <1>6 DEF SaveFails, ExportFails
<1>. QED BY <1>3, <1>4, <1>5, <1>6 DEF Read, Store

\* The pixels cached under a revision are never those of other bytes.
THEOREM RevisionIsAKey == Spec => RevisionNamesContent
<1>. DEFINE Step == \A id \in Live \cap Live' : Keyed(sessions[id], sessions'[id])
<1>1. ASSUME Inv, Next PROVE Step
  <2>1. ASSUME UNCHANGED sessions PROVE Step
    BY <2>1 DEF Keyed
  <2>2. ASSUME NEW id \in Live, NEW t, Update(id, t), Keyed(sessions[id], t)
        PROVE  Step
    BY <1>1, <2>2 DEF Update, Live, Inv, TypeOK, Keyed
  <2>3. ASSUME NEW p \in Paths, Open(p) PROVE Step
    <3>1. \A i \in Live : i # nextId BY <1>1 DEF Inv, TypeOK, Live
    <3>. QED BY <2>3, <3>1 DEF Open, Live, Keyed
  <2>4. ASSUME NEW id \in Live, Close(id) PROVE Step
    BY <2>4 DEF Close, Live, Keyed
  <2>. QED
    BY <1>1, <2>1, <2>2, <2>3, <2>4, EditIsKeyed, ReadOrStoreIsKeyed DEF Next
<1>2. Inv /\ [Next]_vars => [Step]_vars
  BY <1>1
<1>3. Spec => []Inv
  BY SessionsAreCoherent, PTL DEF Inv
<1>. QED BY <1>2, <1>3, PTL DEF Spec, RevisionNamesContent

\* Without page operations the page list never drifts from the document.
THEOREM PageListStaysRight == Spec => []PageListMatchesBytes
<1>1. CoherenceInvariant => PageListMatchesBytes
  BY DEF CoherenceInvariant, Coherent, PageListMatchesBytes
<1>. QED BY <1>1, SessionsAreCoherent, PTL
=============================================================================
