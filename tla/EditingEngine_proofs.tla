------------------------ MODULE EditingEngine_proofs ------------------------
(***************************************************************************)
(* The editing engine, for any documents, budgets and thresholds: what is  *)
(* on the stacks can be restored, no snapshot outlives its session, the    *)
(* dirty flag is right between transactions, and undo and redo move along  *)
(* a line of versions.                                                     *)
(***************************************************************************)
EXTENDS EditingEngine, CommonLemmas, SequenceTheorems, TLAPS

-----------------------------------------------------------------------------
(* Operations on one session.                                              *)

LEMMA WriteFields ==
    ASSUME NEW s \in Session, NEW d \in Docs
    PROVE  /\ Write(s, d) \in Session
           /\ Write(s, d).bytes = d
           /\ Write(s, d).isDirty = s.isDirty
           /\ Write(s, d).saved = s.saved
           /\ Write(s, d).owes = s.owes
BY DEF Write, Session

LEMMA InvalidateFields ==
    ASSUME NEW s \in Session
    PROVE  /\ Invalidate(s) \in Session
           /\ Invalidate(s).bytes = s.bytes
           /\ Flagged(s) => Flagged(Invalidate(s))
<1>. DEFINE t == Invalidate(s)
<1>1. t \in Session
  <2>1. s.revision + 1 \in Nat BY DEF Session
  <2>2. s.owes \ {"revision"} \in SUBSET Debts BY DEF Session
  <2>3. {} \in SUBSET CacheEntry /\ NoDoc \in Docs \cup {NoDoc} OBVIOUS
  <2>. QED BY <2>1, <2>2, <2>3 DEF Invalidate, Session
<1>2. /\ t.bytes = s.bytes /\ t.isDirty = s.isDirty /\ t.saved = s.saved
      /\ "dirty" \in s.owes => "dirty" \in t.owes
  BY DEF Invalidate, Session
<1>. QED BY <1>1, <1>2 DEF Flagged

LEMMA MarkDirtyFields ==
    ASSUME NEW s \in Session
    PROVE  /\ MarkDirty(s) \in Session
           /\ MarkDirty(s).bytes = s.bytes
           /\ Flagged(MarkDirty(s))
<1>1. TRUE \in BOOLEAN OBVIOUS
<1>. QED BY <1>1 DEF MarkDirty, Session, Flagged

LEMMA OwingFields ==
    ASSUME NEW s \in Session, NEW debts \in SUBSET Debts
    PROVE  /\ Owing(s, debts) \in Session
           /\ Owing(s, debts).bytes = s.bytes
           /\ "dirty" \in debts \/ Flagged(s) => Flagged(Owing(s, debts))
<1>. DEFINE t == Owing(s, debts)
<1>1. s.owes \cup debts \in SUBSET Debts BY DEF Session
<1>2. t \in Session BY <1>1 DEF Owing, Session
<1>3. /\ t.bytes = s.bytes /\ t.isDirty = s.isDirty /\ t.saved = s.saved
      /\ t.owes = s.owes \cup debts
  BY DEF Owing, Session
<1>. QED BY <1>2, <1>3 DEF Flagged

\* The document with one page replaced is a document.
LEMMA WithPageIsADocument ==
    ASSUME NEW d \in Docs, NEW i \in Nat, i < Len(d), NEW x \in Pages
    PROVE  WithPage(d, i, x) \in Docs
BY DEF WithPage, Docs

LEMMA SyncPagesFields ==
    ASSUME NEW s \in Session
    PROVE  SyncPages(s) \in Session
<1>. DEFINE n == Len(s.bytes)
            page == IF n > 0 /\ s.currentPage >= n THEN n - 1 ELSE s.currentPage
<1>1. n \in Nat BY DEF Session, Docs
<1>2. page \in Nat BY <1>1 DEF Session
<1>3. SyncPages(s) = [s EXCEPT !.pages = n, !.pageCount = n, !.currentPage = page]
  BY DEF SyncPages
<1>. HIDE DEF n, page
<1>. QED BY <1>1, <1>2, <1>3 DEF Session

-----------------------------------------------------------------------------
(* The other commands on sessions.                                         *)

\* A command that is not the engine's replaces one session by another, which
\* is flagged if the first one was.
LEMMA ReadIsSound ==
    ASSUME TypeOK, NEW id \in Live, Read(id)
    PROVE  /\ UNCHANGED <<nextId, files>>
           /\ \E t \in Session : /\ Update(id, t)
                                 /\ Flagged(sessions[id]) => Flagged(t)
<1>. DEFINE s == sessions[id]
<1>1. s \in Session BY DEF TypeOK, Live
<1>2. ASSUME NEW m \in Session
      PROVE  /\ Parse(m) \in Session /\ Parse(m).parsed \in Docs
             /\ Flagged(m) => Flagged(Parse(m))
  <2>1. CASE m.parsed # NoDoc
    BY <2>1 DEF Parse, Session
  <2>2. CASE m.parsed = NoDoc
    <3>. DEFINE t == [m EXCEPT !.parsed = m.bytes]
    <3>1. Parse(m) = t BY <2>2 DEF Parse
    <3>2. t \in Session /\ t.parsed \in Docs BY DEF Session
    <3>3. t.isDirty = m.isDirty /\ t.bytes = m.bytes /\ t.saved = m.saved /\ t.owes = m.owes
      BY DEF Session
    <3>. HIDE DEF t
    <3>. QED BY <3>1, <3>2, <3>3 DEF Flagged
  <2>. QED BY <2>1, <2>2
<1>3. ASSUME NEW i \in Nat
      PROVE  LET m == [s EXCEPT !.currentPage = i, !.viewportPage = i]
             IN  m \in Session /\ (Flagged(s) => Flagged(m))
  <2>. DEFINE m == [s EXCEPT !.currentPage = i, !.viewportPage = i]
  <2>1. m \in Session BY <1>1 DEF Session
  <2>2. m.isDirty = s.isDirty /\ m.bytes = s.bytes /\ m.saved = s.saved /\ m.owes = s.owes
    BY <1>1 DEF Session
  <2>. HIDE DEF m
  <2>3. m \in Session /\ (Flagged(s) => Flagged(m)) BY <2>1, <2>2 DEF Flagged
  <2>. QED BY <2>3 DEF m
<1>4. CASE ExtractText(id)
  BY <1>1, <1>2, <1>4 DEF ExtractText
<1>5. ASSUME NEW i \in Requested, GoToPage(id, i)
      PROVE  /\ UNCHANGED <<nextId, files>>
             /\ \E t \in Session : Update(id, t) /\ (Flagged(s) => Flagged(t))
  BY <1>3, <1>5, RequestedAssumption DEF GoToPage
<1>6. ASSUME NEW i \in Requested, Render(id, i)
      PROVE  /\ UNCHANGED <<nextId, files>>
             /\ \E t \in Session : Update(id, t) /\ (Flagged(s) => Flagged(t))
  <2>. DEFINE m == Parse([s EXCEPT !.currentPage = i, !.viewportPage = i])
  <2>1. i \in Nat BY RequestedAssumption
  <2>2. m \in Session /\ m.parsed \in Docs /\ (Flagged(s) => Flagged(m))
    BY <1>2, <1>3, <2>1
  <2>3. ASSUME Drawable(m, i)
        PROVE  /\ Rendered(m, i) \in Session
               /\ Flagged(m) => Flagged(Rendered(m, i))
    <3>. HIDE DEF m
    <3>. DEFINE e == [page |-> i, rev |-> m.revision, shows |-> m.parsed[i + 1]]
                t == [m EXCEPT !.cache = @ \cup {e}]
    <3>1. i + 1 \in 1 .. Len(m.parsed) BY <2>1, <2>2, <2>3 DEF Drawable, Docs
    <3>2. m.parsed[i + 1] \in Pages BY <2>2, <3>1 DEF Docs
    <3>3. e \in CacheEntry BY <2>1, <2>2, <3>2 DEF CacheEntry, Session
    <3>4. t \in Session BY <2>2, <3>3 DEF Session
    <3>5. t.isDirty = m.isDirty /\ t.bytes = m.bytes /\ t.saved = m.saved /\ t.owes = m.owes
      BY <2>2 DEF Session
    <3>6. Rendered(m, i) = t BY DEF Rendered
    <3>. HIDE DEF t
    <3>. QED BY <3>4, <3>5, <3>6 DEF Flagged
  <2>4. UNCHANGED <<nextId, files>> /\
        (Update(id, m) \/ (Drawable(m, i) /\ Update(id, Rendered(m, i))))
    BY <1>6 DEF Render
  <2>. HIDE DEF m
  <2>. QED BY <2>2, <2>3, <2>4
<1>. QED BY <1>4, <1>5, <1>6 DEF Read

LEMMA StoreIsSound ==
    ASSUME TypeOK, NEW id \in Live, Store(id)
    PROVE  /\ UNCHANGED nextId /\ files' \in [Paths -> Docs \cup {NoDoc}]
           /\ \E t \in Session : /\ Update(id, t)
                                 /\ Flagged(sessions[id]) => Flagged(t)
<1>. DEFINE s == sessions[id]
<1>1. s \in Session /\ s.bytes \in Docs BY DEF TypeOK, Live, Session
<1>2. PICK p \in Paths : Save(id, p) \/ SaveFails(id, p) \/ ExportFails(id, p)
  BY DEF Store
<1>3. UNCHANGED nextId /\ files' \in [Paths -> Docs \cup {NoDoc}]
  BY <1>1, <1>2 DEF Save, SaveFails, ExportFails, TypeOK
<1>4. CASE Save(id, p)
  <2>. DEFINE t == [s EXCEPT !.path = p, !.isDirty = FALSE, !.saved = s.bytes,
                             !.owes = @ \ {"dirty"}]
  <2>1. FALSE \in BOOLEAN OBVIOUS
  <2>2. s.owes \ {"dirty"} \in SUBSET Debts BY <1>1 DEF Session
  <2>3. t \in Session BY <1>1, <2>1, <2>2 DEF Session
  <2>4. t.bytes = s.bytes /\ t.saved = s.bytes BY <1>1 DEF Session
  <2>5. Update(id, Invalidate(t)) BY <1>4 DEF Save
  <2>. HIDE DEF t
  <2>6. Flagged(t) BY <2>4 DEF Flagged
  <2>. QED BY <1>3, <2>3, <2>5, <2>6, InvalidateFields
<1>5. CASE SaveFails(id, p) \/ ExportFails(id, p)
  <2>1. UNCHANGED sessions BY <1>5 DEF SaveFails, ExportFails
  <2>2. Update(id, s) BY <2>1 DEF Update, TypeOK
  <2>. QED BY <1>1, <1>3, <2>2
<1>. QED BY <1>2, <1>4, <1>5

LEMMA EditIsSound ==
    ASSUME TypeOK, NEW id \in Live, Edit(id)
    PROVE  /\ UNCHANGED nextId /\ files' \in [Paths -> Docs \cup {NoDoc}]
           /\ \E t \in Session : /\ Update(id, t)
                                 /\ Flagged(sessions[id]) => Flagged(t)
<1>. DEFINE s == sessions[id]
            Sound == /\ UNCHANGED nextId /\ files' \in [Paths -> Docs \cup {NoDoc}]
                     /\ \E t \in Session : Update(id, t) /\ (Flagged(s) => Flagged(t))
<1>1. s \in Session /\ s.bytes \in Docs BY DEF TypeOK, Live, Session
<1>2. CASE TextEditRejected(id)
  BY <1>1, <1>2, InvalidateFields DEF TextEditRejected, TypeOK
<1>3. ASSUME NEW i \in Requested, NEW x \in Pages,
             \/ TextEdit(id, i, x) \/ FormEdit(id, i, x) \/ AnnotCreate(id, i, x)
             \/ \E p \in Paths : Export(id, p, i, x)
      PROVE  Sound
  <2>. DEFINE d == WithPage(s.bytes, i, x)
              w == Write(s, d)
              r == RefreshMetadata(w)
  <2>1. i \in Nat /\ i < Len(s.bytes)
    BY <1>3, RequestedAssumption DEF TextEdit, FormEdit, AnnotCreate, Export
  <2>2. d \in Docs BY <1>1, <2>1, WithPageIsADocument
  <2>3. UNCHANGED nextId /\ files' \in [Paths -> Docs \cup {NoDoc}]
    BY <1>3, <2>2 DEF TextEdit, FormEdit, AnnotCreate, Export, TypeOK
  <2>4. w \in Session BY <1>1, <2>2, WriteFields
  <2>5. r \in Session
    <3>1. Len(w.bytes) \in Nat BY <2>4 DEF Session, Docs
    <3>. HIDE DEF w
    <3>. QED BY <2>4, <3>1 DEF RefreshMetadata, Session
  <2>6. /\ Invalidate(MarkDirty(w)) \in Session /\ Flagged(Invalidate(MarkDirty(w)))
        /\ Invalidate(MarkDirty(r)) \in Session /\ Flagged(Invalidate(MarkDirty(r)))
    <3>. HIDE DEF w, r
    <3>. QED BY <2>4, <2>5, MarkDirtyFields, InvalidateFields
  <2>7. Owing(w, Debts) \in Session /\ Flagged(Owing(w, Debts))
    <3>1. "dirty" \in Debts BY DEF Debts
    <3>. HIDE DEF w
    <3>. QED BY <2>4, <3>1, OwingFields
  <2>8. \/ Update(id, Invalidate(MarkDirty(w))) \/ Update(id, Invalidate(MarkDirty(r)))
        \/ Update(id, Owing(w, Debts)) \/ UNCHANGED sessions
    BY <1>3 DEF TextEdit, FormEdit, AnnotCreate, Export
  <2>9. UNCHANGED sessions => Update(id, s) BY DEF Update, TypeOK
  <2>. HIDE DEF w, r, d
  <2>. QED BY <1>1, <2>3, <2>6, <2>7, <2>8, <2>9
<1>. QED BY <1>2, <1>3 DEF Edit

-----------------------------------------------------------------------------
(* The operations of a transaction.                                        *)

LEMMA RewrittenFields ==
    ASSUME NEW s \in Session, NEW d \in Docs
    PROVE  Rewritten(s, d) \in Session /\ SyncPages(Rewritten(s, d)) \in Session
<1>1. Rewritten(s, d) \in Session
  BY WriteFields, InvalidateFields DEF Rewritten
<1>. QED BY <1>1, SyncPagesFields

LEMMA PagesMoved ==
    ASSUME NEW d \in Docs, NEW i \in 1 .. Len(d)
    PROVE  /\ RemoveAt(d, i) \in Docs
           /\ \A k \in 1 .. Len(d) + 1 : \A x \in Pages :
                  InsertAt(d, k, x) \in Docs /\ Len(InsertAt(d, k, x)) = Len(d) + 1
<1>1. d \in Seq(Pages) /\ Len(d) \in Nat BY DEF Docs
<1>2. RemoveAt(d, i) \in Docs BY <1>1 DEF RemoveAt, Docs
<1>3. ASSUME NEW k \in 1 .. Len(d) + 1, NEW x \in Pages
      PROVE  InsertAt(d, k, x) \in Docs /\ Len(InsertAt(d, k, x)) = Len(d) + 1
  <2>. DEFINE front == SubSeq(d, 1, k - 1)
              back  == SubSeq(d, k, Len(d))
  <2>1. front \in Seq(Pages) /\ Len(front) = k - 1 BY <1>1
  <2>2. back \in Seq(Pages) /\ Len(back) = Len(d) - k + 1 BY <1>1
  <2>3. <<x>> \in Seq(Pages) /\ Len(<<x>>) = 1 OBVIOUS
  <2>4. InsertAt(d, k, x) = front \o <<x>> \o back BY DEF InsertAt
  <2>. DEFINE most == front \o <<x>>
  <2>5. most \in Seq(Pages) /\ Len(most) = k
    <3>. HIDE DEF front
    <3>. QED BY <1>1, <2>1, <2>3
  <2>6. most \o back \in Seq(Pages) /\ Len(most \o back) = Len(d) + 1
    <3>. HIDE DEF most, back
    <3>. QED BY <1>1, <2>2, <2>5
  <2>. QED BY <2>4, <2>6 DEF Docs
<1>. QED BY <1>2, <1>3

LEMMA OperationIsSound ==
    ASSUME EngineTypeOK, tx # Idle, tx.session \in Live, Operation
    PROVE  /\ \E t \in Session : Update(tx.session, t)
           /\ tx' = [tx EXCEPT !.ops = @ + 1]
           /\ UNCHANGED <<nextId, files, undo, redo, disk, nextSnapshotId>>
<1>. DEFINE s == sessions[tx.session]
            n == Len(s.bytes)
            Sound == \E t \in Session : Apply(t)
<1>1. s \in Session /\ s.bytes \in Docs /\ n \in Nat /\ s.pages \in Nat
  BY DEF EngineTypeOK, TypeOK, Live, Session, Docs
<1>2. ASSUME Nothing PROVE Sound
  BY <1>1, <1>2 DEF Nothing
<1>3. ASSUME NEW i \in Nat, DeletePage(i) PROVE Sound
  <2>1. i + 1 \in 1 .. n BY <1>1, <1>3 DEF DeletePage
  <2>2. RemoveAt(s.bytes, i + 1) \in Docs BY <1>1, <2>1, PagesMoved
  <2>. QED BY <1>1, <1>3, <2>2, RewrittenFields DEF DeletePage
<1>4. ASSUME NEW i \in Nat, InsertBlankPage(i) PROVE Sound
  <2>. DEFINE at == IF i = s.pages THEN n ELSE i
  <2>1. at + 1 \in 1 .. n + 1 BY <1>1, <1>4 DEF InsertBlankPage
  <2>2. InsertAt(s.bytes, at + 1, BlankPage) \in Docs
    <3>1. CASE n > 0
      <4>1. n \in 1 .. Len(s.bytes) BY <1>1, <3>1
      <4>. HIDE DEF s, n, at
      <4>. QED BY <1>1, <2>1, <4>1, PagesMoved, BlankAssumption DEF n
    <3>2. CASE n = 0
      <4>1. s.bytes = <<>> /\ at + 1 = 1 BY <1>1, <2>1, <3>2 DEF Docs
      <4>2. InsertAt(<<>>, 1, BlankPage) \in Docs
        BY BlankAssumption DEF InsertAt, Docs
      <4>. QED BY <4>1, <4>2
    <3>. QED BY <1>1, <3>1, <3>2
  <2>3. Apply(SyncPages(Rewritten(s, InsertAt(s.bytes, at + 1, BlankPage))))
    BY <1>4 DEF InsertBlankPage
  <2>. HIDE DEF at, s
  <2>. QED BY <1>1, <2>2, <2>3, RewrittenFields
<1>5. ASSUME NEW i \in Nat, NEW x \in Pages, EditText(i, x) PROVE Sound
  <2>1. WithPage(s.bytes, i, x) \in Docs
    BY <1>1, <1>5, WithPageIsADocument DEF EditText
  <2>. QED BY <1>1, <1>5, <2>1, RewrittenFields DEF EditText
<1>6. ASSUME NEW i \in Nat, NEW x \in Pages, RotatePage(i, x) PROVE Sound
  <2>1. WithPage(s.bytes, i, x) \in Docs
    BY <1>1, <1>6, WithPageIsADocument DEF RotatePage
  <2>. QED BY <1>1, <1>6, <2>1, RewrittenFields DEF RotatePage
<1>7. ASSUME NEW i \in Nat, NEW j \in Nat, MovePage(i, j) PROVE Sound
  <2>. DEFINE d        == s.bytes
              insertAt == IF i < j THEN j + 1 ELSE j
              deleteAt == IF i < j THEN i ELSE i + 1
              longer   == InsertAt(d, insertAt + 1, d[i + 1])
  <2>1. i < n /\ j < n BY <1>1, <1>7 DEF MovePage
  <2>2. i + 1 \in 1 .. n /\ insertAt + 1 \in 1 .. n + 1 /\ deleteAt + 1 \in 1 .. n + 1
    BY <1>1, <2>1
  <2>3. d[i + 1] \in Pages BY <1>1, <2>2 DEF Docs
  <2>4. longer \in Docs /\ Len(longer) = n + 1
    BY <1>1, <2>2, <2>3, PagesMoved
  <2>5. RemoveAt(longer, deleteAt + 1) \in Docs
    <3>. HIDE DEF longer, n, deleteAt
    <3>. QED BY <2>2, <2>4, PagesMoved
  <2>6. Moved(d, i, j) \in Docs BY <2>5 DEF Moved
  <2>. QED BY <1>1, <1>7, <2>6, RewrittenFields DEF MovePage
<1>8. Sound
  <2>. HIDE DEF Sound
  <2>. QED
    BY <1>2, <1>3, <1>4, <1>5, <1>6, <1>7, RequestedAssumption
       DEF Operation, DeletePageFromOrganizer
<1>. QED BY <1>8 DEF Apply

-----------------------------------------------------------------------------
(* Stacks of snapshots.                                                    *)

FileOf(id, e) == [session |-> id, file |-> e.file, doc |-> e.doc]

\* Restorable, with the disk named.
Stored(id, e, d) == e.file = 0 \/ FileOf(id, e) \in d

LEMMA RestorableMeansStored ==
    ASSUME NEW id, NEW e
    PROVE  /\ Restorable(id, e) <=> Stored(id, e, disk)
           /\ Restorable(id, e)' <=> Stored(id, e, disk')
<1>1. FilesOf(id, <<e>>) = {FileOf(id, e)} BY DEF FilesOf, FileOf, Range
<1>. QED BY <1>1 DEF Restorable, Stored

LEMMA PartOfAStack ==
    ASSUME NEW s \in Seq(Snapshot), NEW n, Numbered(s, n),
           NEW a \in 1 .. Len(s) + 1, NEW b \in 0 .. Len(s)
    PROVE  /\ SubSeq(s, a, b) \in Seq(Snapshot)
           /\ Numbered(SubSeq(s, a, b), n)
           /\ Range(SubSeq(s, a, b)) \subseteq Range(s)
           /\ \A t : Apart(s, t) => Apart(SubSeq(s, a, b), t)
           /\ \A t : Apart(t, s) => Apart(t, SubSeq(s, a, b))
<1>. DEFINE p == SubSeq(s, a, b)
<1>1. /\ p \in Seq(Snapshot)
      /\ \A k \in DOMAIN p : a + k - 1 \in DOMAIN s /\ p[k] = s[a + k - 1]
      /\ DOMAIN p \subseteq Nat
  OBVIOUS
<1>. HIDE DEF p
<1>2. Numbered(p, n)
  <2>1. \A k \in DOMAIN p : p[k].file < n BY <1>1 DEF Numbered
  <2>2. ASSUME NEW j \in DOMAIN p, NEW k \in DOMAIN p, p[j].file = p[k].file
        PROVE  j = k \/ p[j].file = 0
    <3>1. a + j - 1 = a + k - 1 \/ p[j].file = 0
      BY <1>1, <2>2 DEF Numbered
    <3>2. a \in Int /\ j \in Int /\ k \in Int BY <1>1
    <3>. QED BY <3>1, <3>2
  <2>. QED BY <2>1, <2>2 DEF Numbered
<1>3. Range(p) \subseteq Range(s) BY <1>1 DEF Range
<1>4. \A t : Apart(s, t) => Apart(p, t) BY <1>1 DEF Apart
<1>5. \A t : Apart(t, s) => Apart(t, p) BY <1>1 DEF Apart
<1>. QED BY <1>1, <1>2, <1>3, <1>4, <1>5 DEF p

LEMMA PushedOnAStack ==
    ASSUME NEW s \in Seq(Snapshot), NEW n \in Nat, Numbered(s, n),
           NEW e \in Snapshot, Apart(<<e>>, s), NEW m \in Nat, n <= m, e.file < m
    PROVE  /\ Append(s, e) \in Seq(Snapshot)
           /\ Numbered(Append(s, e), m)
           /\ Range(Append(s, e)) = Range(s) \cup {e}
           /\ \A t : Apart(s, t) /\ Apart(<<e>>, t) => Apart(Append(s, e), t)
           /\ \A t : Apart(t, s) /\ Apart(t, <<e>>) => Apart(t, Append(s, e))
<1>. DEFINE p == Append(s, e)
            l == Len(s) + 1
<1>1. /\ p \in Seq(Snapshot) /\ DOMAIN p = 1 .. l /\ p[l] = e
      /\ DOMAIN s = 1 .. Len(s) /\ Len(s) \in Nat
      /\ \A k \in DOMAIN s : p[k] = s[k] /\ s[k] \in Snapshot
  OBVIOUS
<1>2. \A k \in DOMAIN p : k \in DOMAIN s \/ k = l BY <1>1
<1>3. \A k \in DOMAIN s : s[k].file \in Nat /\ s[k].file < n
                          /\ (s[k].file = e.file => s[k].file = 0)
  BY <1>1 DEF Numbered, Apart, Snapshot
<1>. HIDE DEF p, l
<1>4. Numbered(p, m)
  <2>1. \A k \in DOMAIN p : p[k].file < m
    BY <1>1, <1>2, <1>3
  <2>2. \A j, k \in DOMAIN p : p[j].file = p[k].file => j = k \/ p[j].file = 0
    <3>. SUFFICES ASSUME NEW j \in DOMAIN p, NEW k \in DOMAIN p, p[j].file = p[k].file
                  PROVE  j = k \/ p[j].file = 0
      OBVIOUS
    <3>1. CASE j \in DOMAIN s /\ k \in DOMAIN s
      BY <1>1, <3>1 DEF Numbered
    <3>2. CASE j = l \/ k = l
      BY <1>1, <1>2, <1>3, <3>2
    <3>. QED BY <1>2, <3>1, <3>2
  <2>. QED BY <2>1, <2>2 DEF Numbered
<1>5. Range(p) = Range(s) \cup {e}
  <2>1. l \in DOMAIN p /\ DOMAIN s \subseteq DOMAIN p BY <1>1 DEF l
  <2>. QED BY <1>1, <1>2, <2>1 DEF Range
<1>6. \A t : Apart(s, t) /\ Apart(<<e>>, t) => Apart(p, t)
  BY <1>1, <1>2 DEF Apart
<1>7. \A t : Apart(t, s) /\ Apart(t, <<e>>) => Apart(t, p)
  BY <1>1, <1>2 DEF Apart
<1>. QED BY <1>1, <1>4, <1>5, <1>6, <1>7 DEF p

\* prune_to_budget cuts a stack in two: what is dropped and what is kept.
LEMMA KeptIsARest ==
    ASSUME NEW S, NEW u \in Seq(S), NEW r
    PROVE  \E k \in 1 .. Len(u) + 1 :
               /\ Kept(u, r) = SubSeq(u, k, Len(u))
               /\ Pruned(u, r) = SubSeq(u, 1, k - 1)
               /\ Len(Kept(u, r)) <= MaxUndoEntries
<1>. DEFINE Rest(k) == SubSeq(u, k, Len(u))
            fits == {k \in 1 .. Len(u) :
                        Len(Rest(k)) <= MaxUndoEntries /\ WithinBudget(Rest(k), r)}
            least == CHOOSE k \in fits : \A j \in fits : k <= j
            cut == IF fits = {} THEN Len(u) + 1 ELSE least
<1>1. Len(u) \in Nat OBVIOUS
<1>2. Kept(u, r) = Rest(cut) BY DEF Kept
<1>3. fits # {} => least \in fits
  <2>1. fits \in SUBSET Nat OBVIOUS
  <2>. HIDE DEF fits
  <2>. QED BY <2>1, LeastExists
<1>4. cut \in 1 .. Len(u) + 1
  <2>. HIDE DEF least
  <2>. QED BY <1>1, <1>3
<1>5. Len(Rest(cut)) = Len(u) - cut + 1
  <2>. HIDE DEF cut
  <2>. QED BY <1>1, <1>4
<1>6. Len(Rest(cut)) <= MaxUndoEntries
  <2>1. CASE fits = {}
    <3>1. cut = Len(u) + 1 BY <2>1
    <3>2. MaxUndoEntries \in Nat BY BudgetAssumption
    <3>. HIDE DEF cut, Rest
    <3>. QED BY <1>1, <1>5, <3>1, <3>2
  <2>2. CASE fits # {}
    <3>. HIDE DEF least
    <3>. QED BY <1>3, <2>2
  <2>. QED BY <2>1, <2>2
<1>7. Pruned(u, r) = SubSeq(u, 1, cut - 1)
  <2>1. Len(u) - Len(Kept(u, r)) = cut - 1
    <3>. HIDE DEF cut, Rest
    <3>. QED BY <1>1, <1>2, <1>4, <1>5
  <2>. QED BY <2>1 DEF Pruned
<1>. HIDE DEF cut
<1>. QED BY <1>2, <1>4, <1>6, <1>7

-----------------------------------------------------------------------------
(* The stacks of one session, on a disk d, when n is the next snapshot id. *)

AllStored(id, S, d) == ~OtherInstances => \A e \in S : Stored(id, e, d)

Stacks(id, u, r, d, n) ==
    /\ u \in Seq(Snapshot) /\ r \in Seq(Snapshot)
    /\ Numbered(u, n) /\ Numbered(r, n) /\ Apart(u, r)
    /\ Len(u) <= MaxUndoEntries
    /\ AllStored(id, Range(u) \cup Range(r), d)

\* An entry that could go on either stack.
Joins(id, e, u, r, d, n) ==
    /\ e \in Snapshot /\ e.file < n
    /\ Apart(<<e>>, u) /\ Apart(<<e>>, r)
    /\ AllStored(id, {e}, d)

\* Entries apart from those that are deleted keep their files.
LEMMA DeletingKeepsOthers ==
    ASSUME NEW id, NEW d, NEW gone, NEW s, Apart(s, gone),
           AllStored(id, Range(s), d)
    PROVE  AllStored(id, Range(s), d \ FilesOf(id, gone))
<1>. SUFFICES ASSUME ~OtherInstances, NEW k \in DOMAIN s
              PROVE  Stored(id, s[k], d \ FilesOf(id, gone))
  BY DEF AllStored, Range
<1>1. Stored(id, s[k], d) BY DEF AllStored, Range
<1>2. ASSUME FileOf(id, s[k]) \in FilesOf(id, gone) PROVE s[k].file = 0
  <2>1. PICK j \in DOMAIN gone : FileOf(id, s[k]) = FileOf(id, gone[j])
    BY <1>2 DEF FilesOf, FileOf, Range
  <2>2. s[k].file = gone[j].file BY <2>1 DEF FileOf
  <2>. QED BY <2>2 DEF Apart
<1>. QED BY <1>1, <1>2 DEF Stored

LEMMA ApartIsSymmetric ==
    ASSUME NEW s, NEW t, Apart(s, t)
    PROVE  Apart(t, s)
BY DEF Apart

\* A larger disk and a larger number serve as well.
LEMMA StacksStay ==
    ASSUME NEW id, NEW u, NEW r, NEW d, NEW e, NEW n \in Nat, NEW m \in Nat,
           Stacks(id, u, r, d, n), n <= m,
           \A f \in d : f.session = id => f \in e
    PROVE  Stacks(id, u, r, e, m)
<1>1. Numbered(u, m) /\ Numbered(r, m)
  <2>1. ASSUME NEW s \in Seq(Snapshot), Numbered(s, n) PROVE Numbered(s, m)
    <3>1. \A k \in DOMAIN s : s[k] \in Snapshot OBVIOUS
    <3>2. \A k \in DOMAIN s : s[k].file \in Nat BY <3>1 DEF Snapshot
    <3>. QED BY <2>1, <3>2 DEF Numbered
  <2>. QED BY <2>1 DEF Stacks
<1>2. AllStored(id, Range(u) \cup Range(r), e)
  <2>1. \A x : FileOf(id, x).session = id BY DEF FileOf
  <2>. QED BY <2>1 DEF Stacks, AllStored, Stored
<1>. QED BY <1>1, <1>2 DEF Stacks

\* A new snapshot has a number of its own and its file is there.
LEMMA NewSnapshotJoins ==
    ASSUME NEW id, NEW u, NEW r, NEW d, nextSnapshotId \in Nat \ {0},
           Stacks(id, u, r, d, nextSnapshotId), NEW bytes \in Docs,
           NEW e, e = d \cup (IF Spills(bytes)
                             THEN FilesOf(id, <<NewSnapshot(bytes)>>) ELSE {})
    PROVE  /\ NewSnapshot(bytes).doc = bytes
           /\ Joins(id, NewSnapshot(bytes), u, r, e, nextSnapshotId + 1)
<1>. DEFINE x == NewSnapshot(bytes)
            n == nextSnapshotId
<1>1. x \in Snapshot /\ x.doc = bytes /\ x.file \in {0, n} /\ (~Spills(bytes) => x.file = 0)
  BY DEF NewSnapshot, Snapshot
<1>2. ASSUME NEW s, Numbered(s, n) PROVE Apart(<<x>>, s)
  <2>. HIDE DEF x
  <2>. SUFFICES ASSUME NEW j \in DOMAIN <<x>>, NEW k \in DOMAIN s, <<x>>[j].file = s[k].file
                PROVE  <<x>>[j].file = 0
    BY DEF Apart
  <2>1. <<x>>[j] = x OBVIOUS
  <2>2. s[k].file < n BY <1>2 DEF Numbered
  <2>. QED BY <1>1, <2>1, <2>2
<1>3. AllStored(id, {x}, e)
  <2>1. Range(<<x>>) = {x} BY DEF Range
  <2>2. FileOf(id, x) \in FilesOf(id, <<x>>) BY <2>1 DEF FilesOf, FileOf
  <2>. HIDE DEF x
  <2>. QED BY <1>1, <2>2 DEF AllStored, Stored, x
<1>. HIDE DEF x
<1>. QED BY <1>1, <1>2, <1>3 DEF Joins, Stacks, Snapshot, x

\* Undo: the last entry is taken; another may be pushed on the other stack.
LEMMA StacksOfUndo ==
    ASSUME NEW id, NEW u, NEW r, NEW d, NEW n \in Nat, NEW x,
           Stacks(id, u, r, d, n), u # <<>>
    PROVE  /\ Stacks(id, Front(u), r, d, n)
           /\ Joins(id, x, u, r, d, n) => Stacks(id, Front(u), Append(r, x), d, n)
<1>. DEFINE f == Front(u)
<1>1. u \in Seq(Snapshot) /\ r \in Seq(Snapshot) /\ Len(u) \in Nat \ {0}
  BY DEF Stacks
<1>2. /\ f \in Seq(Snapshot) /\ Numbered(f, n) /\ Range(f) \subseteq Range(u)
      /\ \A t : Apart(u, t) => Apart(f, t)
      /\ \A t : Apart(t, u) => Apart(t, f)
  <2>1. 1 \in 1 .. Len(u) + 1 /\ Len(u) - 1 \in 0 .. Len(u) BY <1>1
  <2>. QED BY <1>1, <2>1, PartOfAStack DEF Front, Stacks
<1>3. Len(f) <= MaxUndoEntries
  <2>1. Len(f) = Len(u) - 1
    <3>. DEFINE b == Len(u) - 1
    <3>1. b \in Nat BY <1>1
    <3>2. Len(SubSeq(u, 1, b)) = b
      <4>. HIDE DEF b
      <4>. QED BY <1>1, <3>1
    <3>. QED BY <3>2 DEF Front
  <2>2. Len(u) <= MaxUndoEntries /\ MaxUndoEntries \in Nat
    BY BudgetAssumption DEF Stacks
  <2>. HIDE DEF f
  <2>. QED BY <1>1, <2>1, <2>2
<1>4. AllStored(id, Range(f) \cup Range(r), d)
  BY <1>2 DEF AllStored, Stacks
<1>. HIDE DEF f
<1>5. Stacks(id, f, r, d, n) BY <1>2, <1>3, <1>4 DEF Stacks
<1>6. ASSUME Joins(id, x, u, r, d, n) PROVE Stacks(id, f, Append(r, x), d, n)
  <2>1. /\ Append(r, x) \in Seq(Snapshot) /\ Numbered(Append(r, x), n)
        /\ Range(Append(r, x)) = Range(r) \cup {x}
        /\ Apart(f, r) /\ Apart(f, <<x>>) => Apart(f, Append(r, x))
    BY <1>6, PushedOnAStack DEF Joins, Stacks
  <2>2. Apart(f, r) BY <1>5 DEF Stacks
  <2>3. Apart(f, <<x>>)
    BY <1>2, <1>6, ApartIsSymmetric DEF Joins
  <2>4. AllStored(id, Range(f) \cup Range(Append(r, x)), d)
    BY <1>4, <1>6, <2>1 DEF AllStored, Joins
  <2>. QED BY <1>5, <2>1, <2>2, <2>3, <2>4 DEF Stacks
<1>. QED BY <1>5, <1>6 DEF f

\* A commit or a redo: an entry is pushed, the oldest go with their files,
\* and with those of the entries that are to go besides.
LEMMA StacksOfPruning ==
    ASSUME NEW id, NEW u, NEW r, NEW d, NEW n \in Nat, NEW x,
           Stacks(id, u, r, d, n), Joins(id, x, u, r, d, n),
           NEW s \in {<<>>, r, Front(r)}, NEW gone,
           NEW budget,
           \/ s = <<>> /\ gone = r \o Pruned(Append(u, x), budget)
           \/ gone = Pruned(Append(u, x), budget)
    PROVE  Stacks(id, Kept(Append(u, x), budget), s, d \ FilesOf(id, gone), n)
<1>. DEFINE p == Append(u, x)
<1>1. /\ p \in Seq(Snapshot) /\ Numbered(p, n) /\ Range(p) = Range(u) \cup {x}
      /\ Apart(u, r) /\ Apart(<<x>>, r) => Apart(p, r)
  BY PushedOnAStack DEF Stacks, Joins
<1>. HIDE DEF p
<1>2. Apart(p, r) BY <1>1 DEF Stacks, Joins
<1>3. PICK k \in 1 .. Len(p) + 1 :
          /\ Kept(p, budget) = SubSeq(p, k, Len(p))
          /\ Pruned(p, budget) = SubSeq(p, 1, k - 1)
          /\ Len(Kept(p, budget)) <= MaxUndoEntries
  BY <1>1, KeptIsARest
<1>. DEFINE kept == SubSeq(p, k, Len(p))
            pruned == SubSeq(p, 1, k - 1)
<1>4. /\ kept \in Seq(Snapshot) /\ Numbered(kept, n) /\ Range(kept) \subseteq Range(p)
      /\ Apart(kept, r)
  <2>1. Len(p) \in 0 .. Len(p) BY <1>1
  <2>. QED BY <1>1, <1>2, <2>1, PartOfAStack
<1>5. pruned \in Seq(Snapshot) /\ Apart(pruned, r)
  <2>1. k - 1 \in 0 .. Len(p) /\ 1 \in 1 .. Len(p) + 1 BY <1>1
  <2>. QED BY <1>1, <1>2, <2>1, PartOfAStack
<1>6. Apart(kept, pruned)
  <2>1. Len(p) \in Nat /\ DOMAIN p = 1 .. Len(p) BY <1>1
  <2>2. \A j \in DOMAIN kept : k + j - 1 \in k .. Len(p) /\ kept[j] = p[k + j - 1]
    BY <1>1
  <2>3. \A j \in DOMAIN pruned : j \in 1 .. k - 1 /\ pruned[j] = p[j]
    BY <1>1
  <2>. HIDE DEF kept, pruned
  <2>. SUFFICES ASSUME NEW i \in DOMAIN kept, NEW j \in DOMAIN pruned,
                       kept[i].file = pruned[j].file
                PROVE  kept[i].file = 0
    BY DEF Apart
  <2>4. k + i - 1 \in DOMAIN p /\ j \in DOMAIN p /\ k + i - 1 # j
    BY <2>1, <2>2, <2>3
  <2>. QED BY <1>1, <2>2, <2>3, <2>4 DEF Numbered
<1>7. /\ s \in Seq(Snapshot) /\ Numbered(s, n) /\ Range(s) \subseteq Range(r)
      /\ Apart(kept, s) /\ Apart(pruned, s)
  <2>1. CASE s = <<>>
    BY <2>1 DEF Numbered, Range, Apart
  <2>2. CASE s = r
    BY <2>2, <1>4, <1>5 DEF Stacks
  <2>3. CASE s = Front(r) /\ r # <<>>
    <3>1. r \in Seq(Snapshot) /\ Numbered(r, n) BY DEF Stacks
    <3>2. Len(r) - 1 \in 0 .. Len(r) /\ 1 \in 1 .. Len(r) + 1 BY <2>3, <3>1
    <3>. HIDE DEF kept, pruned
    <3>. QED BY <2>3, <1>4, <1>5, <3>1, <3>2, PartOfAStack DEF Front
  <2>4. CASE s = Front(r) /\ r = <<>>
    BY <2>4, <2>1 DEF Front
  <2>. QED BY <2>1, <2>2, <2>3, <2>4
<1>8. Apart(kept, gone) /\ Apart(s, gone)
  <2>1. CASE gone = pruned
    BY <2>1, <1>6, <1>7, ApartIsSymmetric
  <2>2. CASE s = <<>> /\ gone = r \o pruned
    <3>1. Apart(s, gone) BY <2>2 DEF Apart
    <3>2. \A j \in DOMAIN gone : \/ \E i \in DOMAIN r : gone[j] = r[i]
                                 \/ \E i \in DOMAIN pruned : gone[j] = pruned[i]
      <4>1. r \in Seq(Snapshot) BY DEF Stacks
      <4>. HIDE DEF pruned
      <4>2. /\ DOMAIN r = 1 .. Len(r) /\ Len(r) \in Nat
            /\ DOMAIN pruned = 1 .. Len(pruned) /\ Len(pruned) \in Nat
            /\ DOMAIN gone = 1 .. Len(r) + Len(pruned)
        BY <2>2, <4>1, <1>5
      <4>3. ASSUME NEW j \in DOMAIN gone, j <= Len(r) PROVE gone[j] = r[j]
        BY <2>2, <4>1, <4>2, <4>3, <1>5
      <4>4. ASSUME NEW j \in DOMAIN gone, j > Len(r)
            PROVE  gone[j] = pruned[j - Len(r)] /\ j - Len(r) \in DOMAIN pruned
        BY <2>2, <4>1, <4>2, <4>4, <1>5
      <4>. QED BY <4>2, <4>3, <4>4
    <3>3. Apart(kept, gone) BY <3>2, <1>4, <1>6 DEF Apart
    <3>. QED BY <3>1, <3>3
  <2>. QED BY <2>1, <2>2, <1>3 DEF p
<1>9. AllStored(id, Range(kept), d) /\ AllStored(id, Range(s), d)
  BY <1>1, <1>4, <1>7 DEF AllStored, Stacks, Joins
<1>10. AllStored(id, Range(kept) \cup Range(s), d \ FilesOf(id, gone))
  <2>1. /\ AllStored(id, Range(kept), d \ FilesOf(id, gone))
        /\ AllStored(id, Range(s), d \ FilesOf(id, gone))
    BY <1>8, <1>9, DeletingKeepsOthers
  <2>. QED BY <2>1 DEF AllStored
<1>. HIDE DEF kept
<1>11. Len(kept) <= MaxUndoEntries BY <1>3 DEF kept
<1>12. Stacks(id, kept, s, d \ FilesOf(id, gone), n)
  BY <1>4, <1>7, <1>10, <1>11 DEF Stacks
<1>. QED BY <1>3, <1>12 DEF p, kept

-----------------------------------------------------------------------------
(* The invariant, and what replaces one session or the stacks of one.      *)

StacksInv ==
    /\ undo \in [Live -> Seq(Snapshot)] /\ redo \in [Live -> Seq(Snapshot)]
    /\ disk \in SUBSET SnapshotFile /\ \A f \in disk : f.session \in Live
    /\ nextSnapshotId \in Nat \ {0}
    /\ \A id \in Live : Stacks(id, undo[id], redo[id], disk, nextSnapshotId)

TxInv ==
    /\ tx \in [session : Nat, before : Snapshot, ops : Nat]
    /\ tx # Idle =>
          /\ tx.session \in Live
          /\ Joins(tx.session, tx.before, undo[tx.session], redo[tx.session],
                   disk, nextSnapshotId)

EngineInv == TypeOK /\ StacksInv /\ TxInv /\ FlagsAreRight

LEMMA SessionReplaced ==
    ASSUME TypeOK, NEW id \in Live, NEW t \in Session, Update(id, t),
           UNCHANGED nextId, files' \in [Paths -> Docs \cup {NoDoc}]
    PROVE  /\ TypeOK' /\ Live' = Live
           /\ \A i \in Live : sessions'[i] = IF i = id THEN t ELSE sessions[i]
<1>1. DOMAIN sessions' = DOMAIN sessions BY DEF Update
<1>2. \A i \in Live : sessions'[i] = IF i = id THEN t ELSE sessions[i]
  BY DEF Update, Live, TypeOK
<1>3. sessions' \in [DOMAIN sessions' -> Session]
  BY <1>1, <1>2 DEF Update, Live, TypeOK
<1>. QED BY <1>1, <1>2, <1>3 DEF TypeOK, Live

LEMMA StacksReplaced ==
    ASSUME TypeOK, StacksInv, NEW id \in Live, Live' = Live, NEW u, NEW r,
           undo' = [undo EXCEPT ![id] = u], redo' = [redo EXCEPT ![id] = r],
           nextSnapshotId' \in Nat, nextSnapshotId <= nextSnapshotId',
           \A f \in disk : f.session # id => f \in disk',
           \A f \in disk' : f \in disk \/ (f \in SnapshotFile /\ f.session = id),
           Stacks(id, u, r, disk', nextSnapshotId')
    PROVE  StacksInv'
<1>1. u \in Seq(Snapshot) /\ r \in Seq(Snapshot) BY DEF Stacks
<1>2. undo' \in [Live -> Seq(Snapshot)] /\ redo' \in [Live -> Seq(Snapshot)]
  BY <1>1 DEF StacksInv
<1>3. disk' \in SUBSET SnapshotFile /\ \A f \in disk' : f.session \in Live
  BY DEF StacksInv
<1>4. nextSnapshotId' \in Nat \ {0} /\ nextSnapshotId \in Nat
  BY DEF StacksInv
<1>5. ASSUME NEW i \in Live
      PROVE  Stacks(i, undo'[i], redo'[i], disk', nextSnapshotId')
  <2>1. CASE i = id
    <3>1. undo'[i] = u /\ redo'[i] = r BY <2>1 DEF StacksInv
    <3>. QED BY <2>1, <3>1
  <2>2. CASE i # id
    <3>1. undo'[i] = undo[i] /\ redo'[i] = redo[i] BY <2>2 DEF StacksInv
    <3>2. Stacks(i, undo[i], redo[i], disk, nextSnapshotId) BY DEF StacksInv
    <3>3. Stacks(i, undo[i], redo[i], disk', nextSnapshotId')
      BY <2>2, <3>2, <1>4, StacksStay
    <3>. QED BY <3>1, <3>3
  <2>. QED BY <2>1, <2>2
<1>6. \A i \in Live' : Stacks(i, undo'[i], redo'[i], disk', nextSnapshotId')
  BY <1>5
<1>. QED BY <1>2, <1>3, <1>4, <1>6 DEF StacksInv

\* Snapshot files are those of their session.
LEMMA FilesOfASession ==
    ASSUME NEW id \in Nat, NEW s \in Seq(Snapshot)
    PROVE  /\ FilesOf(id, s) \in SUBSET SnapshotFile
           /\ \A f \in FilesOf(id, s) : f.session = id
<1>1. \A e \in Range(s) : e \in Snapshot BY DEF Range
<1>2. \A e \in Range(s) : e.file \in Nat /\ e.doc \in Docs
  BY <1>1 DEF Snapshot
<1>. QED BY <1>2 DEF FilesOf, SnapshotFile

\* While no transaction runs, or after it has been told to, a session keeps
\* its flag right.
LEMMA FlagsStayRight ==
    ASSUME TypeOK, FlagsAreRight, NEW id \in Live, NEW t \in Session,
           Live' = Live,
           \A i \in Live : sessions'[i] = IF i = id THEN t ELSE sessions[i],
           \A i \in Live \ {id} : tx.session = i =>
               tx = Idle \/ (tx' # Idle /\ tx'.session = i /\ tx'.ops = tx.ops),
           Flagged(t) \/ (tx' # Idle /\ tx'.session = id /\ tx'.ops > 0)
    PROVE  FlagsAreRight'
<1>. SUFFICES ASSUME NEW i \in Live
              PROVE  \/ Flagged(sessions'[i])
                     \/ tx' # Idle /\ tx'.session = i /\ tx'.ops > 0
  BY DEF FlagsAreRight, Flagged
<1>1. CASE i = id BY <1>1
<1>2. CASE i # id BY <1>2 DEF FlagsAreRight
<1>. QED BY <1>1, <1>2

LEMMA IdleIsTyped ==
    Idle \in [session : Nat, before : Snapshot, ops : Nat] /\ Idle.session = 0
BY DEF Idle, Snapshot, Docs

\* No transaction, nothing to say of it.
LEMMA NoTransaction ==
    ASSUME tx' = Idle
    PROVE  TxInv'
BY IdleIsTyped DEF TxInv

LEMMA FlagsWhenIdle ==
    ASSUME FlagsAreRight, tx = Idle
    PROVE  \A id \in Live : Flagged(sessions[id])
BY DEF FlagsAreRight

LEMMA TypesOfASession ==
    ASSUME EngineInv, NEW id \in Live
    PROVE  /\ sessions[id] \in Session /\ sessions[id].bytes \in Docs
           /\ id \in Nat \ {0}
           /\ Stacks(id, undo[id], redo[id], disk, nextSnapshotId)
BY DEF EngineInv, StacksInv, TypeOK, Live, Session

LEMMA EmptyStacks ==
    ASSUME NEW id, NEW d, NEW n
    PROVE  Stacks(id, <<>>, <<>>, d, n)
<1>1. 0 <= MaxUndoEntries BY BudgetAssumption
<1>. QED BY <1>1 DEF Stacks, Numbered, Apart, AllStored, Range

-----------------------------------------------------------------------------
(* One lemma for each action.                                              *)

LEMMA EngineInitIsSound ==
    ASSUME EngineInit
    PROVE  EngineInv
<1>1. Live = {} BY DEF EngineInit, Init, Live
<1>2. TypeOK
  <2>1. sessions \in [DOMAIN sessions -> Session]
    BY DEF EngineInit, Init
  <2>2. files \in [Paths -> Docs \cup {NoDoc}]
    BY FilesAssumption DEF EngineInit, Init
  <2>. QED BY <1>1, <2>1, <2>2 DEF TypeOK, EngineInit, Init, Live
<1>3. StacksInv
  <2>1. undo \in [Live -> Seq(Snapshot)] /\ redo \in [Live -> Seq(Snapshot)]
    BY <1>1 DEF EngineInit
  <2>. QED BY <1>1, <2>1 DEF StacksInv, EngineInit
<1>4. TxInv BY IdleIsTyped DEF TxInv, EngineInit
<1>. QED BY <1>1, <1>2, <1>3, <1>4 DEF EngineInv, FlagsAreRight

LEMMA StutterIsSound ==
    ASSUME EngineInv, UNCHANGED allVars
    PROVE  EngineInv'
BY DEF EngineInv, TypeOK, StacksInv, TxInv, FlagsAreRight, Live, allVars

LEMMA SessionCommandIsSound ==
    ASSUME EngineInv, NEW id \in Live, SessionCommand(id)
    PROVE  EngineInv'
<1>1. tx = Idle /\ UNCHANGED engineVars BY DEF SessionCommand
<1>2. /\ UNCHANGED nextId /\ files' \in [Paths -> Docs \cup {NoDoc}]
      /\ \E t \in Session : Update(id, t) /\ (Flagged(sessions[id]) => Flagged(t))
  <2>1. TypeOK BY DEF EngineInv
  <2>2. files \in [Paths -> Docs \cup {NoDoc}] BY <2>1 DEF TypeOK
  <2>3. CASE Read(id) BY <2>1, <2>2, <2>3, ReadIsSound
  <2>4. CASE Store(id) BY <2>1, <2>4, StoreIsSound
  <2>5. CASE Edit(id) BY <2>1, <2>5, EditIsSound
  <2>. QED BY <2>3, <2>4, <2>5 DEF SessionCommand
<1>3. PICK t \in Session : Update(id, t) /\ (Flagged(sessions[id]) => Flagged(t))
  BY <1>2
<1>4. /\ TypeOK' /\ Live' = Live
      /\ \A i \in Live : sessions'[i] = IF i = id THEN t ELSE sessions[i]
  BY <1>2, <1>3, SessionReplaced DEF EngineInv
<1>5. StacksInv' BY <1>1, <1>4 DEF EngineInv, StacksInv, engineVars
<1>6. TxInv' BY <1>1, NoTransaction DEF engineVars
<1>7. FlagsAreRight'
  BY <1>1, <1>3, <1>4, FlagsStayRight, FlagsWhenIdle DEF EngineInv
<1>. QED BY <1>4, <1>5, <1>6, <1>7 DEF EngineInv

LEMMA OpenSessionIsSound ==
    ASSUME EngineInv, NEW p \in Paths, OpenSession(p)
    PROVE  EngineInv'
<1>. DEFINE d == files[p]
            t == [path |-> p, bytes |-> d, pages |-> Len(d), pageCount |-> Len(d),
                  currentPage |-> 0, viewportPage |-> 0, isDirty |-> FALSE,
                  revision |-> 0, parsed |-> d, cache |-> {},
                  saved |-> d, owes |-> {}]
<1>1. nextId \in Nat \ {0} /\ Live \subseteq 1 .. nextId - 1 /\ nextId \notin Live
  BY DEF EngineInv, TypeOK, Live
<1>2. d \in Docs BY DEF EngineInv, TypeOK, OpenSession, Open
<1>3. t \in Session
  <2>1. Len(d) \in Nat BY <1>2 DEF Docs
  <2>. HIDE DEF d
  <2>. QED BY <1>2, <2>1 DEF Session, Debts
<1>4. Flagged(t) BY DEF Flagged
<1>5. /\ sessions' = [id \in Live \cup {nextId} |-> IF id = nextId THEN t ELSE sessions[id]]
      /\ nextId' = nextId + 1 /\ files' = files
  BY DEF OpenSession, Open
<1>. HIDE DEF t
<1>6. Live' = Live \cup {nextId} BY <1>5 DEF Live
<1>7. TypeOK'
  <2>1. sessions' \in [DOMAIN sessions' -> Session]
    BY <1>3, <1>5 DEF EngineInv, TypeOK, Live
  <2>2. DOMAIN sessions' \subseteq 1 .. nextId' - 1
    BY <1>1, <1>5, <1>6 DEF Live
  <2>. QED BY <1>1, <1>5, <2>1, <2>2 DEF EngineInv, TypeOK
<1>8. StacksInv'
  <2>1. /\ undo' = [id \in Live' |-> IF id \in Live THEN undo[id] ELSE <<>>]
        /\ redo' = [id \in Live' |-> IF id \in Live THEN redo[id] ELSE <<>>]
        /\ UNCHANGED <<disk, nextSnapshotId>>
    BY DEF OpenSession
  <2>2. \A i \in Live' : Stacks(i, undo'[i], redo'[i], disk', nextSnapshotId')
    BY <1>6, <2>1, EmptyStacks DEF EngineInv, StacksInv
  <2>3. undo' \in [Live' -> Seq(Snapshot)] /\ redo' \in [Live' -> Seq(Snapshot)]
    BY <2>1 DEF EngineInv, StacksInv
  <2>. QED BY <1>6, <2>1, <2>2, <2>3 DEF EngineInv, StacksInv
<1>9. TxInv' BY NoTransaction DEF OpenSession
<1>10. FlagsAreRight'
  <2>1. \A id \in Live : Flagged(sessions[id])
    BY FlagsWhenIdle DEF OpenSession, EngineInv
  <2>2. \A id \in Live' : Flagged(sessions'[id])
    BY <1>4, <1>5, <1>6, <2>1
  <2>. QED BY <2>2 DEF FlagsAreRight, Flagged
<1>. QED BY <1>7, <1>8, <1>9, <1>10 DEF EngineInv

LEMMA CloseSessionIsSound ==
    ASSUME EngineInv, NEW id \in Live, CloseSession(id)
    PROVE  EngineInv'
<1>1. /\ sessions' = [i \in Live \ {id} |-> sessions[i]]
      /\ UNCHANGED <<nextId, files>>
  BY DEF CloseSession, Close
<1>2. Live' = Live \ {id} BY <1>1 DEF Live
<1>3. TypeOK'
  <2>1. sessions' \in [DOMAIN sessions' -> Session]
    BY <1>1 DEF EngineInv, TypeOK, Live
  <2>. QED BY <1>1, <1>2, <2>1 DEF EngineInv, TypeOK, Live
<1>4. StacksInv'
  <2>1. /\ undo' = [i \in Live' |-> undo[i]] /\ redo' = [i \in Live' |-> redo[i]]
        /\ disk' = {f \in disk : f.session # id} /\ UNCHANGED nextSnapshotId
    BY DEF CloseSession
  <2>2. ASSUME NEW i \in Live'
        PROVE  Stacks(i, undo'[i], redo'[i], disk', nextSnapshotId')
    <3>1. Stacks(i, undo[i], redo[i], disk, nextSnapshotId)
      BY <1>2 DEF EngineInv, StacksInv
    <3>2. nextSnapshotId \in Nat /\ nextSnapshotId <= nextSnapshotId
      BY DEF EngineInv, StacksInv
    <3>3. \A f \in disk : f.session = i => f \in disk' BY <1>2, <2>1
    <3>4. Stacks(i, undo[i], redo[i], disk', nextSnapshotId)
      BY <3>1, <3>2, <3>3, StacksStay
    <3>. QED BY <2>1, <3>4
  <2>3. undo' \in [Live' -> Seq(Snapshot)] /\ redo' \in [Live' -> Seq(Snapshot)]
    BY <1>2, <2>1 DEF EngineInv, StacksInv
  <2>. QED BY <1>2, <2>1, <2>2, <2>3 DEF EngineInv, StacksInv
<1>5. TxInv' BY NoTransaction DEF CloseSession
<1>6. FlagsAreRight'
  <2>1. \A i \in Live : Flagged(sessions[i])
    BY FlagsWhenIdle DEF CloseSession, EngineInv
  <2>2. \A i \in Live' : Flagged(sessions'[i])
    BY <1>1, <1>2, <2>1
  <2>. QED BY <2>2 DEF FlagsAreRight, Flagged
<1>. QED BY <1>3, <1>4, <1>5, <1>6 DEF EngineInv

\* The disk once the snapshot of document d is stored.
Enlarged(id, d) ==
    disk \cup (IF Spills(d) THEN FilesOf(id, <<NewSnapshot(d)>>) ELSE {})

LEMMA SnapshotIsTaken ==
    ASSUME EngineInv, NEW id \in Live, NEW gone,
           StoreSnapshot(id, sessions[id].bytes, FilesOf(id, gone))
    PROVE  LET d == sessions[id].bytes
               e == Enlarged(id, d)
               n == nextSnapshotId + 1
           IN  /\ nextSnapshotId' = n /\ n \in Nat /\ nextSnapshotId <= n
               /\ disk' = e \ FilesOf(id, gone)
               /\ NewSnapshot(d) \in Snapshot /\ NewSnapshot(d).doc = d
               /\ Stacks(id, undo[id], redo[id], e, n)
               /\ Joins(id, NewSnapshot(d), undo[id], redo[id], e, n)
               /\ \A f \in disk : f.session # id => f \in disk'
               /\ \A f \in disk' : f \in disk \/ (f \in SnapshotFile /\ f.session = id)
<1>. DEFINE d == sessions[id].bytes
            e == Enlarged(id, d)
            n == nextSnapshotId + 1
            x == NewSnapshot(d)
<1>1. /\ d \in Docs /\ id \in Nat
      /\ Stacks(id, undo[id], redo[id], disk, nextSnapshotId)
  BY TypesOfASession
<1>2. nextSnapshotId \in Nat \ {0} /\ n \in Nat /\ nextSnapshotId <= n
  BY DEF EngineInv, StacksInv
<1>3. nextSnapshotId' = n /\ disk' = e \ FilesOf(id, gone)
  BY DEF StoreSnapshot, Enlarged
<1>4. x.doc = d /\ Joins(id, x, undo[id], redo[id], e, n)
  BY <1>1, <1>2, NewSnapshotJoins DEF Enlarged
<1>5. x \in Snapshot BY <1>4 DEF Joins
<1>6. Stacks(id, undo[id], redo[id], e, n)
  <2>1. \A f \in disk : f.session = id => f \in e BY DEF Enlarged
  <2>. HIDE DEF e, d, n
  <2>. QED BY <1>1, <1>2, <2>1, StacksStay
<1>7. \A f \in e : f \in disk \/ (f \in SnapshotFile /\ f.session = id)
  <2>1. <<x>> \in Seq(Snapshot) BY <1>5
  <2>2. \A f \in FilesOf(id, <<x>>) : f \in SnapshotFile /\ f.session = id
    BY <1>1, <2>1, FilesOfASession
  <2>. QED BY <2>2 DEF Enlarged
<1>8. \A f \in disk : f.session # id => f \in disk'
  <2>1. disk \subseteq e BY DEF Enlarged
  <2>2. \A f \in FilesOf(id, gone) : f.session = id BY DEF FilesOf
  <2>. HIDE DEF e
  <2>. QED BY <1>3, <2>1, <2>2
<1>. HIDE DEF e, d, n, x
<1>. QED BY <1>1, <1>2, <1>3, <1>4, <1>5, <1>6, <1>7, <1>8 DEF e, d, n, x

LEMMA OnlyASnapshotIsTaken ==
    ASSUME EngineInv, NEW id \in Live,
           StoreSnapshot(id, sessions[id].bytes, {})
    PROVE  LET d == sessions[id].bytes
               x == NewSnapshot(d)
           IN  /\ nextSnapshotId' \in Nat /\ nextSnapshotId <= nextSnapshotId'
               /\ x \in Snapshot /\ x.doc = d
               /\ Stacks(id, undo[id], redo[id], disk', nextSnapshotId')
               /\ Joins(id, x, undo[id], redo[id], disk', nextSnapshotId')
               /\ \A f \in disk : f.session # id => f \in disk'
               /\ \A f \in disk' : f \in disk \/ (f \in SnapshotFile /\ f.session = id)
<1>. DEFINE d == sessions[id].bytes
            e == Enlarged(id, d)
            n == nextSnapshotId + 1
            x == NewSnapshot(d)
<1>1. FilesOf(id, <<>>) = {} BY DEF FilesOf, Range
<1>2. StoreSnapshot(id, sessions[id].bytes, FilesOf(id, <<>>)) BY <1>1
<1>3. /\ nextSnapshotId' = n /\ n \in Nat /\ nextSnapshotId <= n
      /\ disk' = e \ FilesOf(id, <<>>)
      /\ x \in Snapshot /\ x.doc = d
      /\ Stacks(id, undo[id], redo[id], e, n)
      /\ Joins(id, x, undo[id], redo[id], e, n)
      /\ \A f \in disk : f.session # id => f \in disk'
      /\ \A f \in disk' : f \in disk \/ (f \in SnapshotFile /\ f.session = id)
  BY <1>2, SnapshotIsTaken
<1>. HIDE DEF d, e, n, x
<1>4. disk' = e BY <1>1, <1>3
<1>. QED BY <1>3, <1>4 DEF d, x

LEMMA BeginTransactionIsSound ==
    ASSUME EngineInv, NEW id \in Live, BeginTransaction(id)
    PROVE  EngineInv'
<1>. DEFINE d == sessions[id].bytes
            x == NewSnapshot(d)
<1>1. /\ tx = Idle /\ tx' = [session |-> id, before |-> x, ops |-> 0]
      /\ StoreSnapshot(id, d, {})
      /\ UNCHANGED <<sessions, nextId, files, undo, redo>>
  BY DEF BeginTransaction
<1>3. /\ nextSnapshotId' \in Nat /\ nextSnapshotId <= nextSnapshotId'
      /\ x \in Snapshot
      /\ Stacks(id, undo[id], redo[id], disk', nextSnapshotId')
      /\ Joins(id, x, undo[id], redo[id], disk', nextSnapshotId')
      /\ \A f \in disk : f.session # id => f \in disk'
      /\ \A f \in disk' : f \in disk \/ (f \in SnapshotFile /\ f.session = id)
  BY <1>1, OnlyASnapshotIsTaken
<1>. HIDE DEF x
<1>4. Live' = Live /\ TypeOK' BY <1>1 DEF Live, EngineInv, TypeOK
<1>5. StacksInv'
  <2>1. undo' = [undo EXCEPT ![id] = undo[id]] /\ redo' = [redo EXCEPT ![id] = redo[id]]
    BY <1>1 DEF EngineInv, StacksInv
  <2>. QED BY <1>3, <1>4, <2>1, StacksReplaced DEF EngineInv
<1>6. TxInv'
  <2>1. tx' \in [session : Nat, before : Snapshot, ops : Nat]
        /\ tx'.session = id /\ tx'.before = x
    BY <1>1, <1>3, TypesOfASession
  <2>. QED BY <1>1, <1>3, <1>4, <2>1 DEF TxInv
<1>7. FlagsAreRight'
  <2>1. \A i \in Live : Flagged(sessions[i])
    BY <1>1, FlagsWhenIdle DEF EngineInv
  <2>. QED BY <1>1, <1>4, <2>1 DEF FlagsAreRight, Flagged
<1>. QED BY <1>4, <1>5, <1>6, <1>7 DEF EngineInv

LEMMA RunningTransaction ==
    ASSUME EngineInv, tx # Idle
    PROVE  /\ EngineTypeOK /\ tx.session \in Live /\ tx.before \in Snapshot
           /\ tx.ops \in Nat
           /\ Joins(tx.session, tx.before, undo[tx.session], redo[tx.session],
                    disk, nextSnapshotId)
BY DEF EngineInv, EngineTypeOK, StacksInv, TxInv

LEMMA OperationKeepsInv ==
    ASSUME EngineInv, tx # Idle, Operation
    PROVE  EngineInv'
<1>. DEFINE id == tx.session
<1>1. id \in Live /\ tx.ops \in Nat BY RunningTransaction
<1>2. /\ \E t \in Session : Update(id, t)
      /\ tx' = [tx EXCEPT !.ops = @ + 1]
      /\ UNCHANGED <<nextId, files, undo, redo, disk, nextSnapshotId>>
  BY RunningTransaction, OperationIsSound
<1>3. PICK t \in Session : Update(id, t) BY <1>2
<1>4. /\ TypeOK' /\ Live' = Live
      /\ \A i \in Live : sessions'[i] = IF i = id THEN t ELSE sessions[i]
  <2>1. files' \in [Paths -> Docs \cup {NoDoc}]
    BY <1>2 DEF EngineInv, TypeOK
  <2>. QED BY <1>1, <1>2, <1>3, <2>1, SessionReplaced DEF EngineInv
<1>5. StacksInv' BY <1>2, <1>4 DEF EngineInv, StacksInv
<1>6. /\ tx' \in [session : Nat, before : Snapshot, ops : Nat]
      /\ tx'.session = id /\ tx'.before = tx.before /\ tx'.ops = tx.ops + 1
  BY <1>2 DEF EngineInv, TxInv
<1>7. TxInv'
  BY <1>1, <1>2, <1>4, <1>6, RunningTransaction DEF TxInv
<1>8. FlagsAreRight'
  <2>1. tx'.ops > 0 BY <1>1, <1>6
  <2>2. tx' # Idle BY <2>1 DEF Idle
  <2>3. \A i \in Live \ {id} : tx.session # i OBVIOUS
  <2>. QED BY <1>1, <1>4, <1>6, <2>1, <2>2, <2>3, FlagsStayRight DEF EngineInv
<1>. QED BY <1>4, <1>5, <1>7, <1>8 DEF EngineInv

\* Only files of this session are deleted.
LEMMA OthersKeepTheirFiles ==
    ASSUME NEW id, NEW gone, disk' = disk \ FilesOf(id, gone)
    PROVE  /\ \A f \in disk : f.session # id => f \in disk'
           /\ \A f \in disk' : f \in disk
BY DEF FilesOf

LEMMA CommitIsSound ==
    ASSUME EngineInv, CommitTransaction
    PROVE  EngineInv'
<1>. DEFINE id == tx.session
            p == Append(undo[id], tx.before)
            gone == redo[id] \o Pruned(p, <<>>)
            t == MarkDirty(sessions[id])
<1>1. /\ tx # Idle /\ tx' = Idle /\ Update(id, t)
      /\ undo' = [undo EXCEPT ![id] = Kept(p, <<>>)]
      /\ redo' = [redo EXCEPT ![id] = <<>>]
      /\ disk' = disk \ FilesOf(id, gone)
      /\ UNCHANGED <<nextId, files, nextSnapshotId>>
  BY DEF CommitTransaction
<1>2. /\ id \in Live
      /\ Joins(id, tx.before, undo[id], redo[id], disk, nextSnapshotId)
  BY <1>1, RunningTransaction
<1>3. /\ sessions[id] \in Session
      /\ Stacks(id, undo[id], redo[id], disk, nextSnapshotId)
  BY <1>2, TypesOfASession
<1>4. nextSnapshotId \in Nat /\ nextSnapshotId <= nextSnapshotId
  BY DEF EngineInv, StacksInv
<1>5. t \in Session /\ Flagged(t) BY <1>3, MarkDirtyFields
<1>6. Stacks(id, Kept(p, <<>>), <<>>, disk', nextSnapshotId')
  BY <1>1, <1>2, <1>3, <1>4, StacksOfPruning
<1>. HIDE DEF t, p, gone
<1>7. /\ TypeOK' /\ Live' = Live
      /\ \A i \in Live : sessions'[i] = IF i = id THEN t ELSE sessions[i]
  <2>1. files' \in [Paths -> Docs \cup {NoDoc}]
    BY <1>1 DEF EngineInv, TypeOK
  <2>. QED BY <1>1, <1>2, <1>5, <2>1, SessionReplaced DEF EngineInv
<1>8. StacksInv'
  BY <1>1, <1>2, <1>4, <1>6, <1>7, OthersKeepTheirFiles, StacksReplaced DEF EngineInv
<1>9. TxInv' BY <1>1, NoTransaction
<1>10. FlagsAreRight'
  BY <1>2, <1>5, <1>7, FlagsStayRight DEF EngineInv
<1>. QED BY <1>7, <1>8, <1>9, <1>10 DEF EngineInv

LEMMA FailIsSound ==
    ASSUME EngineInv, FailTransaction
    PROVE  EngineInv'
<1>. DEFINE id == tx.session
            debts == IF tx.ops = 0 THEN {} ELSE {"dirty"}
            t == Owing(sessions[id], debts)
            b == <<tx.before>>
<1>1. /\ tx # Idle /\ tx' = Idle /\ Update(id, t)
      /\ disk' = disk \ FilesOf(id, b)
      /\ UNCHANGED <<nextId, files, undo, redo, nextSnapshotId>>
  BY DEF FailTransaction
<1>2. /\ id \in Live /\ tx.ops \in Nat
      /\ Joins(id, tx.before, undo[id], redo[id], disk, nextSnapshotId)
  BY <1>1, RunningTransaction
<1>3. /\ sessions[id] \in Session
      /\ Stacks(id, undo[id], redo[id], disk, nextSnapshotId)
  BY <1>2, TypesOfASession
<1>4. nextSnapshotId \in Nat /\ nextSnapshotId <= nextSnapshotId
  BY DEF EngineInv, StacksInv
<1>5. t \in Session /\ Flagged(t)
  <2>1. debts \in SUBSET Debts BY DEF Debts
  <2>2. "dirty" \in debts \/ Flagged(sessions[id])
    BY <1>2 DEF EngineInv, FlagsAreRight
  <2>. QED BY <1>3, <2>1, <2>2, OwingFields
<1>6. Stacks(id, undo[id], redo[id], disk', nextSnapshotId')
  <2>1. Apart(undo[id], b) /\ Apart(redo[id], b)
    BY <1>2, ApartIsSymmetric DEF Joins
  <2>2. AllStored(id, Range(undo[id]), disk) /\ AllStored(id, Range(redo[id]), disk)
    BY <1>3 DEF Stacks, AllStored
  <2>. HIDE DEF b
  <2>3. AllStored(id, Range(undo[id]), disk') /\ AllStored(id, Range(redo[id]), disk')
    BY <1>1, <2>1, <2>2, DeletingKeepsOthers
  <2>. QED BY <1>1, <1>3, <2>3 DEF Stacks, AllStored
<1>. HIDE DEF t, b
<1>7. /\ TypeOK' /\ Live' = Live
      /\ \A i \in Live : sessions'[i] = IF i = id THEN t ELSE sessions[i]
  <2>1. files' \in [Paths -> Docs \cup {NoDoc}]
    BY <1>1 DEF EngineInv, TypeOK
  <2>. QED BY <1>1, <1>2, <1>5, <2>1, SessionReplaced DEF EngineInv
<1>8. StacksInv'
  <2>1. undo' = [undo EXCEPT ![id] = undo[id]] /\ redo' = [redo EXCEPT ![id] = redo[id]]
    BY <1>1 DEF EngineInv, StacksInv
  <2>2. /\ \A f \in disk : f.session # id => f \in disk'
        /\ \A f \in disk' : f \in disk
    BY <1>1, OthersKeepTheirFiles
  <2>. QED BY <1>1, <1>2, <1>4, <1>6, <1>7, <2>1, <2>2, StacksReplaced DEF EngineInv
<1>9. TxInv' BY <1>1, NoTransaction
<1>10. FlagsAreRight'
  BY <1>2, <1>5, <1>7, FlagsStayRight DEF EngineInv
<1>. QED BY <1>7, <1>8, <1>9, <1>10 DEF EngineInv

LEMMA RestoredFields ==
    ASSUME NEW s \in Session, NEW d \in Docs
    PROVE  /\ Restored(s, d) \in Session /\ Flagged(Restored(s, d))
           /\ Restored(s, d).bytes = d
BY WriteFields, MarkDirtyFields, InvalidateFields DEF Restored

\* What undo and redo have in common: the session gets the restored bytes.
LEMMA RestoringIsSound ==
    ASSUME EngineInv, NEW id \in Live, NEW d \in Docs,
           Update(id, Restored(sessions[id], d)), tx = Idle,
           UNCHANGED <<nextId, files, tx>>
    PROVE  TypeOK' /\ Live' = Live /\ TxInv' /\ FlagsAreRight'
<1>. DEFINE t == Restored(sessions[id], d)
<1>1. sessions[id] \in Session BY TypesOfASession
<1>2. t \in Session /\ Flagged(t) BY <1>1, RestoredFields
<1>3. files' \in [Paths -> Docs \cup {NoDoc}] BY DEF EngineInv, TypeOK
<1>. HIDE DEF t
<1>4. /\ TypeOK' /\ Live' = Live
      /\ \A i \in Live : sessions'[i] = IF i = id THEN t ELSE sessions[i]
  BY <1>2, <1>3, SessionReplaced DEF EngineInv, t
<1>5. FlagsAreRight' BY <1>2, <1>4, FlagsStayRight DEF EngineInv
<1>. QED BY <1>4, <1>5, NoTransaction

\* Redo whose snapshot for undo cannot be stored just loses its entry.
LEMMA StacksOfLostRedo ==
    ASSUME NEW id, NEW u, NEW r, NEW d, NEW n, Stacks(id, u, r, d, n), r # <<>>
    PROVE  Stacks(id, u, Front(r), d, n)
<1>1. u \in Seq(Snapshot) /\ r \in Seq(Snapshot) /\ Len(r) \in Nat \ {0}
  BY DEF Stacks
<1>2. 1 \in 1 .. Len(r) + 1 /\ Len(r) - 1 \in 0 .. Len(r) BY <1>1
<1>3. /\ Front(r) \in Seq(Snapshot) /\ Numbered(Front(r), n)
      /\ Range(Front(r)) \subseteq Range(r) /\ Apart(u, Front(r))
  BY <1>1, <1>2, PartOfAStack DEF Front, Stacks
<1>. QED BY <1>3 DEF Stacks, AllStored

LEMMA LastOfAStack ==
    ASSUME NEW s \in Seq(Snapshot), s # <<>>
    PROVE  Last(s) \in Snapshot /\ Last(s).doc \in Docs /\ Last(s) \in Range(s)
<1>1. Len(s) \in DOMAIN s OBVIOUS
<1>2. s[Len(s)] \in Snapshot BY <1>1
<1>. QED BY <1>1, <1>2 DEF Last, Range, Snapshot

LEMMA UndoIsSound ==
    ASSUME EngineInv, NEW id \in Live, Undo(id)
    PROVE  EngineInv'
<1>. DEFINE s == sessions[id]
            e == Last(undo[id])
            x == NewSnapshot(s.bytes)
            f == Front(undo[id])
<1>1. /\ tx = Idle /\ undo[id] # <<>>
      /\ Update(id, Restored(s, e.doc))
      /\ undo' = [undo EXCEPT ![id] = f]
      /\ \/ /\ redo' = [redo EXCEPT ![id] = Append(redo[id], x)]
            /\ StoreSnapshot(id, s.bytes, {})
         \/ UNCHANGED <<redo, disk, nextSnapshotId>>
      /\ UNCHANGED <<nextId, files, tx>>
  BY DEF Undo
<1>2. Stacks(id, undo[id], redo[id], disk, nextSnapshotId)
  BY TypesOfASession
<1>3. e.doc \in Docs BY <1>1, <1>2, LastOfAStack DEF Stacks
<1>4. TypeOK' /\ Live' = Live /\ TxInv' /\ FlagsAreRight'
  BY <1>1, <1>3, RestoringIsSound
<1>5. nextSnapshotId \in Nat /\ nextSnapshotId <= nextSnapshotId
  BY DEF EngineInv, StacksInv
<1>. HIDE DEF s, e, f
<1>6. ASSUME redo' = [redo EXCEPT ![id] = Append(redo[id], x)],
             StoreSnapshot(id, s.bytes, {})
      PROVE  StacksInv'
  <2>2. /\ nextSnapshotId' \in Nat /\ nextSnapshotId <= nextSnapshotId'
        /\ Stacks(id, undo[id], redo[id], disk', nextSnapshotId')
        /\ Joins(id, x, undo[id], redo[id], disk', nextSnapshotId')
        /\ \A g \in disk : g.session # id => g \in disk'
        /\ \A g \in disk' : g \in disk \/ (g \in SnapshotFile /\ g.session = id)
    BY <1>6, OnlyASnapshotIsTaken DEF s
  <2>. HIDE DEF x
  <2>3. Stacks(id, f, Append(redo[id], x), disk', nextSnapshotId')
    BY <1>1, <2>2, StacksOfUndo DEF f
  <2>. QED BY <1>1, <1>4, <1>6, <2>2, <2>3, StacksReplaced DEF EngineInv
<1>7. ASSUME UNCHANGED <<redo, disk, nextSnapshotId>> PROVE StacksInv'
  <2>1. redo' = [redo EXCEPT ![id] = redo[id]]
    BY <1>7 DEF EngineInv, StacksInv
  <2>2. Stacks(id, f, redo[id], disk', nextSnapshotId')
    BY <1>1, <1>2, <1>5, <1>7, StacksOfUndo DEF f
  <2>. QED BY <1>1, <1>4, <1>5, <1>7, <2>1, <2>2, StacksReplaced DEF EngineInv
<1>. QED BY <1>1, <1>4, <1>6, <1>7 DEF EngineInv

\* Redo puts a snapshot on undo, takes one off redo, and prunes undo.
LEMMA StacksOfRedo ==
    ASSUME NEW id, NEW u, NEW r, NEW d, NEW n \in Nat, NEW x,
           Stacks(id, u, r, d, n), Joins(id, x, u, r, d, n),
           NEW gone, gone = Pruned(Append(u, x), Front(r))
    PROVE  Stacks(id, Kept(Append(u, x), Front(r)), Front(r), d \ FilesOf(id, gone), n)
<1>1. Front(r) \in {<<>>, r, Front(r)} OBVIOUS
<1>. QED BY <1>1, StacksOfPruning

LEMMA RedoIsSound ==
    ASSUME EngineInv, NEW id \in Live, Redo(id)
    PROVE  EngineInv'
<1>. DEFINE s == sessions[id]
            e == Last(redo[id])
            x == NewSnapshot(s.bytes)
            u == Append(undo[id], x)
            r == Front(redo[id])
            larger == Enlarged(id, s.bytes)
            gone == Pruned(u, r)
<1>1. /\ tx = Idle /\ redo[id] # <<>>
      /\ Update(id, Restored(s, e.doc))
      /\ redo' = [redo EXCEPT ![id] = r]
      /\ \/ /\ undo' = [undo EXCEPT ![id] = Kept(u, r)]
            /\ StoreSnapshot(id, s.bytes, FilesOf(id, gone))
         \/ UNCHANGED <<undo, disk, nextSnapshotId>>
      /\ UNCHANGED <<nextId, files, tx>>
  BY DEF Redo
<1>2. Stacks(id, undo[id], redo[id], disk, nextSnapshotId)
  BY TypesOfASession
<1>3. e.doc \in Docs BY <1>1, <1>2, LastOfAStack DEF Stacks
<1>4. TypeOK' /\ Live' = Live /\ TxInv' /\ FlagsAreRight'
  BY <1>1, <1>3, RestoringIsSound
<1>5. nextSnapshotId \in Nat /\ nextSnapshotId <= nextSnapshotId
  BY DEF EngineInv, StacksInv
<1>. HIDE DEF s, e, r
<1>6. ASSUME undo' = [undo EXCEPT ![id] = Kept(u, r)],
             StoreSnapshot(id, s.bytes, FilesOf(id, gone))
      PROVE  StacksInv'
  <2>. HIDE DEF gone
  <2>1. /\ nextSnapshotId' \in Nat /\ nextSnapshotId <= nextSnapshotId'
        /\ disk' = larger \ FilesOf(id, gone)
        /\ Stacks(id, undo[id], redo[id], larger, nextSnapshotId')
        /\ Joins(id, x, undo[id], redo[id], larger, nextSnapshotId')
        /\ \A g \in disk : g.session # id => g \in disk'
        /\ \A g \in disk' : g \in disk \/ (g \in SnapshotFile /\ g.session = id)
    BY <1>6, SnapshotIsTaken DEF s
  <2>. HIDE DEF larger, x
  <2>2. Stacks(id, Kept(u, r), r, disk', nextSnapshotId')
    <3>1. /\ gone = Pruned(Append(undo[id], x), Front(redo[id]))
          /\ r = Front(redo[id]) /\ u = Append(undo[id], x)
      BY DEF gone, r
    <3>. HIDE DEF u, r, gone
    <3>2. Stacks(id, Kept(Append(undo[id], x), Front(redo[id])), Front(redo[id]),
                 larger \ FilesOf(id, gone), nextSnapshotId')
      BY <2>1, <3>1, StacksOfRedo
    <3>. QED BY <2>1, <3>1, <3>2
  <2>. HIDE DEF u
  <2>. QED BY <1>1, <1>4, <1>6, <2>1, <2>2, StacksReplaced DEF EngineInv
<1>7. ASSUME UNCHANGED <<undo, disk, nextSnapshotId>> PROVE StacksInv'
  <2>1. undo' = [undo EXCEPT ![id] = undo[id]]
    BY <1>7 DEF EngineInv, StacksInv
  <2>2. Stacks(id, undo[id], r, disk', nextSnapshotId')
    BY <1>1, <1>2, <1>7, StacksOfLostRedo DEF r
  <2>. QED BY <1>1, <1>4, <1>5, <1>7, <2>1, <2>2, StacksReplaced DEF EngineInv
<1>. QED BY <1>1, <1>4, <1>6, <1>7 DEF EngineInv

\* With other instances about, nothing is claimed of the files.
LEMMA OtherInstanceIsSound ==
    ASSUME EngineInv, OtherInstanceStarts
    PROVE  EngineInv'
<1>1. /\ OtherInstances /\ disk' = {}
      /\ UNCHANGED <<sessions, nextId, files, undo, redo, nextSnapshotId, tx>>
  BY DEF OtherInstanceStarts
<1>2. Live' = Live /\ TypeOK' BY <1>1 DEF EngineInv, TypeOK, Live
<1>3. StacksInv' BY <1>1, <1>2 DEF EngineInv, StacksInv, Stacks, AllStored
<1>4. TxInv' BY <1>1, <1>2 DEF EngineInv, TxInv, Joins, AllStored
<1>5. FlagsAreRight' BY <1>1, <1>2 DEF EngineInv, FlagsAreRight
<1>. QED BY <1>2, <1>3, <1>4, <1>5 DEF EngineInv

-----------------------------------------------------------------------------
(* The theorems.                                                           *)

\* Whatever commands run in whatever order, the engine's invariant holds.
THEOREM EngineIsSound == EngineSpec => []EngineInv
<1>1. EngineInit => EngineInv BY EngineInitIsSound
<1>2. EngineInv /\ [EngineNext]_allVars => EngineInv'
  <2>. SUFFICES ASSUME EngineInv, [EngineNext]_allVars
                PROVE  EngineInv'
    OBVIOUS
  <2>1. CASE UNCHANGED allVars BY <2>1, StutterIsSound
  <2>2. CASE EngineNext
    BY <2>2, OpenSessionIsSound, CloseSessionIsSound, SessionCommandIsSound,
       BeginTransactionIsSound, OperationKeepsInv, CommitIsSound, FailIsSound,
       UndoIsSound, RedoIsSound, OtherInstanceIsSound DEF EngineNext
  <2>. QED BY <2>1, <2>2
<1>. QED BY <1>1, <1>2, PTL DEF EngineSpec

\* The stacks, the snapshot files and the transaction keep their types.
THEOREM EngineIsWellTyped == EngineSpec => []EngineTypeOK
<1>1. EngineInv => EngineTypeOK
  BY DEF EngineInv, EngineTypeOK, StacksInv, TxInv
<1>. QED BY <1>1, EngineIsSound, PTL

\* No two entries of a session share a file, and no later one will.
THEOREM FilesStayUnique == EngineSpec => []FilesAreUnique
<1>1. EngineInv => FilesAreUnique
  <2>. SUFFICES ASSUME EngineInv PROVE FilesAreUnique OBVIOUS
  <2>1. \A id \in Live : /\ Numbered(undo[id], nextSnapshotId)
                         /\ Numbered(redo[id], nextSnapshotId)
                         /\ Apart(undo[id], redo[id])
    BY DEF EngineInv, StacksInv, Stacks
  <2>2. ASSUME tx # Idle
        PROVE  /\ tx.session \in Live
               /\ Numbered(<<tx.before>>, nextSnapshotId)
               /\ Apart(<<tx.before>>, undo[tx.session])
               /\ Apart(<<tx.before>>, redo[tx.session])
    <3>1. /\ tx.session \in Live
          /\ Joins(tx.session, tx.before, undo[tx.session], redo[tx.session],
                   disk, nextSnapshotId)
      BY <2>2, RunningTransaction
    <3>2. Numbered(<<tx.before>>, nextSnapshotId)
      BY <3>1 DEF Numbered, Joins
    <3>. QED BY <3>1, <3>2 DEF Joins
  <2>. QED BY <2>1, <2>2 DEF FilesAreUnique
<1>. QED BY <1>1, EngineIsSound, PTL

\* What is on a stack, or will go there, can be restored as long as the
\* program is not started a second time: prune_to_budget, the clearing of
\* the redo stack and a failed transaction delete no file that is needed.
THEOREM SnapshotsStayReadable == EngineSpec => []SnapshotsReadable
<1>1. EngineInv => SnapshotsReadable
  <2>. SUFFICES ASSUME EngineInv, ~OtherInstances
                PROVE  /\ \A id \in Live : \A e \in Range(undo[id]) \cup Range(redo[id]) :
                              Restorable(id, e)
                       /\ tx # Idle => Restorable(tx.session, tx.before)
    BY DEF SnapshotsReadable
  <2>1. ASSUME NEW id \in Live, NEW e \in Range(undo[id]) \cup Range(redo[id])
        PROVE  Restorable(id, e)
    <3>1. Stored(id, e, disk)
      BY <2>1 DEF EngineInv, StacksInv, Stacks, AllStored
    <3>. QED BY <3>1, RestorableMeansStored
  <2>2. ASSUME tx # Idle PROVE Restorable(tx.session, tx.before)
    <3>1. Stored(tx.session, tx.before, disk)
      BY <2>2, RunningTransaction DEF Joins, AllStored
    <3>. QED BY <3>1, RestorableMeansStored
  <2>. QED BY <2>1, <2>2
<1>. QED BY <1>1, EngineIsSound, PTL

\* Snapshot files end with their session, and no undo stack gets deeper than
\* the budget allows.
THEOREM SnapshotsEndWithSession == EngineSpec => []NothingOutlivesItsSession
<1>1. EngineInv => NothingOutlivesItsSession
  BY DEF EngineInv, StacksInv, Stacks, NothingOutlivesItsSession
<1>. QED BY <1>1, EngineIsSound, PTL

\* Between transactions a session that is not dirty holds what it last read
\* or saved, undo and redo included, unless a command wrote without the flag.
THEOREM FlagStaysRight == EngineSpec => []FlagIsRight
<1>1. EngineInv => FlagIsRight
  BY DEF EngineInv, FlagsAreRight, Flagged, FlagIsRight, CleanMeansSaved
<1>. QED BY <1>1, EngineIsSound, PTL

-----------------------------------------------------------------------------
(* A stack as a line of versions.                                          *)

LEMMA VersionsOfAStack ==
    ASSUME NEW s \in Seq(Snapshot)
    PROVE  /\ VersionsOf(s) \in Seq(Docs)
           /\ Len(VersionsOf(s)) = Len(s)
           /\ \A k \in 1 .. Len(s) : VersionsOf(s)[k] = s[k].doc
<1>1. \A k \in 1 .. Len(s) : s[k] \in Snapshot OBVIOUS
<1>2. \A k \in 1 .. Len(s) : s[k].doc \in Docs BY <1>1 DEF Snapshot
<1>3. VersionsOf(s) = [k \in 1 .. Len(s) |-> s[k].doc] BY DEF VersionsOf
<1>4. Len(s) \in Nat OBVIOUS
<1>. QED BY <1>2, <1>3, <1>4

LEMMA VersionsOfAppend ==
    ASSUME NEW s \in Seq(Snapshot), NEW e \in Snapshot
    PROVE  VersionsOf(Append(s, e)) = Append(VersionsOf(s), e.doc)
<1>. DEFINE p == Append(s, e)
            v == Append(VersionsOf(s), e.doc)
<1>1. e.doc \in Docs BY DEF Snapshot
<1>2. /\ p \in Seq(Snapshot) /\ Len(p) = Len(s) + 1 /\ Len(s) \in Nat
      /\ \A k \in 1 .. Len(s) : p[k] = s[k]
      /\ p[Len(s) + 1] = e
  OBVIOUS
<1>3. /\ v \in Seq(Docs) /\ Len(v) = Len(s) + 1
      /\ \A k \in 1 .. Len(s) : v[k] = s[k].doc
      /\ v[Len(s) + 1] = e.doc
  BY <1>1, VersionsOfAStack
<1>. HIDE DEF p, v
<1>4. /\ VersionsOf(p) \in Seq(Docs) /\ Len(VersionsOf(p)) = Len(p)
      /\ \A k \in 1 .. Len(p) : VersionsOf(p)[k] = p[k].doc
  BY <1>2, VersionsOfAStack
<1>5. \A k \in 1 .. Len(v) : VersionsOf(p)[k] = v[k]
  BY <1>2, <1>3, <1>4
<1>6. VersionsOf(p) = v BY <1>2, <1>3, <1>4, <1>5, SeqEqual
<1>. QED BY <1>6 DEF p, v

LEMMA VersionsOfAPart ==
    ASSUME NEW s \in Seq(Snapshot), NEW a \in 1 .. Len(s) + 1, NEW b \in 0 .. Len(s)
    PROVE  VersionsOf(SubSeq(s, a, b)) = SubSeq(VersionsOf(s), a, b)
<1>. DEFINE p == SubSeq(s, a, b)
            w == VersionsOf(s)
            v == SubSeq(w, a, b)
<1>1. Len(s) \in Nat OBVIOUS
<1>2. /\ p \in Seq(Snapshot) /\ Len(p) = IF a <= b THEN b - a + 1 ELSE 0
      /\ \A k \in 1 .. Len(p) : p[k] = s[a + k - 1] /\ a + k - 1 \in 1 .. Len(s)
  BY <1>1
<1>3. /\ w \in Seq(Docs) /\ Len(w) = Len(s)
      /\ \A k \in 1 .. Len(s) : w[k] = s[k].doc
  BY VersionsOfAStack
<1>4. /\ v \in Seq(Docs) /\ Len(v) = IF a <= b THEN b - a + 1 ELSE 0
      /\ \A k \in 1 .. Len(v) : v[k] = w[a + k - 1]
  <2>. HIDE DEF w
  <2>. QED BY <1>1, <1>3
<1>. HIDE DEF p, v, w
<1>5. /\ VersionsOf(p) \in Seq(Docs) /\ Len(VersionsOf(p)) = Len(p)
      /\ \A k \in 1 .. Len(p) : VersionsOf(p)[k] = p[k].doc
  BY <1>2, VersionsOfAStack
<1>6. \A k \in 1 .. Len(v) : VersionsOf(p)[k] = v[k]
  BY <1>2, <1>3, <1>4, <1>5
<1>7. VersionsOf(p) = v BY <1>2, <1>4, <1>5, <1>6, SeqEqual
<1>. QED BY <1>7 DEF p, v, w

LEMMA ReversedSequence ==
    ASSUME NEW S, NEW s \in Seq(S)
    PROVE  /\ Reverse(s) \in Seq(S) /\ Len(Reverse(s)) = Len(s)
           /\ \A k \in 1 .. Len(s) : Reverse(s)[k] = s[Len(s) - k + 1]
<1>1. Len(s) \in Nat OBVIOUS
<1>2. \A k \in 1 .. Len(s) : Len(s) - k + 1 \in 1 .. Len(s) BY <1>1
<1>. QED BY <1>1, <1>2 DEF Reverse

LEMMA ReverseOfAppend ==
    ASSUME NEW S, NEW s \in Seq(S), NEW e \in S
    PROVE  Reverse(Append(s, e)) = <<e>> \o Reverse(s)
<1>. DEFINE p == Append(s, e)
            r == Reverse(s)
            v == <<e>> \o r
<1>1. /\ p \in Seq(S) /\ Len(p) = Len(s) + 1 /\ Len(s) \in Nat
      /\ \A k \in 1 .. Len(s) : p[k] = s[k]
      /\ p[Len(s) + 1] = e
  OBVIOUS
<1>2. /\ r \in Seq(S) /\ Len(r) = Len(s)
      /\ \A k \in 1 .. Len(s) : r[k] = s[Len(s) - k + 1]
  BY ReversedSequence
<1>. HIDE DEF p, r
<1>3. /\ v \in Seq(S) /\ Len(v) = Len(s) + 1 /\ v[1] = e
      /\ \A k \in 2 .. Len(s) + 1 : v[k] = r[k - 1]
  BY <1>1, <1>2
<1>4. /\ Reverse(p) \in Seq(S) /\ Len(Reverse(p)) = Len(p)
      /\ \A k \in 1 .. Len(p) : Reverse(p)[k] = p[Len(p) - k + 1]
  BY <1>1, ReversedSequence
<1>. HIDE DEF v
<1>5. \A k \in 1 .. Len(v) : Reverse(p)[k] = v[k]
  <2>. SUFFICES ASSUME NEW k \in 1 .. Len(s) + 1 PROVE Reverse(p)[k] = v[k]
    BY <1>3
  <2>1. CASE k = 1
    BY <2>1, <1>1, <1>3, <1>4
  <2>2. CASE k \in 2 .. Len(s) + 1
    <3>1. k - 1 \in 1 .. Len(s) /\ Len(s) + 1 - k + 1 = Len(s) - (k - 1) + 1
          /\ Len(s) - (k - 1) + 1 \in 1 .. Len(s)
      BY <2>2, <1>1
    <3>2. Reverse(p)[k] = p[Len(s) + 1 - k + 1] BY <1>1, <1>4
    <3>3. p[Len(s) + 1 - k + 1] = s[Len(s) - (k - 1) + 1] BY <1>1, <3>1
    <3>4. r[k - 1] = s[Len(s) - (k - 1) + 1] BY <1>2, <3>1
    <3>5. v[k] = r[k - 1] BY <1>3, <2>2
    <3>. QED BY <3>2, <3>3, <3>4, <3>5
  <2>. QED BY <2>1, <2>2, <1>1
<1>6. Reverse(p) = v BY <1>1, <1>3, <1>4, <1>5, SeqEqual
<1>. QED BY <1>6 DEF p, r, v

LEMMA ReverseBeginsWithLast ==
    ASSUME NEW S, NEW s \in Seq(S), s # <<>>
    PROVE  /\ Reverse(s) # <<>> /\ Head(Reverse(s)) = s[Len(s)]
           /\ Tail(Reverse(s)) = Reverse(SubSeq(s, 1, Len(s) - 1))
<1>. DEFINE l == Len(s) - 1
            f == SubSeq(s, 1, l)
<1>1. Len(s) \in Nat \ {0} /\ l \in Nat OBVIOUS
<1>2. f \in Seq(S) /\ Len(f) = l /\ \A k \in 1 .. l : f[k] = s[k]
  <2>. HIDE DEF l
  <2>1. l <= Len(s) BY <1>1 DEF l
  <2>. QED BY <1>1, <2>1
<1>3. s[Len(s)] \in S BY <1>1
<1>4. s = Append(f, s[Len(s)])
  <2>. DEFINE p == Append(f, s[Len(s)])
  <2>. HIDE DEF f
  <2>1. /\ p \in Seq(S) /\ Len(p) = Len(s) /\ p[Len(s)] = s[Len(s)]
        /\ \A k \in 1 .. l : p[k] = s[k]
    BY <1>1, <1>2, <1>3
  <2>. HIDE DEF p
  <2>2. \A k \in 1 .. Len(s) : s[k] = p[k]
    BY <1>1, <2>1
  <2>3. s = p BY <2>1, <2>2, SeqEqual
  <2>. QED BY <2>3 DEF p
<1>. HIDE DEF f, l
<1>5. Reverse(s) = <<s[Len(s)]>> \o Reverse(f)
  BY <1>2, <1>3, <1>4, ReverseOfAppend
<1>6. Reverse(f) \in Seq(S) BY <1>2, ReversedSequence
<1>7. /\ <<s[Len(s)]>> \o Reverse(f) # <<>>
      /\ Head(<<s[Len(s)]>> \o Reverse(f)) = s[Len(s)]
      /\ Tail(<<s[Len(s)]>> \o Reverse(f)) = Reverse(f)
  BY <1>3, <1>6, HeadTailProperties, ConcatProperties
<1>. QED BY <1>5, <1>7 DEF f, l

-----------------------------------------------------------------------------
(* Steps of the line.                                                      *)

LEMMA PresentIsAVersion ==
    ASSUME EngineInv'
    PROVE  Present' \in Docs \cup {NoDoc}
<1>1. CASE Watched \in Live'
  <2>1. sessions'[Watched].bytes \in Docs
    BY <1>1 DEF EngineInv, TypeOK, Live, Session
  <2>2. tx'.before.doc \in Docs
    BY DEF EngineInv, TxInv, Snapshot
  <2>. QED BY <2>1, <2>2, <1>1 DEF Present
<1>2. CASE Watched \notin Live'
  BY <1>2 DEF Present
<1>. QED BY <1>1, <1>2

\* What leaves the stacks of the document alone happens outside the history.
LEMMA OutsideStep ==
    ASSUME EngineInv', Watched \in Live' <=> Watched \in Live,
           Watched \in Live => undo'[Watched] = undo[Watched]
                               /\ redo'[Watched] = redo[Watched]
    PROVE  History!Next
<1>1. Past' = Past BY DEF Past
<1>2. Future' = Future BY DEF Future
<1>3. History!Outside BY <1>1, <1>2, PresentIsAVersion DEF History!Outside
<1>. QED BY <1>3 DEF History!Next

LEMMA ResetStep ==
    ASSUME EngineInv',
           Watched \in Live' => undo'[Watched] = <<>> /\ redo'[Watched] = <<>>
    PROVE  History!Next
<1>1. VersionsOf(<<>>) = <<>> /\ Reverse(<<>>) = <<>>
  BY DEF VersionsOf, Reverse
<1>2. Past' = <<>> /\ Future' = <<>> BY <1>1 DEF Past, Future
<1>3. History!Reset BY <1>2, PresentIsAVersion DEF History!Reset
<1>. QED BY <1>3 DEF History!Next

LEMMA WatchedWhenIdle ==
    ASSUME Watched \in Live, tx = Idle
    PROVE  /\ Past = VersionsOf(undo[Watched])
           /\ Present = sessions[Watched].bytes
           /\ Future = Reverse(VersionsOf(redo[Watched]))
<1>1. tx.session # Watched BY IdleIsTyped, BudgetAssumption
<1>. QED BY <1>1 DEF Past, Present, Future

\* Pruning forgets the oldest versions.
LEMMA KeptIsASuffix ==
    ASSUME NEW u \in Seq(Snapshot), NEW x \in Snapshot, NEW r
    PROVE  VersionsOf(Kept(Append(u, x), r))
              \in History!Suffixes(Append(VersionsOf(u), x.doc))
<1>. DEFINE p == Append(u, x)
            w == VersionsOf(p)
<1>1. p \in Seq(Snapshot) /\ Len(p) \in Nat OBVIOUS
<1>. HIDE DEF p
<1>2. PICK k \in 1 .. Len(p) + 1 : Kept(p, r) = SubSeq(p, k, Len(p))
  BY <1>1, KeptIsARest
<1>3. Len(w) = Len(p) BY <1>1, VersionsOfAStack
<1>4. VersionsOf(Kept(p, r)) = SubSeq(w, k, Len(w))
  <2>1. Len(p) \in 0 .. Len(p) BY <1>1
  <2>. QED BY <1>1, <1>2, <1>3, <2>1, VersionsOfAPart
<1>5. w = Append(VersionsOf(u), x.doc) BY VersionsOfAppend DEF p
<1>. HIDE DEF w
<1>6. VersionsOf(Kept(p, r)) \in History!Suffixes(w)
  BY <1>3, <1>4 DEF History!Suffixes
<1>. QED BY <1>5, <1>6 DEF p

LEMMA CommitStep ==
    ASSUME EngineInv, EngineInv', CommitTransaction, tx.session = Watched
    PROVE  History!Next
<1>. DEFINE u == undo[Watched]
<1>1. /\ tx # Idle /\ tx' = Idle
      /\ undo' = [undo EXCEPT ![Watched] = Kept(Append(u, tx.before), <<>>)]
      /\ redo' = [redo EXCEPT ![Watched] = <<>>]
  BY DEF CommitTransaction
<1>2. Watched \in Live /\ tx.before \in Snapshot BY <1>1, RunningTransaction
<1>3. Watched \in Live' BY <1>2 DEF CommitTransaction, Update, Live
<1>4. u \in Seq(Snapshot) BY <1>2 DEF EngineInv, StacksInv
<1>5. /\ undo'[Watched] = Kept(Append(u, tx.before), <<>>)
      /\ redo'[Watched] = <<>>
  BY <1>1, <1>2 DEF EngineInv, StacksInv
<1>6. Past = VersionsOf(u) /\ Present = tx.before.doc
  BY <1>2 DEF Past, Present
<1>7. Past' = VersionsOf(undo'[Watched]) BY <1>3 DEF Past
<1>8. Past' \in History!Suffixes(Append(Past, Present))
  BY <1>2, <1>4, <1>5, <1>6, <1>7, KeptIsASuffix
<1>9. Future' = <<>>
  <2>1. Future' = Reverse(VersionsOf(redo'[Watched])) BY <1>3 DEF Future
  <2>. QED BY <1>5, <2>1 DEF Reverse, VersionsOf
<1>. QED BY <1>8, <1>9, PresentIsAVersion DEF History!Edit, History!Next

LEMMA RestoredIsPresent ==
    ASSUME EngineInv, Watched \in Live, NEW d \in Docs,
           Update(Watched, Restored(sessions[Watched], d)), tx' = Idle
    PROVE  Watched \in Live' /\ Present' = d
<1>1. sessions[Watched] \in Session BY TypesOfASession
<1>2. Restored(sessions[Watched], d).bytes = d BY <1>1, RestoredFields
<1>3. Watched \in Live' /\ sessions'[Watched].bytes = d
  BY <1>2 DEF Update, EngineInv, TypeOK, Live
<1>4. tx'.session # Watched BY IdleIsTyped, BudgetAssumption
<1>. QED BY <1>3, <1>4 DEF Present

LEMMA UndoStep ==
    ASSUME EngineInv, EngineInv', Watched \in Live, Undo(Watched)
    PROVE  History!Next
<1>. DEFINE u == undo[Watched]
            r == redo[Watched]
            e == Last(u)
            x == NewSnapshot(sessions[Watched].bytes)
<1>1. /\ tx = Idle /\ tx' = Idle /\ u # <<>>
      /\ Update(Watched, Restored(sessions[Watched], e.doc))
      /\ undo' = [undo EXCEPT ![Watched] = Front(u)]
      /\ \/ /\ redo' = [redo EXCEPT ![Watched] = Append(r, x)]
            /\ StoreSnapshot(Watched, sessions[Watched].bytes, {})
         \/ redo' = redo
  BY DEF Undo
<1>2. u \in Seq(Snapshot) /\ r \in Seq(Snapshot) /\ Len(u) \in Nat \ {0}
  BY <1>1 DEF EngineInv, StacksInv
<1>3. e.doc \in Docs /\ e.doc = u[Len(u)].doc
  BY <1>1, <1>2, LastOfAStack DEF Last
<1>4. /\ Past = VersionsOf(u) /\ Present = sessions[Watched].bytes
      /\ Future = Reverse(VersionsOf(r))
  BY <1>1, WatchedWhenIdle
<1>5. Len(Past) = Len(u) /\ Past # <<>> /\ Past[Len(Past)] = e.doc
  <2>1. /\ Past \in Seq(Docs) /\ Len(Past) = Len(u)
        /\ \A k \in 1 .. Len(u) : Past[k] = u[k].doc
    BY <1>2, <1>4, VersionsOfAStack
  <2>. QED BY <1>2, <1>3, <2>1
<1>6. Watched \in Live' /\ Present' = e.doc
  BY <1>1, <1>3, RestoredIsPresent
<1>7. Past' = SubSeq(Past, 1, Len(Past) - 1)
  <2>1. undo'[Watched] = Front(u) BY <1>1 DEF EngineInv, StacksInv
  <2>2. Past' = VersionsOf(Front(u)) BY <1>6, <2>1 DEF Past
  <2>3. 1 \in 1 .. Len(u) + 1 /\ Len(u) - 1 \in 0 .. Len(u) BY <1>2
  <2>. QED BY <1>2, <1>4, <1>5, <2>2, <2>3, VersionsOfAPart DEF Front
<1>8. Future' \in {<<Present>> \o Future, Future}
  <2>1. Future' = Reverse(VersionsOf(redo'[Watched])) BY <1>6 DEF Future
  <2>2. CASE redo' = redo BY <2>1, <2>2, <1>4
  <2>3. CASE /\ redo' = [redo EXCEPT ![Watched] = Append(r, x)]
             /\ StoreSnapshot(Watched, sessions[Watched].bytes, {})
    <3>1. redo'[Watched] = Append(r, x) BY <2>3 DEF EngineInv, StacksInv
    <3>2. x \in Snapshot /\ x.doc = Present
      BY <2>3, <1>4, OnlyASnapshotIsTaken
    <3>. HIDE DEF x, r
    <3>3. VersionsOf(Append(r, x)) = Append(VersionsOf(r), Present)
      BY <1>2, <3>2, VersionsOfAppend
    <3>4. VersionsOf(r) \in Seq(Docs) /\ Present \in Docs
      BY <1>2, <3>2, VersionsOfAStack DEF Snapshot
    <3>5. Future' = <<Present>> \o Future
      BY <1>4, <2>1, <3>1, <3>3, <3>4, ReverseOfAppend
    <3>. QED BY <3>5
  <2>. QED BY <1>1, <2>2, <2>3
<1>. QED BY <1>5, <1>6, <1>7, <1>8 DEF History!Undo, History!Next

LEMMA RedoStep ==
    ASSUME EngineInv, EngineInv', Watched \in Live, Redo(Watched)
    PROVE  History!Next
<1>. DEFINE u == undo[Watched]
            r == redo[Watched]
            e == Last(r)
            x == NewSnapshot(sessions[Watched].bytes)
            p == Append(u, x)
<1>1. /\ tx = Idle /\ tx' = Idle /\ r # <<>>
      /\ Update(Watched, Restored(sessions[Watched], e.doc))
      /\ redo' = [redo EXCEPT ![Watched] = Front(r)]
      /\ \/ /\ undo' = [undo EXCEPT ![Watched] = Kept(p, Front(r))]
            /\ StoreSnapshot(Watched, sessions[Watched].bytes,
                             FilesOf(Watched, Pruned(p, Front(r))))
         \/ undo' = undo
  BY DEF Redo
<1>2. u \in Seq(Snapshot) /\ r \in Seq(Snapshot) /\ Len(r) \in Nat \ {0}
  BY <1>1 DEF EngineInv, StacksInv
<1>3. e.doc \in Docs /\ e.doc = r[Len(r)].doc
  BY <1>1, <1>2, LastOfAStack DEF Last
<1>4. /\ Past = VersionsOf(u) /\ Present = sessions[Watched].bytes
      /\ Future = Reverse(VersionsOf(r))
  BY <1>1, WatchedWhenIdle
<1>5. Watched \in Live' /\ Present' = e.doc
  BY <1>1, <1>3, RestoredIsPresent
<1>6. /\ Future # <<>> /\ Present' = Head(Future)
      /\ Future' = Tail(Future)
  <2>. DEFINE w == VersionsOf(r)
  <2>1. w \in Seq(Docs) /\ Len(w) = Len(r) /\ w[Len(r)] = e.doc
    BY <1>2, <1>3, VersionsOfAStack
  <2>2. redo'[Watched] = Front(r) BY <1>1 DEF EngineInv, StacksInv
  <2>3. Future' = Reverse(VersionsOf(Front(r))) BY <1>5, <2>2 DEF Future
  <2>4. 1 \in 1 .. Len(r) + 1 /\ Len(r) - 1 \in 0 .. Len(r) BY <1>2
  <2>5. VersionsOf(Front(r)) = SubSeq(w, 1, Len(w) - 1)
    BY <1>2, <2>1, <2>4, VersionsOfAPart DEF Front
  <2>. HIDE DEF w
  <2>6. w # <<>> BY <1>2, <2>1
  <2>7. /\ Reverse(w) # <<>> /\ Head(Reverse(w)) = w[Len(w)]
        /\ Tail(Reverse(w)) = Reverse(SubSeq(w, 1, Len(w) - 1))
    BY <2>1, <2>6, ReverseBeginsWithLast
  <2>8. Future = Reverse(w) BY <1>4 DEF w
  <2>. QED BY <1>5, <2>1, <2>3, <2>5, <2>7, <2>8
<1>7. Past' \in History!Suffixes(Append(Past, Present)) \cup {Past}
  <2>1. Past' = VersionsOf(undo'[Watched]) BY <1>5 DEF Past
  <2>2. CASE undo' = undo BY <2>1, <2>2, <1>4
  <2>3. CASE /\ undo' = [undo EXCEPT ![Watched] = Kept(p, Front(r))]
             /\ StoreSnapshot(Watched, sessions[Watched].bytes,
                              FilesOf(Watched, Pruned(p, Front(r))))
    <3>1. undo'[Watched] = Kept(p, Front(r)) BY <2>3 DEF EngineInv, StacksInv
    <3>2. x \in Snapshot /\ x.doc = Present
      BY <2>3, <1>4, SnapshotIsTaken
    <3>. HIDE DEF x, r
    <3>3. VersionsOf(Kept(p, Front(r))) \in History!Suffixes(Append(Past, Present))
      BY <1>2, <1>4, <3>2, KeptIsASuffix
    <3>. QED BY <2>1, <3>1, <3>3
  <2>. QED BY <1>1, <2>2, <2>3
<1>. QED BY <1>6, <1>7 DEF History!Redo, History!Next

LEMMA StepOnTheLine ==
    ASSUME EngineInv, EngineInv', EngineNext
    PROVE  History!Next
<1>1. ASSUME NEW p \in Paths, OpenSession(p) PROVE History!Next
  <2>1. /\ Live' = Live \cup {nextId}
        /\ undo' = [id \in Live' |-> IF id \in Live THEN undo[id] ELSE <<>>]
        /\ redo' = [id \in Live' |-> IF id \in Live THEN redo[id] ELSE <<>>]
    BY <1>1 DEF OpenSession, Open, Live
  <2>2. CASE Watched \in Live BY <2>1, <2>2, OutsideStep
  <2>3. CASE Watched \notin Live BY <2>1, <2>3, ResetStep
  <2>. QED BY <2>2, <2>3
<1>2. ASSUME NEW id \in Live, CloseSession(id) PROVE History!Next
  <2>1. /\ Live' = Live \ {id}
        /\ undo' = [i \in Live' |-> undo[i]]
        /\ redo' = [i \in Live' |-> redo[i]]
    BY <1>2 DEF CloseSession, Close, Live
  <2>2. CASE Watched = id BY <2>1, <2>2, ResetStep
  <2>3. CASE Watched # id BY <2>1, <2>3, OutsideStep
  <2>. QED BY <2>2, <2>3
<1>3. ASSUME UNCHANGED <<undo, redo>>, Live' = Live PROVE History!Next
  BY <1>3, OutsideStep
<1>4. ASSUME NEW id \in Live, SessionCommand(id) PROVE History!Next
  <2>1. UNCHANGED <<undo, redo>> BY <1>4 DEF SessionCommand, engineVars
  <2>2. undo \in [Live -> Seq(Snapshot)] /\ undo' \in [Live' -> Seq(Snapshot)]
    BY DEF EngineInv, StacksInv
  <2>. QED BY <1>3, <2>1, <2>2
<1>5. ASSUME NEW id \in Live, BeginTransaction(id) PROVE History!Next
  BY <1>3, <1>5 DEF BeginTransaction, Live
<1>6. ASSUME tx # Idle, Operation PROVE History!Next
  <2>1. UNCHANGED <<undo, redo>>
    BY <1>6, RunningTransaction, OperationIsSound
  <2>2. undo \in [Live -> Seq(Snapshot)] /\ undo' \in [Live' -> Seq(Snapshot)]
    BY DEF EngineInv, StacksInv
  <2>. QED BY <1>3, <2>1, <2>2
<1>7. ASSUME FailTransaction PROVE History!Next
  BY <1>3, <1>7 DEF FailTransaction, Update, Live
<1>8. ASSUME OtherInstanceStarts PROVE History!Next
  BY <1>3, <1>8 DEF OtherInstanceStarts, Live
<1>9. ASSUME NEW id, id # Watched, Live' = Live, NEW a, NEW b,
             undo' = [undo EXCEPT ![id] = a] \/ UNCHANGED undo,
             redo' = [redo EXCEPT ![id] = b] \/ UNCHANGED redo
      PROVE  History!Next
  BY <1>9, OutsideStep DEF EngineInv, StacksInv
<1>10. ASSUME CommitTransaction PROVE History!Next
  <2>1. CASE tx.session = Watched BY <1>10, <2>1, CommitStep
  <2>2. CASE tx.session # Watched
    BY <1>9, <1>10, <2>2 DEF CommitTransaction, Update, Live
  <2>. QED BY <2>1, <2>2
<1>11. ASSUME NEW id \in Live, Undo(id) PROVE History!Next
  <2>1. CASE id = Watched BY <1>11, <2>1, UndoStep
  <2>2. CASE id # Watched
    BY <1>9, <1>11, <2>2 DEF Undo, Update, Live
  <2>. QED BY <2>1, <2>2
<1>12. ASSUME NEW id \in Live, Redo(id) PROVE History!Next
  <2>1. CASE id = Watched BY <1>12, <2>1, RedoStep
  <2>2. CASE id # Watched
    BY <1>9, <1>12, <2>2 DEF Redo, Update, Live
  <2>. QED BY <2>1, <2>2
<1>. QED
  BY <1>1, <1>2, <1>4, <1>5, <1>6, <1>7, <1>8, <1>10, <1>11, <1>12 DEF EngineNext

\* For any one document undo and redo move along a line of versions: the
\* engine implements UndoHistory.
THEOREM EngineIsLinear == EngineSpec => HistoryIsLinear
<1>1. EngineInit => History!Init
  <2>. SUFFICES ASSUME EngineInit PROVE History!Init OBVIOUS
  <2>1. Watched \notin Live BY DEF EngineInit, Init, Live
  <2>. QED BY <2>1 DEF History!Init, Past, Present, Future
<1>2. EngineInv /\ EngineInv' /\ [EngineNext]_allVars
        => [History!Next]_<<Past, Present, Future>>
  <2>. SUFFICES ASSUME EngineInv, EngineInv', [EngineNext]_allVars
                PROVE  [History!Next]_<<Past, Present, Future>>
    OBVIOUS
  <2>1. CASE EngineNext BY <2>1, StepOnTheLine
  <2>2. CASE UNCHANGED allVars
    BY <2>2 DEF allVars, Past, Present, Future, Live
  <2>. QED BY <2>1, <2>2
<1>. QED
  BY <1>1, <1>2, EngineIsSound, PTL
     DEF EngineSpec, HistoryIsLinear, History!Spec, History!vars
=============================================================================
