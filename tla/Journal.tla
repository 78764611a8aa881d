------------------------------ MODULE Journal ------------------------------
(***************************************************************************)
(* The journal of a PDF document (source/pdf/pdf-object.c) over its cross- *)
(* reference sections (source/pdf/pdf-xref.c).  A change copies the object *)
(* into the newest section and keeps what was there before in a fragment;  *)
(* operations nest; undo, redo and abandoning swap the fragments with the  *)
(* newest section.  The length of a document only grows, also by what is   *)
(* undone.  Signing, saving and deleting are not modelled.                 *)
(***************************************************************************)
EXTENDS Naturals, Sequences, FiniteSets, FiniteSetsExt, SequencesExt

CONSTANTS
    File,        \* the sections a file is opened with, newest first
    MaxObject,   \* bound: the largest object number
    Values,      \* what an object may hold besides a reference
    NoObject,    \* no object
    Unstashed,   \* whether callers replace objects their operation has not altered
    MaxChanges,  \* bound: additions, alterations and replacements
    MaxNesting   \* bound: operations inside each other

Numbers == 1 .. MaxObject

\* A number as a value is a reference to that object.
Contents == Values \cup Numbers

Blank == [type |-> "none", obj |-> NoObject]

\* The objects of the file.
Originals == {n \in Numbers : \E i \in DOMAIN File : File[i][n].type # "none"}

ASSUME FileAssumption ==
    /\ {MaxObject, MaxChanges, MaxNesting} \subseteq Nat /\ Unstashed \in BOOLEAN
    /\ NoObject \notin Contents /\ Values \cap Numbers = {}
    /\ File \in Seq([Numbers -> {Blank} \cup [type : {"n"}, obj : Values]])
    /\ File # <<>>

VARIABLES
    doc,      \* sections, index, whether the newest is incremental, length
    hist,     \* the entries of the journal, oldest first
    current,  \* how many of them are done
    pending,  \* the entries of the operations that are open, outermost first
    begun,    \* history: the document at the start of each open operation
    line,     \* history: the versions undo and redo go along, oldest first
    changes   \* counts towards MaxChanges

vars == <<doc, hist, current, pending, begun, line, changes>>

nesting == Len(pending)

-----------------------------------------------------------------------------
(* Cross-reference sections.                                               *)

\* The sections, from the index of the object on, that define it.
Defining(d, n) ==
    {i \in d.index[n] .. Len(d.sections) : d.sections[i][n].type # "none"}

Entry(d, n) ==
    IF Defining(d, n) = {} THEN Blank ELSE d.sections[Min(Defining(d, n))][n]

Readable(d) == {n \in Numbers : Entry(d, n).type = "n"}

Read(d) == [n \in Numbers |-> Entry(d, n).obj]

\* ensure_incremental_xref.
Incremental(d) ==
    IF d.incremental THEN d
    ELSE [d EXCEPT !.sections = <<[n \in Numbers |-> Blank]>> \o @,
                   !.index = [n \in Numbers |-> @[n] + 1],
                   !.incremental = TRUE]

\* Mutant: the index stays where the object was found last.
PutUnindexed(d, n, type, obj) ==
    LET i == Incremental(d)
    IN  [i EXCEPT !.sections[1][n] = [type |-> type, obj |-> obj]]

\* Writing the entry that pdf_get_incremental_xref_entry returns.
Put(d, n, type, obj) ==
    LET i == Incremental(d)
    IN  [i EXCEPT !.sections[1][n] = [type |-> type, obj |-> obj],
                  !.index[n] = 1]

\* Whether pdf_xref_ensure_incremental_object has to copy the object.
Elsewhere(d, n) == Defining(d, n) # {} /\ Min(Defining(d, n)) # 1

EnsureIncrementalObject(d, n) ==
    LET i == Incremental(d)
    IN  IF Elsewhere(i, n) THEN Put(i, n, Entry(i, n).type, Entry(i, n).obj)
        ELSE i

\* What a reader sees of the file's own objects; the others are reached
\* through these.
Seen(d) == [n \in Originals |-> Entry(d, n).obj]

Init ==
    /\ doc = [sections |-> File, index |-> [n \in Numbers |-> 1],
              incremental |-> FALSE, len |-> Max(Originals \cup {0})]
    /\ hist = <<>> /\ current = 0 /\ pending = <<>>
    /\ begun = <<>> /\ line = <<Seen(doc)>> /\ changes = 0

-----------------------------------------------------------------------------
(* Entries of the journal.                                                 *)

Fragment(n, newobj, inactive) ==
    [num |-> n, newobj |-> newobj, inactive |-> inactive]

Nums(frags) == {frags[i].num : i \in DOMAIN frags}

\* Mutant: entries are glued together and nothing else.
ResolvedNever(frags) == frags

\* resolve_undo: of each object the first fragment stays.
Resolved(frags) ==
    LET kept[i \in 0 .. Len(frags)] ==
            IF i = 0 THEN <<>>
            ELSE IF frags[i].num \in Nums(kept[i - 1]) THEN kept[i - 1]
            ELSE Append(kept[i - 1], frags[i])
    IN  kept[Len(frags)]

\* Mutant: a fragment stays what it was when it was recorded.
SwappedKeepingNew(d, frags) ==
    LET Of(n) == CHOOSE k \in DOMAIN frags : frags[k].num = n
        Into(n, e) == IF n \notin Nums(frags) THEN e
                      ELSE [type |-> IF frags[Of(n)].newobj THEN "none" ELSE "n",
                            obj  |-> frags[Of(n)].inactive]
        SwapIn(i) ==
            [doc   |-> [i EXCEPT !.sections[1] = [n \in Numbers |-> Into(n, @[n])],
                                 !.index = [n \in Numbers |->
                                               IF n \in Nums(frags) THEN 1 ELSE @[n]]],
             frags |-> [k \in DOMAIN frags |->
                           LET old == i.sections[1][frags[k].num]
                           IN  Fragment(frags[k].num, frags[k].newobj, old.obj)]]
    IN  IF frags = <<>> THEN [doc |-> d, frags |-> frags] ELSE SwapIn(Incremental(d))

\* swap_fragments: the document and the fragments afterwards.  The order
\* makes no difference, for no object is mentioned twice (OnceInEntry).
Swapped(d, frags) ==
    LET Of(n) == CHOOSE k \in DOMAIN frags : frags[k].num = n
        Into(n, e) == IF n \notin Nums(frags) THEN e
                      ELSE [type |-> IF frags[Of(n)].newobj THEN "none" ELSE "n",
                            obj  |-> frags[Of(n)].inactive]
        SwapIn(i) ==
            [doc   |-> [i EXCEPT !.sections[1] = [n \in Numbers |-> Into(n, @[n])],
                                 !.index = [n \in Numbers |->
                                               IF n \in Nums(frags) THEN 1 ELSE @[n]]],
             frags |-> [k \in DOMAIN frags |->
                           LET old == i.sections[1][frags[k].num]
                           IN  Fragment(frags[k].num, old.type = "none", old.obj)]]
    IN  IF frags = <<>> THEN [doc |-> d, frags |-> frags] ELSE SwapIn(Incremental(d))

\* The fragments of the innermost operation.
Latest == pending[nesting].frags

-----------------------------------------------------------------------------
(* Operations.                                                             *)

\* pdf_begin_operation, or pdf_begin_implicit_operation without a title.
Begin(titled) ==
    /\ nesting < MaxNesting
    /\ pending' = Append(pending, [titled |-> titled, frags |-> <<>>])
    /\ begun' = Append(begun, Read(doc))
    /\ UNCHANGED <<doc, hist, current, line, changes>>

Change == changes < MaxChanges /\ changes' = changes + 1

Stash(f) == pending' = [pending EXCEPT ![nesting].frags = Append(@, f)]

\* pdf_add_object: pdf_create_object, then pdf_update_object.
AddObject(v) ==
    LET n == doc.len + 1 IN
    /\ nesting > 0 /\ n \in Numbers /\ Change
    /\ doc' = [Put(doc, n, "n", v) EXCEPT !.len = n]
    /\ Stash(Fragment(n, TRUE, NoObject))
    /\ UNCHANGED <<hist, current, begun, line>>

\* Mutant: what has been undone can still be redone.
AlterKeepingRedo(n, c) ==
    LET d == EnsureIncrementalObject(doc, n)
        isNew == Elsewhere(Incremental(doc), n)
    IN
    /\ nesting > 0 /\ Change
    /\ n \in Readable(doc)
    /\ IF n \in Nums(Latest) THEN UNCHANGED pending
       ELSE Stash(Fragment(n, isNew, IF isNew THEN NoObject ELSE Entry(d, n).obj))
    /\ doc' = [d EXCEPT !.sections[1][n].obj = c]
    /\ UNCHANGED <<hist, current, begun, line>>

\* Mutant: an object is not stashed again inside a nested operation.
AlterStashingOnce(n, c) ==
    LET d == EnsureIncrementalObject(doc, n)
        isNew == Elsewhere(Incremental(doc), n)
    IN
    /\ nesting > 0 /\ Change
    /\ n \in Readable(doc)
    /\ hist' = SubSeq(hist, 1, current) /\ line' = SubSeq(line, 1, current + 1)
    /\ IF \E k \in 1 .. nesting : n \in Nums(pending[k].frags) THEN UNCHANGED pending
       ELSE Stash(Fragment(n, isNew, IF isNew THEN NoObject ELSE Entry(d, n).obj))
    /\ doc' = [d EXCEPT !.sections[1][n].obj = c]
    /\ UNCHANGED <<current, begun>>

\* prepare_object_for_alteration, then the alteration itself.
Alter(n, c) ==
    LET d == EnsureIncrementalObject(doc, n)
        isNew == Elsewhere(Incremental(doc), n)
    IN
    /\ nesting > 0 /\ Change
    /\ n \in Readable(doc)
    /\ hist' = SubSeq(hist, 1, current) /\ line' = SubSeq(line, 1, current + 1)
    /\ IF n \in Nums(Latest) THEN UNCHANGED pending
       ELSE Stash(Fragment(n, isNew, IF isNew THEN NoObject ELSE Entry(d, n).obj))
    /\ doc' = [d EXCEPT !.sections[1][n].obj = c]
    /\ UNCHANGED <<current, begun>>

\* pdf_update_object takes no part in the journal and asks for no operation.
Update(n, c) ==
    /\ Change
    /\ n \in Readable(doc)
    /\ Unstashed \/ (nesting > 0 /\ n \in Nums(Latest))
    /\ doc' = Put(doc, n, "n", c)
    /\ UNCHANGED <<hist, current, pending, begun, line>>

\* pdf_end_operation inside another one.
EndNested ==
    /\ nesting > 1
    /\ pending' = [Front(pending) EXCEPT ![nesting - 1].frags =
                       IF Latest = <<>> THEN @
                       ELSE IF @ = <<>> THEN Latest
                       ELSE Resolved(@ \o Latest)]
    /\ begun' = Front(begun)
    /\ UNCHANGED <<doc, hist, current, line, changes>>

\* pdf_end_operation of the outermost one: nothing has changed; or the
\* operation has a title; or it is implicit and becomes part of the last
\* one, or of nothing.
EndOutermost ==
    /\ nesting = 1
    /\ IF Latest = <<>> THEN UNCHANGED <<hist, current, line>>
       ELSE IF pending[1].titled
       THEN /\ hist' = Append(SubSeq(hist, 1, current), Latest)
            /\ current' = current + 1
            /\ line' = Append(SubSeq(line, 1, current + 1), Seen(doc))
       ELSE /\ hist' = IF current = 0 THEN hist
                       ELSE [hist EXCEPT ![current] = Resolved(@ \o Latest)]
            /\ line' = [line EXCEPT ![current + 1] = Seen(doc)]
            /\ UNCHANGED current
    /\ pending' = <<>> /\ begun' = <<>>
    /\ UNCHANGED <<doc, changes>>

\* pdf_abandon_operation.
Abandon ==
    /\ nesting > 0
    /\ doc' = Swapped(doc, Latest).doc
    /\ pending' = Front(pending) /\ begun' = Front(begun)
    /\ UNCHANGED <<hist, current, line, changes>>

\* The entry k is swapped with the document.
SwapEntry(k) ==
    LET s == Swapped(doc, hist[k])
    IN  doc' = s.doc /\ hist' = [hist EXCEPT ![k] = s.frags]

\* pdf_undo.
Undo ==
    /\ nesting = 0 /\ current > 0
    /\ SwapEntry(current)
    /\ current' = current - 1
    /\ UNCHANGED <<pending, begun, line, changes>>

\* Mutant: to the last entry at once.
RedoLast ==
    /\ nesting = 0 /\ current < Len(hist)
    /\ SwapEntry(Len(hist))
    /\ current' = Len(hist)
    /\ UNCHANGED <<pending, begun, line, changes>>

\* pdf_redo.
Redo ==
    /\ nesting = 0 /\ current < Len(hist)
    /\ SwapEntry(current + 1)
    /\ current' = current + 1
    /\ UNCHANGED <<pending, begun, line, changes>>

\* Mutant: the place in the history stays.
DiscardKeepingPlace ==
    /\ hist' = <<>> /\ current' = current /\ line' = <<line[current + 1]>>
    /\ pending' = <<>> /\ begun' = <<>>
    /\ UNCHANGED <<doc, changes>>

\* pdf_discard_journal.  The entries of open operations go as well, but not
\* the count of these operations, which is no variable here.
Discard ==
    /\ hist' = <<>> /\ current' = 0 /\ line' = <<line[current + 1]>>
    /\ pending' = <<>> /\ begun' = <<>>
    /\ UNCHANGED <<doc, changes>>

\* Assumed of callers, of which the repository has none: no operation is open
\* ("Should be NULL", it says of the pending entries).
DiscardBetweenOperations == nesting = 0 /\ Discard

\* pdf_get_xref_entry remembers where it has found an object.
Load(n) ==
    /\ doc' = [doc EXCEPT !.index[n] =
                  IF Defining(doc, n) = {} THEN 1 ELSE Min(Defining(doc, n))]
    /\ UNCHANGED <<hist, current, pending, begun, line, changes>>

\* What a caller puts into an object: a value, or a reference to an object
\* that has been added.
Available == Values \cup (Readable(doc) \ Originals)

Next ==
    \/ \E titled \in BOOLEAN : Begin(titled)
    \/ \E v \in Values : AddObject(v)
    \/ \E n \in Numbers : Load(n)
    \/ \E n \in Numbers, c \in Available : Alter(n, c) \/ Update(n, c)
    \/ Abandon \/ EndNested \/ EndOutermost \/ Undo \/ Redo
    \/ DiscardBetweenOperations

Spec == Init /\ [][Next]_vars

-----------------------------------------------------------------------------
(* Versions: what the document was and will be, by swapping the entries.   *)

\* The document with the operations from the k-th open one on abandoned.
Reverted(k) ==
    LET F[j \in 1 .. nesting + 1] ==
            IF j > nesting THEN doc ELSE Swapped(F[j + 1], pending[j].frags).doc
    IN  F[k]

\* The document after the first k entries of the history.
Version(k) ==
    LET F[j \in 0 .. Len(hist)] ==
            IF j = current THEN Reverted(1)
            ELSE IF j < current THEN Swapped(F[j + 1], hist[j + 1]).doc
            ELSE Swapped(F[j - 1], hist[j]).doc
    IN  F[k]

Line == INSTANCE VersionLine WITH
    Versions <- [Originals -> Contents \cup {NoObject}],
    at       <- current + 1

-----------------------------------------------------------------------------
(* Properties.                                                             *)

EntryType == [type : {"none", "n"}, obj : Contents \cup {NoObject}]

Fragments == [num : Numbers, newobj : BOOLEAN, inactive : Contents \cup {NoObject}]

\* The variables have their types.
TypeOK ==
    /\ doc.sections \in Seq([Numbers -> EntryType])
    /\ doc.index \in [Numbers -> 1 .. Len(doc.sections)]
    /\ doc.incremental \in BOOLEAN /\ doc.len \in 0 .. MaxObject
    /\ hist \in Seq(Seq(Fragments) \ {<<>>})
    /\ current \in 0 .. Len(hist)
    /\ pending \in Seq([titled : BOOLEAN, frags : Seq(Fragments)])
    /\ begun \in Seq([Numbers -> Contents \cup {NoObject}])
    /\ line \in Seq([Originals -> Contents \cup {NoObject}])
    /\ Len(begun) = nesting /\ Len(line) = Len(hist) + 1
    /\ changes \in 0 .. MaxChanges

\* The index never leads past a newer definition of an object, however the
\* sections grew and whatever undo blanked: reading finds the newest one.
IndexFindsNewest ==
    \A n \in Numbers : \A i \in 1 .. doc.index[n] - 1 :
        doc.sections[i][n].type = "none"

\* No entry mentions an object twice (the comment above resolve_undo): it
\* would be undone only in part.
OnceInEntry ==
    /\ \A k \in DOMAIN hist : Cardinality(Nums(hist[k])) = Len(hist[k])
    /\ \A k \in DOMAIN pending :
           Cardinality(Nums(pending[k].frags)) = Len(pending[k].frags)

\* Whatever version is reached by undo and redo, and whatever is open now,
\* an object that is referred to exists.
ReferencesResolve ==
    \A k \in 0 .. Len(hist) :
        LET d == Version(k)
        IN  {Entry(d, n).obj : n \in Numbers} \cap Numbers \subseteq Readable(d)

\* Every open operation, not only the innermost, can be reverted to the
\* state in which it was begun.
BeginsAreRecoverable ==
    \A k \in 1 .. nesting : Read(Reverted(k)) = begun[k]

\* Undo and redo, step by step from here, lead through exactly the versions
\* of the line: nested and implicit operations count as part of the one
\* around or before them, an operation that is open or abandoned as none.
VersionsAreRecoverable ==
    \A k \in 0 .. Len(hist) : Seen(Version(k)) = line[k + 1]

\* Abandoning an operation reverts to the state when it was begun
\* (include/mupdf/pdf/object.h).
AbandonReverts == [][Abandon => Read(doc)' = begun[nesting]]_vars

\* The line only grows by edits, which forget what was undone: undo and redo
\* move along it, and no version that lies behind is ever touched.
HistoryIsALine == Line!Spec
=============================================================================
