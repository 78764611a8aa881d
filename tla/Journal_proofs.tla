--------------------------- MODULE Journal_proofs ---------------------------
(***************************************************************************)
(* For any file, any objects and any number of changes: reading an object  *)
(* finds its newest definition, every open operation can be abandoned and  *)
(* every version be reached again, and the journal implements a line of    *)
(* versions.                                                               *)
(*                                                                         *)
(* All sections but one are the file's and never change.  What can change  *)
(* of a document is one function, its top, the newest section or, before   *)
(* the first change, a blank one; and where the index points.              *)
(***************************************************************************)
EXTENDS Journal, CommonLemmas, FiniteSetTheorems, SequenceTheorems, TLAPS

-----------------------------------------------------------------------------
(* Documents by their tops.                                                *)

Slot == {Blank} \cup [type : {"n"}, obj : Contents]

Tops == [Numbers -> Slot]

BlankTop == [n \in Numbers |-> Blank]

Indexes == [Numbers -> 1 .. Len(File) + 1]

\* The index leads past no definition.
Leads(T, index) ==
    \A n \in Numbers :
        /\ index[n] > 1 => T[n] = Blank
        /\ \A j \in 1 .. Len(File) : j + 1 < index[n] => File[j][n] = Blank

\* A document has a section of its own or is as it was opened; the index
\* counts from the section to come.
Documents ==
    [sections : Seq(Tops), index : [Numbers -> Nat], incremental : BOOLEAN, len : Nat]

IsDocument(d, T, index, len) ==
    /\ T \in Tops /\ index \in Indexes /\ len \in 0 .. MaxObject /\ Leads(T, index)
    /\ d \in Documents /\ d.len = len
    /\ \/ /\ d.incremental
          /\ d.sections = <<T>> \o File /\ d.index = index
       \/ /\ ~d.incremental /\ T = BlankTop
          /\ d.sections = File
          /\ \A n \in Numbers : index[n] = d.index[n] + 1 /\ index[n] > 1

HasTop(d, T, len) == \E index : IsDocument(d, T, index, len)

TopOf(d) == IF d.incremental THEN d.sections[1] ELSE BlankTop

\* The definition of an object in the file.
Stored(n) ==
    LET D == {i \in DOMAIN File : File[i][n].type # "none"}
    IN  IF D = {} THEN Blank ELSE File[Min(D)][n]

\* The definition a reader finds.
Effective(T, n) == IF T[n] = Blank THEN Stored(n) ELSE T[n]

LEMMA FileTypes ==
    /\ File \in Seq(Tops) /\ Len(File) \in Nat \ {0} /\ DOMAIN File = 1 .. Len(File)
    /\ \A i \in 1 .. Len(File) : File[i] \in Tops
    /\ MaxObject \in Nat
<1>. DEFINE S == [Numbers -> {Blank} \cup [type : {"n"}, obj : Values]]
<1>1. S \subseteq Tops
  <2>1. {Blank} \cup [type : {"n"}, obj : Values] \subseteq Slot
    BY DEF Slot, Contents
  <2>. QED BY <2>1 DEF Tops
<1>2. File \in Seq(S) /\ File # <<>> BY FileAssumption
<1>3. File \in Seq(Tops)
  <2>. HIDE DEF S
  <2>. QED BY <1>1, <1>2, SeqMonotonic
<1>. QED BY <1>2, <1>3, FileAssumption

LEMMA SlotTypes ==
    \A e \in Slot : /\ e = Blank <=> e.type = "none"
                    /\ e # Blank <=> e.type = "n"
                    /\ e # Blank => e.obj \in Contents /\ e.obj # NoObject
                    /\ e = [type |-> e.type, obj |-> e.obj]
                    /\ e.obj \in Contents \cup {NoObject}
<1>1. NoObject \notin Contents BY FileAssumption
<1>. QED BY <1>1 DEF Slot, Blank

\* The sections below the newest are the file's.
LEMMA SectionsOf ==
    ASSUME NEW T \in Tops
    PROVE  LET s == <<T>> \o File IN
           /\ s \in Seq(Tops) /\ Len(s) = Len(File) + 1
           /\ DOMAIN s = 1 .. Len(File) + 1
           /\ s[1] = T /\ \A i \in 1 .. Len(File) : s[i + 1] = File[i]
           /\ \A U \in Tops : [s EXCEPT ![1] = U] = <<U>> \o File
<1>. DEFINE f == File
            s == <<T>> \o f
<1>1. f \in Seq(Tops) /\ Len(f) \in Nat BY FileTypes
<1>. HIDE DEF f
<1>2. /\ s \in Seq(Tops) /\ Len(s) = Len(f) + 1 /\ DOMAIN s = 1 .. Len(f) + 1
      /\ s[1] = T /\ \A i \in 1 .. Len(f) : s[i + 1] = f[i]
  BY <1>1
<1>3. ASSUME NEW U \in Tops PROVE [s EXCEPT ![1] = U] = <<U>> \o f
  <2>. DEFINE u == <<U>> \o f
              e == [s EXCEPT ![1] = U]
  <2>1. /\ u \in Seq(Tops) /\ Len(u) = Len(f) + 1 /\ DOMAIN u = 1 .. Len(f) + 1
        /\ u[1] = U /\ \A i \in 1 .. Len(f) : u[i + 1] = f[i]
    BY <1>1
  <2>2. e \in Seq(Tops) /\ Len(e) = Len(f) + 1 /\ e[1] = U
    BY <1>1, <1>2
  <2>3. ASSUME NEW i \in 1 .. Len(f) + 1 PROVE e[i] = u[i]
    <3>1. CASE i = 1 BY <3>1, <2>1, <2>2
    <3>2. CASE i # 1
      <4>1. i - 1 \in 1 .. Len(f) /\ i = (i - 1) + 1 BY <1>1, <3>2
      <4>2. e[i] = s[i] BY <1>1, <1>2, <3>2
      <4>3. s[(i - 1) + 1] = f[i - 1] /\ u[(i - 1) + 1] = f[i - 1]
        BY <1>2, <2>1, <4>1
      <4>. QED BY <4>1, <4>2, <4>3
    <3>. QED BY <3>1, <3>2
  <2>. HIDE DEF u, e
  <2>. QED BY <1>1, <2>1, <2>2, <2>3, SeqEqual DEF u, e
<1>. QED BY <1>2, <1>3 DEF f

\* Opening a new section moves every definition, and the index with it.
LEMMA IncrementalIs ==
    ASSUME NEW d, NEW T, NEW index, NEW len, IsDocument(d, T, index, len)
    PROVE  /\ IsDocument(Incremental(d), T, index, len)
           /\ Incremental(d).incremental
<1>1. CASE d.incremental
  BY <1>1 DEF Incremental
<1>2. CASE ~d.incremental
  <2>. DEFINE s == <<BlankTop>> \o File
              to == [n \in Numbers |-> d.index[n] + 1]
              e == [d EXCEPT !.sections = s, !.index = to, !.incremental = TRUE]
  <2>1. /\ T = BlankTop /\ d.sections = File /\ d \in Documents /\ d.len = len
        /\ \A n \in Numbers : index[n] = d.index[n] + 1 /\ index[n] \in Nat
        /\ index \in Indexes /\ BlankTop \in Tops
    BY <1>2, FileTypes DEF IsDocument, Indexes
  <2>2. to = index /\ to \in [Numbers -> Nat] BY <2>1 DEF Indexes
  <2>3. s \in Seq(Tops) BY <2>1, SectionsOf
  <2>4. Incremental(d) = e BY <1>2, <2>1 DEF Incremental, BlankTop
  <2>. HIDE DEF s, to
  <2>5. /\ e \in Documents /\ e.len = len /\ e.sections = s /\ e.index = to
        /\ e.incremental
    BY <2>1, <2>2, <2>3 DEF Documents
  <2>. QED BY <2>1, <2>2, <2>4, <2>5 DEF IsDocument, s
<1>. QED BY <1>1, <1>2

\* Where the search for a definition stops, and what it finds there.
LEMMA DefiningIs ==
    ASSUME NEW d, NEW T, NEW index, NEW len, IsDocument(d, T, index, len),
           NEW n \in Numbers
    PROVE  /\ Entry(d, n) = Effective(T, n)
           /\ Defining(d, n) \subseteq 1 .. Len(d.sections)
           /\ Defining(d, n) = {} <=> Effective(T, n) = Blank
           /\ d.incremental =>
                 (Elsewhere(d, n) <=> T[n] = Blank /\ Stored(n) # Blank)
           /\ Defining(d, n) # {} =>
                 /\ Min(Defining(d, n)) \in Defining(d, n)
                 /\ \A i \in 1 .. Len(d.sections) :
                       i < Min(Defining(d, n)) => d.sections[i][n] = Blank
<1>. DEFINE L == Len(File)
            F == {i \in DOMAIN File : File[i][n].type # "none"}
            D == Defining(d, n)
            s == d.sections
<1>1. /\ T \in Tops /\ T[n] \in Slot /\ index[n] \in 1 .. L + 1 /\ L \in Nat \ {0}
      /\ \A i \in 1 .. L : File[i] \in Tops /\ File[i][n] \in Slot
      /\ F \in SUBSET (1 .. L) /\ DOMAIN File = 1 .. L
  BY FileTypes DEF IsDocument, Indexes, Tops
<1>2. \A i \in 1 .. L : i + 1 < index[n] => i \notin F
  BY SlotTypes DEF IsDocument, Leads, Blank
<1>3. index[n] > 1 => T[n] = Blank
  BY DEF IsDocument, Leads
<1>4. Stored(n) = IF F = {} THEN Blank ELSE File[Min(F)][n]
  BY DEF Stored
<1>5. F # {} => /\ Min(F) \in F /\ Min(F) \in 1 .. L /\ \A i \in F : Min(F) <= i
                /\ File[Min(F)][n] # Blank
  <2>1. F \in SUBSET Nat BY <1>1
  <2>. HIDE DEF F
  <2>2. F # {} => Min(F) \in F /\ \A i \in F : Min(F) <= i BY <2>1, MinIsLeast
  <2>3. \A i \in F : File[i][n] # Blank BY DEF F, Blank
  <2>. QED BY <1>1, <2>2, <2>3
<1>6. CASE d.incremental
  <2>1. /\ s = <<T>> \o File /\ d.index = index
    BY <1>6 DEF IsDocument
  <2>2. /\ Len(s) = L + 1 /\ s[1] = T /\ \A i \in 1 .. L : s[i + 1] = File[i]
    BY <1>1, <2>1, SectionsOf
  <2>3. D = {i \in index[n] .. L + 1 : s[i][n].type # "none"}
    BY <2>1, <2>2 DEF Defining
  <2>. HIDE DEF s, F
  <2>4. CASE T[n] # Blank
    <3>1. index[n] = 1 /\ s[1][n].type # "none" BY <1>1, <1>3, <2>2, <2>4, SlotTypes
    <3>2. 1 \in D /\ D \in SUBSET Nat BY <1>1, <2>3, <3>1
    <3>. HIDE DEF D
    <3>3. Min(D) \in D /\ \A i \in D : Min(D) <= i BY <3>2, MinIsLeast
    <3>4. Min(D) = 1
      <4>. DEFINE m == Min(D)
      <4>1. m \in D /\ m <= 1 BY <3>2, <3>3
      <4>2. \A i \in D : i \in Nat /\ i >= 1 BY <1>1, <2>3 DEF D
      <4>. HIDE DEF m
      <4>3. m = 1 BY <4>1, <4>2
      <4>. QED BY <4>3 DEF m
    <3>5. Effective(T, n) = T[n] /\ Effective(T, n) # Blank BY <2>4 DEF Effective
    <3>6. Entry(d, n) = s[1][n] BY <3>2, <3>4 DEF Entry, D, s
    <3>7. ~Elsewhere(d, n) BY <3>4 DEF Elsewhere, D
    <3>8. Defining(d, n) \subseteq 1 .. Len(s) BY <1>1, <2>2, <2>3 DEF D
    <3>. QED BY <2>2, <2>4, <3>2, <3>3, <3>4, <3>5, <3>6, <3>7, <3>8 DEF D, s
  <2>5. CASE T[n] = Blank
    <3>1. ASSUME NEW i \in 1 .. L PROVE i \in F <=> i + 1 \in D
      <4>1. i \in F <=> File[i][n].type # "none" BY <1>1 DEF F
      <4>2. i + 1 \in D <=> i + 1 >= index[n] /\ File[i][n].type # "none"
        BY <1>1, <2>2, <2>3
      <4>. QED BY <1>1, <1>2, <4>1, <4>2
    <3>2. 1 \notin D /\ D \in SUBSET (1 .. L + 1)
      <4>1. s[1][n].type = "none" BY <1>1, <2>2, <2>5, SlotTypes
      <4>. QED BY <1>1, <2>3, <4>1
    <3>. HIDE DEF D
    <3>3. ASSUME NEW i \in D PROVE i - 1 \in F /\ i - 1 \in 1 .. L /\ (i - 1) + 1 = i
      <4>1. i \in 1 .. L + 1 /\ i # 1 BY <3>2
      <4>2. i - 1 \in 1 .. L /\ (i - 1) + 1 = i BY <1>1, <4>1
      <4>. QED BY <3>1, <4>2
    <3>4. D = {} <=> F = {}
      BY <1>1, <3>1, <3>3
    <3>5. CASE D = {}
      <4>1. Entry(d, n) = Blank BY <3>5 DEF Entry, D
      <4>2. Effective(T, n) = Blank BY <1>4, <2>5, <3>4, <3>5 DEF Effective
      <4>3. ~Elsewhere(d, n) BY <3>5 DEF Elsewhere, D
      <4>4. Stored(n) = Blank BY <1>4, <3>4, <3>5
      <4>. QED BY <3>2, <3>5, <4>1, <4>2, <4>3, <4>4 DEF D
    <3>6. CASE D # {}
      <4>1. D \in SUBSET Nat BY <1>1, <3>2
      <4>2. Min(D) \in D /\ \A i \in D : Min(D) <= i BY <3>6, <4>1, MinIsLeast
      <4>3. Min(D) = Min(F) + 1
        <5>. DEFINE m == Min(D)
                    k == Min(F)
        <5>1. k \in 1 .. L /\ k \in F /\ \A i \in F : k <= i BY <1>5, <3>4, <3>6
        <5>2. k + 1 \in D BY <3>1, <5>1
        <5>3. m \in D /\ m <= k + 1 BY <4>2, <5>2
        <5>4. m - 1 \in F /\ m - 1 \in 1 .. L BY <3>3, <5>3
        <5>5. k <= m - 1 BY <5>1, <5>4
        <5>6. m \in Nat BY <4>1, <5>3
        <5>. HIDE DEF m, k
        <5>7. m = k + 1 BY <5>1, <5>3, <5>5, <5>6
        <5>. QED BY <5>7 DEF m, k
      <4>4. s[Min(D)][n] = File[Min(F)][n] BY <1>5, <2>2, <3>4, <3>6, <4>3
      <4>5. Entry(d, n) = s[Min(D)][n] BY <3>6 DEF Entry, D, s
      <4>6. Stored(n) = File[Min(F)][n] BY <1>4, <3>4, <3>6
      <4>7. Effective(T, n) = Stored(n) /\ Stored(n) # Blank
        BY <1>5, <2>5, <3>4, <3>6, <4>6 DEF Effective
      <4>8. Elsewhere(d, n) BY <3>2, <3>6, <4>2 DEF Elsewhere, D
      <4>9. ASSUME NEW i \in 1 .. L + 1, i < Min(D) PROVE s[i][n] = Blank
        <5>1. CASE i = 1 BY <2>2, <2>5, <5>1
        <5>2. CASE i # 1
          <6>1. i - 1 \in 1 .. L /\ (i - 1) + 1 = i BY <1>1, <5>2
          <6>2. i \notin D
            <7>. DEFINE m == Min(D)
            <7>1. m \in Nat /\ \A j \in D : m <= j BY <4>1, <4>2
            <7>2. i < m BY <4>9
            <7>. HIDE DEF m
            <7>. QED BY <1>1, <7>1, <7>2
          <6>3. i - 1 \notin F BY <3>1, <6>1, <6>2
          <6>4. File[i - 1][n].type = "none" BY <1>1, <6>1, <6>3 DEF F
          <6>5. s[i][n] = File[i - 1][n] BY <2>2, <6>1
          <6>6. File[i - 1][n] \in Slot BY <1>1, <6>1
          <6>. QED BY <6>4, <6>5, <6>6, SlotTypes
        <5>. QED BY <5>1, <5>2
      <4>10. D \subseteq 1 .. Len(s) BY <2>2, <3>2
      <4>11. \A i \in 1 .. Len(s) : i < Min(D) => s[i][n] = Blank
        BY <2>2, <4>9
      <4>. QED BY <2>5, <3>6, <4>2, <4>4, <4>5, <4>6, <4>7, <4>8, <4>10, <4>11
               DEF D, s
    <3>. QED BY <3>5, <3>6
  <2>. QED BY <2>4, <2>5
<1>7. CASE ~d.incremental
  <2>1. /\ s = File /\ d.index[n] = index[n] - 1 /\ index[n] > 1
        /\ T = BlankTop
    BY <1>1, <1>7 DEF IsDocument, Documents
  <2>2. D = {i \in index[n] - 1 .. L : File[i][n].type # "none"}
    BY <2>1 DEF Defining
  <2>3. D = F
    <3>1. \A i \in F : i \in 1 .. L /\ ~(i + 1 < index[n]) BY <1>1, <1>2
    <3>2. \A i \in F : i \in index[n] - 1 .. L BY <1>1, <3>1
    <3>. QED BY <1>1, <2>1, <2>2, <3>2
  <2>4. T[n] = Blank BY <2>1 DEF BlankTop
  <2>5. Entry(d, n) = Stored(n) BY <1>4, <2>1, <2>3 DEF Entry
  <2>6. Effective(T, n) = Stored(n) BY <2>4 DEF Effective
  <2>7. F = {} <=> Stored(n) = Blank BY <1>4, <1>5
  <2>8. D \subseteq 1 .. Len(s) BY <1>1, <2>1, <2>3
  <2>9. D # {} => /\ Min(D) \in D
                  /\ \A i \in 1 .. Len(s) : i < Min(D) => s[i][n] = Blank
    <3>. SUFFICES ASSUME D # {}
                  PROVE  /\ Min(F) \in F
                         /\ \A i \in 1 .. L : i < Min(F) => File[i][n] = Blank
      BY <2>1, <2>3
    <3>1. Min(F) \in F /\ \A i \in F : Min(F) <= i BY <1>5, <2>3
    <3>2. ASSUME NEW i \in 1 .. L, i < Min(F) PROVE File[i][n] = Blank
      <4>1. i \notin F
        <5>. DEFINE m == Min(F)
        <5>1. m \in Nat /\ \A j \in F : m <= j BY <1>1, <3>1
        <5>2. i < m BY <3>2
        <5>. HIDE DEF m
        <5>. QED BY <5>1, <5>2
      <4>2. File[i][n].type = "none" /\ File[i][n] \in Slot BY <1>1, <4>1
      <4>. QED BY <4>2, SlotTypes
    <3>. QED BY <3>1, <3>2
  <2>. QED BY <1>7, <2>3, <2>5, <2>6, <2>7, <2>8, <2>9 DEF D, s
<1>. QED BY <1>6, <1>7

LEMMA TopIs ==
    ASSUME NEW d, NEW T, NEW len, HasTop(d, T, len)
    PROVE  TopOf(d) = T /\ d.len = len
<1>1. PICK index : IsDocument(d, T, index, len) BY DEF HasTop
<1>2. T \in Tops BY <1>1 DEF IsDocument
<1>3. (<<T>> \o File)[1] = T BY <1>2, SectionsOf
<1>. QED BY <1>1, <1>3 DEF IsDocument, TopOf

\* Another newest section; the index then points there wherever it differs.
WithTop(d, U, to) == [d EXCEPT !.sections = [@ EXCEPT ![1] = U], !.index = to]

LEMMA NewTop ==
    ASSUME NEW d, NEW T, NEW index, NEW len, IsDocument(d, T, index, len),
           d.incremental,
           NEW U \in Tops, NEW to \in Indexes,
           \A n \in Numbers : to[n] = 1 \/ (to[n] = index[n] /\ U[n] = T[n])
    PROVE  /\ IsDocument(WithTop(d, U, to), U, to, len)
           /\ WithTop(d, U, to).incremental
<1>. DEFINE e == WithTop(d, U, to)
<1>1. Leads(U, to)
  <2>. SUFFICES ASSUME NEW n \in Numbers
                PROVE  /\ to[n] > 1 => U[n] = Blank
                       /\ \A j \in 1 .. Len(File) : j + 1 < to[n] => File[j][n] = Blank
    BY DEF Leads
  <2>1. CASE to[n] = 1 BY <2>1, FileTypes
  <2>2. CASE to[n] = index[n] /\ U[n] = T[n] BY <2>2 DEF IsDocument, Leads
  <2>. QED BY <2>1, <2>2
<1>. DEFINE s == <<U>> \o File
<1>2. s \in Seq(Tops) /\ [d.sections EXCEPT ![1] = U] = s
  BY SectionsOf DEF IsDocument
<1>3. e = [d EXCEPT !.sections = s, !.index = to]
  <2>. HIDE DEF s
  <2>. QED BY <1>2 DEF WithTop
<1>4. to \in [Numbers -> Nat] BY FileTypes DEF Indexes
<1>5. /\ e \in Documents /\ e.len = d.len /\ e.sections = s /\ e.index = to
      /\ e.incremental = d.incremental
  <2>. HIDE DEF s, e
  <2>. QED BY <1>2, <1>3, <1>4 DEF IsDocument, Documents
<1>. QED BY <1>1, <1>5 DEF IsDocument

LEMMA PutIs ==
    ASSUME NEW d, NEW T, NEW len, HasTop(d, T, len),
           NEW n \in Numbers, NEW type, NEW obj, [type |-> type, obj |-> obj] \in Slot
    PROVE  /\ HasTop(Put(d, n, type, obj), [T EXCEPT ![n] = [type |-> type, obj |-> obj]],
                     len)
           /\ Put(d, n, type, obj).incremental
<1>. DEFINE e == [type |-> type, obj |-> obj]
            U == [T EXCEPT ![n] = e]
            i == Incremental(d)
            p == Put(d, n, type, obj)
<1>1. PICK index : IsDocument(d, T, index, len) BY DEF HasTop
<1>. DEFINE to == [index EXCEPT ![n] = 1]
<1>2. IsDocument(i, T, index, len) /\ i.incremental BY <1>1, IncrementalIs
<1>3. /\ T \in Tops /\ index \in Indexes
      /\ i.sections[1] = T /\ i.index = index
  BY <1>2, SectionsOf DEF IsDocument
<1>4. U \in Tops /\ to \in Indexes
  <2>1. e \in Slot OBVIOUS
  <2>2. 1 \in 1 .. Len(File) + 1 BY FileTypes
  <2>. HIDE DEF e
  <2>. QED BY <1>3, <2>1, <2>2 DEF Tops, Indexes
<1>5. p = WithTop(i, U, to)
  <2>1. p = [i EXCEPT !.sections[1][n] = e, !.index[n] = 1] BY DEF Put
  <2>. HIDE DEF i, e, p
  <2>. QED BY <1>3, <2>1 DEF WithTop
<1>6. \A m \in Numbers : to[m] = 1 \/ (to[m] = index[m] /\ U[m] = T[m])
  BY <1>3 DEF Tops, Indexes
<1>7. IsDocument(p, U, to, len) /\ p.incremental
  <2>. HIDE DEF U, to, i, p
  <2>. QED BY <1>2, <1>4, <1>5, <1>6, NewTop
<1>. QED BY <1>7 DEF HasTop

\* What is copied forward before an alteration is what is read.
LEMMA EnsuredIs ==
    ASSUME NEW d, NEW T, NEW len, HasTop(d, T, len), NEW n \in Numbers,
           Effective(T, n) # Blank
    PROVE  /\ HasTop(EnsureIncrementalObject(d, n),
                     [T EXCEPT ![n] = Effective(T, n)], len)
           /\ EnsureIncrementalObject(d, n).incremental
           /\ Elsewhere(Incremental(d), n) <=> T[n] = Blank
<1>1. PICK index : IsDocument(d, T, index, len) BY DEF HasTop
<1>. DEFINE i == Incremental(d)
<1>2. IsDocument(i, T, index, len) /\ i.incremental BY <1>1, IncrementalIs
<1>3. T \in Tops BY <1>1 DEF IsDocument
<1>4. Entry(i, n) = Effective(T, n)
  BY <1>2, DefiningIs
<1>5. Elsewhere(i, n) <=> T[n] = Blank /\ Stored(n) # Blank
  BY <1>2, DefiningIs
<1>6. HasTop(i, T, len) BY <1>2 DEF HasTop
<1>7. CASE T[n] = Blank
  <2>1. Effective(T, n) = Stored(n) /\ Stored(n) # Blank BY <1>7 DEF Effective
  <2>2. Effective(T, n) \in Slot
    <3>. DEFINE F == {k \in DOMAIN File : File[k][n].type # "none"}
    <3>1. F \in SUBSET Nat BY FileTypes
    <3>2. F # {} => Min(F) \in F
      <4>. HIDE DEF F
      <4>. QED BY <3>1, MinIsLeast
    <3>3. \A k \in F : File[k][n] \in Slot BY FileTypes DEF Tops
    <3>. QED BY <2>1, <3>2, <3>3 DEF Stored
  <2>. DEFINE e == Effective(T, n)
  <2>3. e = [type |-> e.type, obj |-> e.obj] BY <2>2, SlotTypes
  <2>4. /\ HasTop(Put(i, n, e.type, e.obj), [T EXCEPT ![n] = e], len)
        /\ Put(i, n, e.type, e.obj).incremental
    <3>. HIDE DEF e, i
    <3>. QED BY <1>6, <2>2, <2>3, PutIs DEF e
  <2>5. EnsureIncrementalObject(d, n) = Put(i, n, e.type, e.obj)
    BY <1>4, <1>5, <1>7, <2>1 DEF EnsureIncrementalObject
  <2>. QED BY <1>5, <1>7, <2>1, <2>4, <2>5
<1>8. CASE T[n] # Blank
  <2>1. EnsureIncrementalObject(d, n) = i
    BY <1>5, <1>8 DEF EnsureIncrementalObject
  <2>2. [T EXCEPT ![n] = Effective(T, n)] = T BY <1>3, <1>8 DEF Effective, Tops
  <2>. QED BY <1>2, <1>5, <1>6, <1>8, <2>1, <2>2
<1>. QED BY <1>7, <1>8

\* Altering what an object holds in the newest section.
LEMMA AlteredIs ==
    ASSUME NEW d, NEW T, NEW len, HasTop(d, T, len), d.incremental,
           NEW n \in Numbers, T[n] # Blank, NEW c \in Contents
    PROVE  HasTop([d EXCEPT !.sections[1][n].obj = c],
                  [T EXCEPT ![n] = [type |-> "n", obj |-> c]], len)
<1>. DEFINE e == [type |-> "n", obj |-> c]
            U == [T EXCEPT ![n] = e]
            p == [d EXCEPT !.sections[1][n].obj = c]
<1>1. PICK index : IsDocument(d, T, index, len) BY DEF HasTop
<1>2. /\ T \in Tops /\ index \in Indexes /\ d \in Documents
      /\ d.sections[1] = T /\ d.index = index
  BY <1>1, SectionsOf DEF IsDocument
<1>3. e \in Slot /\ U \in Tops
  <2>1. e \in Slot BY DEF Slot
  <2>. HIDE DEF e
  <2>. QED BY <1>2, <2>1 DEF Tops
<1>4. [T EXCEPT ![n].obj = c] = U
  <2>1. T[n] \in Slot BY <1>2 DEF Tops
  <2>2. T[n].type = "n" /\ T[n] = [type |-> T[n].type, obj |-> T[n].obj]
    BY <2>1, SlotTypes
  <2>3. [T[n] EXCEPT !.obj = c] = e BY <2>2
  <2>. QED BY <2>3
<1>5. p = WithTop(d, U, index)
  <2>. HIDE DEF U
  <2>1. p = [d EXCEPT !.sections = [@ EXCEPT ![1] = U]] BY <1>2, <1>4
  <2>2. [d EXCEPT !.index = index] = d BY <1>2 DEF Documents
  <2>. DEFINE s == [d.sections EXCEPT ![1] = U]
  <2>3. p = [d EXCEPT !.sections = s] BY <2>1
  <2>. HIDE DEF s, p
  <2>4. p = [d EXCEPT !.sections = s, !.index = index] BY <1>2, <2>3 DEF Documents
  <2>. QED BY <2>4 DEF s, WithTop
<1>6. index[n] = 1
  <2>1. index[n] \in 1 .. Len(File) + 1 BY <1>2 DEF Indexes
  <2>. QED BY <1>1, <2>1, FileTypes DEF IsDocument, Leads
<1>7. \A m \in Numbers : index[m] = 1 \/ (index[m] = index[m] /\ U[m] = T[m])
  BY <1>2, <1>6 DEF Tops
<1>8. IsDocument(p, U, index, len)
  <2>. HIDE DEF U, p
  <2>. QED BY <1>1, <1>2, <1>3, <1>5, <1>7, NewTop
<1>. QED BY <1>8 DEF HasTop

-----------------------------------------------------------------------------
(* Fragments, and what swapping them does to a top.                        *)

\* A fragment of a new object holds nothing, and no other does.
Pieces == {f \in Fragments : f.newobj <=> f.inactive = NoObject}

Once(s) == \A i, j \in DOMAIN s : s[i].num = s[j].num => i = j

Entries == {s \in Seq(Pieces) : Once(s)}

\* The definition that swapping in a fragment gives its object.
Was(f) == IF f.newobj THEN Blank ELSE [type |-> "n", obj |-> f.inactive]

\* Swapping s turns the top T into U.
Swaps(T, s, U) ==
    /\ U \in Tops
    /\ \A k \in DOMAIN s : U[s[k].num] = Was(s[k])
    /\ \A n \in Numbers : n \notin Nums(s) => U[n] = T[n]

After(T, s) ==
    [n \in Numbers |-> IF n \in Nums(s)
                       THEN Was(s[CHOOSE k \in DOMAIN s : s[k].num = n])
                       ELSE T[n]]

LEMMA PieceTypes ==
    \A f \in Pieces : /\ f.num \in Numbers /\ f.newobj \in BOOLEAN
                      /\ f.inactive \in Contents \cup {NoObject}
                      /\ Was(f) \in Slot
                      /\ Was(f) = [type |-> IF f.newobj THEN "none" ELSE "n",
                                   obj |-> f.inactive]
<1>. SUFFICES ASSUME NEW f \in Pieces
              PROVE  /\ f.num \in Numbers /\ f.newobj \in BOOLEAN
                     /\ f.inactive \in Contents \cup {NoObject}
                     /\ Was(f) \in Slot
                     /\ Was(f) = [type |-> IF f.newobj THEN "none" ELSE "n",
                                  obj |-> f.inactive]
  OBVIOUS
<1>1. /\ f.num \in Numbers /\ f.newobj \in BOOLEAN
      /\ f.inactive \in Contents \cup {NoObject}
      /\ f.newobj <=> f.inactive = NoObject
  BY DEF Pieces, Fragments
<1>2. CASE f.newobj BY <1>1, <1>2 DEF Was, Slot, Blank
<1>3. CASE ~f.newobj BY <1>1, <1>3 DEF Was, Slot
<1>. QED BY <1>1, <1>2, <1>3

LEMMA AfterSwaps ==
    ASSUME NEW T \in Tops, NEW s \in Entries
    PROVE  Swaps(T, s, After(T, s))
<1>. DEFINE U == After(T, s)
            Of(n) == CHOOSE k \in DOMAIN s : s[k].num = n
<1>1. s \in Seq(Pieces) /\ Once(s) BY DEF Entries
<1>2. \A k \in DOMAIN s : s[k] \in Pieces /\ s[k].num \in Numbers /\ s[k].num \in Nums(s)
  BY <1>1, PieceTypes DEF Nums
<1>3. \A n \in Nums(s) : Of(n) \in DOMAIN s /\ s[Of(n)].num = n
  BY DEF Nums
<1>4. \A k \in DOMAIN s : Of(s[k].num) = k
  BY <1>1, <1>2, <1>3 DEF Once
<1>5. \A n \in Numbers : U[n] = IF n \in Nums(s) THEN Was(s[Of(n)]) ELSE T[n]
  BY DEF After
<1>6. \A n \in Numbers : U[n] \in Slot
  <2>. HIDE DEF U, Of
  <2>. QED BY <1>2, <1>3, <1>5, PieceTypes DEF Tops
<1>7. U \in Tops
  <2>1. U = [n \in Numbers |-> U[n]] BY DEF After
  <2>. HIDE DEF U
  <2>. QED BY <1>6, <2>1 DEF Tops
<1>. HIDE DEF U, Of
<1>8. \A k \in DOMAIN s : U[s[k].num] = Was(s[k])
  BY <1>2, <1>4, <1>5
<1>. QED BY <1>5, <1>7, <1>8 DEF Swaps, U

\* A fragment list determines the top it leads to.
LEMMA SwapsOnce ==
    ASSUME NEW T, NEW s, NEW U, NEW W, Swaps(T, s, U), Swaps(T, s, W)
    PROVE  U = W
<1>1. \A n \in Numbers : U[n] = W[n]
  <2>. SUFFICES ASSUME NEW n \in Numbers PROVE U[n] = W[n]
    OBVIOUS
  <2>1. CASE n \in Nums(s) BY <2>1 DEF Swaps, Nums
  <2>2. CASE n \notin Nums(s) BY <2>2 DEF Swaps
  <2>. QED BY <2>1, <2>2
<1>. QED BY <1>1 DEF Swaps, Tops

\* swap_fragments swaps, and what it leaves in the fragments swaps back.
LEMMA SwappedIs ==
    ASSUME NEW d, NEW T, NEW len, HasTop(d, T, len), NEW s \in Entries
    PROVE  LET r == Swapped(d, s) IN
           /\ HasTop(r.doc, After(T, s), len)
           /\ r.frags \in Entries /\ Nums(r.frags) = Nums(s) /\ Len(r.frags) = Len(s)
           /\ Swaps(After(T, s), r.frags, T)
<1>1. PICK index : IsDocument(d, T, index, len) BY DEF HasTop
<1>. DEFINE U == After(T, s)
            r == Swapped(d, s)
<1>2. T \in Tops /\ s \in Seq(Pieces) /\ Once(s) /\ DOMAIN s = 1 .. Len(s)
  BY <1>1 DEF IsDocument, Entries
<1>3. Swaps(T, s, U) /\ U \in Tops BY <1>2, AfterSwaps DEF Swaps
<1>4. CASE s = <<>>
  <2>1. r = [doc |-> d, frags |-> s] BY <1>4 DEF Swapped
  <2>2. Nums(s) = {} BY <1>4 DEF Nums
  <2>3. Swaps(T, s, T) BY <1>2, <1>4, <2>2 DEF Swaps
  <2>4. U = T
    <3>. HIDE DEF U
    <3>. QED BY <1>3, <2>3, SwapsOnce
  <2>. HIDE DEF U, r
  <2>. QED BY <1>3, <2>1, <2>4 DEF U, r
<1>5. CASE s # <<>>
  <2>. DEFINE i  == Incremental(d)
              Of(n) == CHOOSE k \in DOMAIN s : s[k].num = n
              Into(n, e) == IF n \notin Nums(s) THEN e
                            ELSE [type |-> IF s[Of(n)].newobj THEN "none" ELSE "n",
                                  obj  |-> s[Of(n)].inactive]
              to == [n \in Numbers |-> IF n \in Nums(s) THEN 1 ELSE index[n]]
              f  == [k \in DOMAIN s |->
                        LET old == i.sections[1][s[k].num]
                        IN  Fragment(s[k].num, old.type = "none", old.obj)]
              rd == [i EXCEPT !.sections[1] = [n \in Numbers |-> Into(n, @[n])],
                              !.index = [n \in Numbers |->
                                            IF n \in Nums(s) THEN 1 ELSE @[n]]]
  <2>1. r = [doc |-> rd, frags |-> f]
    BY <1>5 DEF Swapped
  <2>2. IsDocument(i, T, index, len) /\ i.incremental BY <1>1, IncrementalIs
  <2>3. /\ i.sections[1] = T /\ i.index = index /\ index \in Indexes
    BY <2>2, SectionsOf DEF IsDocument
  <2>4. [n \in Numbers |-> Into(n, i.sections[1][n])] = U
    <3>1. \A n \in Nums(s) : Of(n) \in DOMAIN s BY DEF Nums
    <3>2. \A n \in Nums(s) : s[Of(n)] \in Pieces BY <1>2, <3>1
    <3>3. \A n \in Nums(s) : Was(s[Of(n)]) =
              [type |-> IF s[Of(n)].newobj THEN "none" ELSE "n", obj |-> s[Of(n)].inactive]
      BY <3>2, PieceTypes
    <3>4. \A n \in Numbers : Into(n, i.sections[1][n])
              = IF n \in Nums(s) THEN Was(s[Of(n)]) ELSE T[n]
      BY <2>3, <3>3
    <3>. HIDE DEF Into
    <3>. QED BY <3>4 DEF After
  <2>5. rd = WithTop(i, U, to)
    <3>. DEFINE ss == i.sections
    <3>1. rd = [i EXCEPT !.sections[1] = U, !.index = to] BY <2>3, <2>4
    <3>. HIDE DEF rd, U, i, to
    <3>. QED BY <3>1 DEF WithTop
  <2>6. to \in Indexes
    <3>1. 1 \in 1 .. Len(File) + 1 BY FileTypes
    <3>. QED BY <2>3, <3>1 DEF Indexes
  <2>7. \A n \in Numbers : to[n] = 1 \/ (to[n] = index[n] /\ U[n] = T[n])
    BY <1>3 DEF Swaps
  <2>8. IsDocument(rd, U, to, len)
    <3>. HIDE DEF rd, U, to, i
    <3>. QED BY <1>3, <2>2, <2>5, <2>6, <2>7, NewTop
  <2>9. ASSUME NEW k \in DOMAIN s
        PROVE  /\ f[k] \in Pieces /\ f[k].num = s[k].num
               /\ Was(f[k]) = T[s[k].num]
    <3>. DEFINE old == T[s[k].num]
    <3>1. s[k].num \in Numbers BY <1>2, PieceTypes
    <3>2. old \in Slot BY <1>2, <3>1 DEF Tops
    <3>3. f[k] = [num |-> s[k].num, newobj |-> (old.type = "none"), inactive |-> old.obj]
      BY <2>3 DEF Fragment
    <3>4. /\ f[k].num = s[k].num /\ f[k].newobj = (old.type = "none")
          /\ f[k].inactive = old.obj
      <4>. HIDE DEF old, f
      <4>. QED BY <3>3
    <3>5. /\ old = Blank <=> old.type = "none"
          /\ old # Blank <=> old.type = "n"
          /\ old # Blank => old.obj \in Contents /\ old.obj # NoObject
          /\ old = [type |-> old.type, obj |-> old.obj]
          /\ old.obj \in Contents \cup {NoObject}
      <4>. HIDE DEF old
      <4>. QED BY <3>2, SlotTypes
    <3>6. old = Blank => old.obj = NoObject BY DEF Blank
    <3>. HIDE DEF old, f
    <3>7. f[k] \in Fragments BY <3>1, <3>3, <3>5 DEF Fragments
    <3>8. f[k].newobj <=> f[k].inactive = NoObject BY <3>4, <3>5, <3>6
    <3>9. f[k] \in Pieces BY <3>7, <3>8 DEF Pieces
    <3>10. Was(f[k]) = old
      <4>1. CASE old = Blank BY <3>4, <3>5, <4>1 DEF Was
      <4>2. CASE old # Blank BY <3>4, <3>5, <4>2 DEF Was
      <4>. QED BY <4>1, <4>2
    <3>. QED BY <3>4, <3>9, <3>10 DEF old
  <2>10. DOMAIN f = 1 .. Len(s) /\ Len(s) \in Nat BY <1>2
  <2>11. f \in Seq(Pieces) /\ Len(f) = Len(s)
    <3>1. f = [k \in 1 .. Len(s) |-> f[k]] BY <1>2
    <3>2. \A k \in 1 .. Len(s) : f[k] \in Pieces BY <1>2, <2>9
    <3>. HIDE DEF f
    <3>. QED BY <2>10, <3>1, <3>2
  <2>. HIDE DEF f
  <2>12. Once(f) BY <1>2, <2>9, <2>10 DEF Once
  <2>13. Nums(f) = Nums(s) BY <1>2, <2>9, <2>10 DEF Nums
  <2>14. Swaps(U, f, T)
    <3>1. \A k \in DOMAIN f : T[f[k].num] = Was(f[k]) BY <1>2, <2>9, <2>10
    <3>2. \A n \in Numbers : n \notin Nums(f) => T[n] = U[n]
      BY <1>3, <2>13 DEF Swaps
    <3>. QED BY <1>2, <3>1, <3>2 DEF Swaps
  <2>15. r.doc = rd /\ r.frags = f
    <3>. HIDE DEF rd, r
    <3>. QED BY <2>1
  <2>. HIDE DEF r, U, rd
  <2>16. HasTop(rd, U, len) BY <2>8 DEF HasTop
  <2>17. f \in Entries BY <2>11, <2>12 DEF Entries
  <2>. QED BY <2>11, <2>13, <2>14, <2>15, <2>16, <2>17 DEF r, U
<1>. QED BY <1>4, <1>5

-----------------------------------------------------------------------------
(* Fragments of two operations as those of one.                            *)

\* What Resolved computes, fragment by fragment.
Resolving(kept, s) ==
    /\ kept[0] = <<>>
    /\ \A k \in 1 .. Len(s) :
          kept[k] = IF s[k].num \in Nums(kept[k - 1]) THEN kept[k - 1]
                    ELSE Append(kept[k - 1], s[k])
    /\ Resolved(s) = kept[Len(s)]

LEMMA FragmentsAreResolved ==
    ASSUME NEW S, NEW s \in Seq(S)
    PROVE  \E kept \in [0 .. Len(s) -> Seq(S)] : Resolving(kept, s)
<1>. DEFINE n == Len(s)
            step == [k \in Nat |-> [t \in Seq(S) |->
                        IF k + 1 \in 1 .. n /\ s[k + 1].num \notin Nums(t)
                        THEN Append(t, s[k + 1]) ELSE t]]
            Is(f) == f = [i \in 0 .. Len(s) |->
                             IF i = 0 THEN <<>>
                             ELSE IF s[i].num \in Nums(f[i - 1]) THEN f[i - 1]
                             ELSE Append(f[i - 1], s[i])]
<1>1. n \in Nat OBVIOUS
<1>2. step \in [Nat -> [Seq(S) -> Seq(S)]]
  <2>. SUFFICES ASSUME NEW k \in Nat, NEW t \in Seq(S)
                PROVE  (IF k + 1 \in 1 .. n /\ s[k + 1].num \notin Nums(t)
                        THEN Append(t, s[k + 1]) ELSE t) \in Seq(S)
    OBVIOUS
  <2>1. k + 1 \in 1 .. n => s[k + 1] \in S OBVIOUS
  <2>. QED BY <2>1
<1>3. <<>> \in Seq(S) OBVIOUS
<1>. HIDE DEF n, step, Is
<1>4. PICK f \in [0 .. n -> Seq(S)] : Runs(f, <<>>, step, n)
  BY <1>1, <1>2, <1>3, RecursionExists
<1>. USE DEF Is
<1>5. ASSUME NEW k \in 1 .. n
      PROVE  f[k] = IF s[k].num \in Nums(f[k - 1]) THEN f[k - 1]
                    ELSE Append(f[k - 1], s[k])
  <2>1. k - 1 \in Nat /\ f[k - 1] \in Seq(S) /\ (k - 1) + 1 = k
    BY <1>1, <1>4
  <2>2. step[k - 1][f[k - 1]] =
          IF k \in 1 .. n /\ s[k].num \notin Nums(f[k - 1]) THEN Append(f[k - 1], s[k])
          ELSE f[k - 1]
    BY <2>1 DEF step
  <2>3. f[k] = step[k - 1][f[k - 1]] BY <1>4 DEF Runs
  <2>. QED BY <2>2, <2>3
<1>6. Is(f)
  <2>. DEFINE g == [i \in 0 .. Len(s) |->
                       IF i = 0 THEN <<>>
                       ELSE IF s[i].num \in Nums(f[i - 1]) THEN f[i - 1]
                       ELSE Append(f[i - 1], s[i])]
  <2>1. ASSUME NEW i \in 0 .. n PROVE f[i] = g[i]
    <3>1. CASE i = 0 BY <3>1, <1>4 DEF n, Runs
    <3>2. CASE i # 0
      <4>1. i \in 1 .. n BY <3>2, <1>1
      <4>. QED BY <3>2, <4>1, <1>5 DEF n
    <3>. QED BY <3>1, <3>2
  <2>2. f = [i \in 0 .. n |-> f[i]] /\ g = [i \in 0 .. n |-> g[i]] BY <1>4 DEF n
  <2>. HIDE DEF g
  <2>3. f = g BY <2>1, <2>2
  <2>. QED BY <2>3 DEF g
<1>. DEFINE kept == CHOOSE g : Is(g)
<1>7. Is(kept) BY <1>6
<1>8. Resolved(s) = kept[Len(s)] BY DEF Resolved
<1>. HIDE DEF kept
<1>9. DOMAIN kept = 0 .. n /\ kept[0] = <<>> BY <1>1, <1>7 DEF n
<1>10. \A k \in 1 .. n : kept[k] = IF s[k].num \in Nums(kept[k - 1]) THEN kept[k - 1]
                                   ELSE Append(kept[k - 1], s[k])
  <2>. SUFFICES ASSUME NEW k \in 1 .. n
                PROVE  kept[k] = IF s[k].num \in Nums(kept[k - 1]) THEN kept[k - 1]
                                 ELSE Append(kept[k - 1], s[k])
    OBVIOUS
  <2>1. k \in 0 .. Len(s) /\ k # 0 BY <1>1 DEF n
  <2>. QED BY <1>7, <2>1
<1>11. \A k \in 0 .. n : kept[k] \in Seq(S)
  <2>. DEFINE P == {k \in Nat : k <= n => kept[k] \in Seq(S)}
  <2>1. 0 \in P BY <1>3, <1>9
  <2>2. ASSUME NEW k \in Nat, k \in P PROVE k + 1 \in P
    <3>. SUFFICES ASSUME k + 1 <= n PROVE kept[k + 1] \in Seq(S)
      OBVIOUS
    <3>1. k + 1 \in 1 .. n /\ k <= n /\ (k + 1) - 1 = k BY <1>1
    <3>2. kept[k] \in Seq(S) /\ s[k + 1] \in S BY <2>2, <3>1 DEF n
    <3>3. kept[k + 1] = IF s[k + 1].num \in Nums(kept[k]) THEN kept[k]
                        ELSE Append(kept[k], s[k + 1])
      BY <1>10, <3>1
    <3>4. Append(kept[k], s[k + 1]) \in Seq(S) BY <3>2
    <3>. QED BY <3>2, <3>3, <3>4
  <2>. HIDE DEF P
  <2>3. \A k \in Nat : k \in P BY <2>1, <2>2, Induction
  <2>. QED BY <1>1, <2>3 DEF P
<1>12. kept \in [0 .. n -> Seq(S)]
  <2>1. kept = [k \in 0 .. n |-> kept[k]] BY <1>7 DEF n
  <2>. QED BY <1>11, <2>1
<1>13. Resolving(kept, s) BY <1>8, <1>9, <1>10 DEF Resolving, n
<1>. QED BY <1>12, <1>13 DEF n

\* The fragment i is the first of its number.
First(s, i) == \A j \in DOMAIN s : j < i => s[j].num # s[i].num

LEMMA ResolvedIs ==
    ASSUME NEW s \in Seq(Pieces)
    PROVE  /\ Resolved(s) \in Entries /\ Nums(Resolved(s)) = Nums(s)
           /\ \A k \in DOMAIN Resolved(s) :
                 \E i \in DOMAIN s : Resolved(s)[k] = s[i] /\ First(s, i)
<1>. DEFINE n == Len(s)
            Upto(k) == {s[i].num : i \in 1 .. k}
<1>1. n \in Nat /\ DOMAIN s = 1 .. n OBVIOUS
<1>2. PICK kept \in [0 .. n -> Seq(Pieces)] : Resolving(kept, s)
  BY FragmentsAreResolved
<1>. DEFINE Good(r, k) == /\ Once(r) /\ Nums(r) = Upto(k)
                          /\ \A m \in DOMAIN r :
                                \E i \in DOMAIN s : r[m] = s[i] /\ First(s, i)
            P == {k \in Nat : k <= n => Good(kept[k], k)}
<1>3. 0 \in P
  <2>1. kept[0] = <<>> /\ DOMAIN <<>> = {} /\ 1 .. 0 = {} BY <1>2 DEF Resolving
  <2>. QED BY <2>1 DEF Once, Nums
<1>4. ASSUME NEW k \in Nat, k \in P PROVE k + 1 \in P
  <2>. SUFFICES ASSUME k + 1 <= n PROVE Good(kept[k + 1], k + 1)
    OBVIOUS
  <2>. DEFINE r == kept[k]
              x == s[k + 1]
              l == Len(r)
  <2>1. k + 1 \in 1 .. n /\ k <= n /\ k \in 0 .. n /\ (k + 1) - 1 = k BY <1>1
  <2>2. r \in Seq(Pieces) /\ l \in Nat /\ DOMAIN r = 1 .. l BY <1>2, <2>1
  <2>3. Good(r, k) BY <1>4, <2>1
  <2>4. Upto(k + 1) = Upto(k) \cup {x.num}
    <3>1. \A i : i \in 1 .. k + 1 <=> i \in 1 .. k \/ i = k + 1 OBVIOUS
    <3>. QED BY <3>1
  <2>5. kept[k + 1] = IF x.num \in Nums(r) THEN r ELSE Append(r, x)
    BY <1>2, <2>1 DEF Resolving
  <2>6. CASE x.num \in Nums(r)
    <3>1. kept[k + 1] = r BY <2>5, <2>6
    <3>2. Nums(r) = Upto(k + 1) BY <2>3, <2>4, <2>6
    <3>. HIDE DEF r, Upto
    <3>. QED BY <2>3, <3>1, <3>2
  <2>7. CASE x.num \notin Nums(r)
    <3>. DEFINE u == Append(r, x)
    <3>1. x \in Pieces BY <1>1, <2>1
    <3>. HIDE DEF r, x
    <3>2. u \in Seq(Pieces) /\ Len(u) = l + 1 BY <2>2, <3>1
    <3>3. DOMAIN u = 1 .. l + 1 BY <2>2, <3>2
    <3>4. u[l + 1] = x /\ \A m \in 1 .. l : u[m] = r[m] BY <2>2, <3>1
    <3>5. \A m \in 1 .. l : r[m].num \in Nums(r) BY <2>2 DEF Nums
    <3>. HIDE DEF u, l
    <3>6. /\ \A m \in 1 .. l + 1 : m \in 1 .. l \/ m = l + 1
          /\ \A m \in 1 .. l : m \in 1 .. l + 1
          /\ l + 1 \in 1 .. l + 1
      <4>1. l \in Nat BY <2>2
      <4>. QED BY <4>1
    <3>7. Nums(u) = Nums(r) \cup {x.num} BY <2>2, <3>3, <3>4, <3>6 DEF Nums
    <3>8. Once(u)
      <4>. SUFFICES ASSUME NEW i \in 1 .. l + 1, NEW j \in 1 .. l + 1,
                           u[i].num = u[j].num
                    PROVE  i = j
        BY <3>3 DEF Once
      <4>1. CASE i \in 1 .. l /\ j \in 1 .. l BY <2>2, <2>3, <3>4, <4>1 DEF Once
      <4>2. CASE i = l + 1 /\ j = l + 1 BY <4>2
      <4>3. CASE i \in 1 .. l /\ j = l + 1 BY <2>7, <3>4, <3>5, <4>3
      <4>4. CASE i = l + 1 /\ j \in 1 .. l BY <2>7, <3>4, <3>5, <4>4
      <4>. QED BY <3>6, <4>1, <4>2, <4>3, <4>4
    <3>9. First(s, k + 1)
      <4>. SUFFICES ASSUME NEW j \in 1 .. n, j < k + 1 PROVE s[j].num # x.num
        BY <1>1 DEF First, x
      <4>1. j \in 1 .. k OBVIOUS
      <4>2. s[j].num \in Upto(k) BY <4>1
      <4>. HIDE DEF Upto
      <4>. QED BY <2>3, <2>7, <4>2
    <3>10. \A m \in DOMAIN u : \E i \in DOMAIN s : u[m] = s[i] /\ First(s, i)
      <4>. SUFFICES ASSUME NEW m \in 1 .. l + 1
                    PROVE  \E i \in DOMAIN s : u[m] = s[i] /\ First(s, i)
        BY <3>3
      <4>1. CASE m \in 1 .. l BY <2>2, <2>3, <3>4, <4>1
      <4>2. CASE m = l + 1 BY <1>1, <2>1, <3>4, <3>9, <4>2 DEF x
      <4>. QED BY <3>6, <4>1, <4>2
    <3>11. kept[k + 1] = u BY <2>5, <2>7 DEF u
    <3>. HIDE DEF Upto
    <3>12. Nums(u) = Upto(k + 1) BY <2>3, <2>4, <3>7
    <3>. QED BY <3>8, <3>10, <3>11, <3>12
  <2>. QED BY <2>6, <2>7
<1>5. Good(kept[n], n)
  <2>. HIDE DEF P, Good
  <2>1. \A k \in Nat : k \in P BY <1>3, <1>4, Induction
  <2>. USE DEF P
  <2>. QED BY <1>1, <2>1
<1>6. Upto(n) = Nums(s) BY <1>1 DEF Nums
<1>7. Resolved(s) = kept[n] /\ kept[n] \in Seq(Pieces) BY <1>1, <1>2 DEF Resolving
<1>. HIDE DEF Upto, n
<1>. QED BY <1>5, <1>6, <1>7 DEF Entries

\* The fragments of two operations in a row, as pdf_end_operation glues them.
Glued(a, b) ==
    IF b = <<>> THEN a ELSE IF a = <<>> THEN b ELSE Resolved(a \o b)

\* Undoing two operations at once is undoing the later, then the earlier.
LEMMA GluedIs ==
    ASSUME NEW a \in Entries, NEW b \in Entries
    PROVE  /\ Glued(a, b) \in Entries
           /\ Nums(Glued(a, b)) = Nums(a) \cup Nums(b)
           /\ a # <<>> \/ b # <<>> => Glued(a, b) # <<>>
           /\ \A T, U, W : Swaps(T, b, U) /\ Swaps(U, a, W) => Swaps(T, Glued(a, b), W)
<1>1. a \in Seq(Pieces) /\ b \in Seq(Pieces) BY DEF Entries
<1>2. Nums(<<>>) = {} BY DEF Nums
<1>3. CASE b = <<>>
  <2>1. Glued(a, b) = a BY <1>3 DEF Glued
  <2>2. ASSUME NEW T, NEW U, NEW W, Swaps(T, b, U), Swaps(U, a, W)
        PROVE  Swaps(T, a, W)
    BY <1>2, <1>3, <2>2 DEF Swaps
  <2>. QED BY <1>2, <1>3, <2>1, <2>2
<1>4. CASE a = <<>> /\ b # <<>>
  <2>1. Glued(a, b) = b BY <1>4 DEF Glued
  <2>2. ASSUME NEW T, NEW U, NEW W, Swaps(T, b, U), Swaps(U, a, W)
        PROVE  Swaps(T, b, W)
    <3>1. \A n \in Numbers : W[n] = U[n] BY <1>2, <1>4, <2>2 DEF Swaps
    <3>2. \A k \in DOMAIN b : b[k].num \in Numbers BY <1>1, PieceTypes
    <3>. QED BY <2>2, <3>1, <3>2 DEF Swaps
  <2>. QED BY <1>2, <1>4, <2>1, <2>2
<1>5. CASE a # <<>> /\ b # <<>>
  <2>. DEFINE s == a \o b
              r == Resolved(s)
              m == Len(a)
              n == Len(b)
  <2>1. m \in Nat /\ n \in Nat /\ DOMAIN a = 1 .. m /\ DOMAIN b = 1 .. n /\ m # 0
    BY <1>1, <1>5
  <2>2. s \in Seq(Pieces) /\ DOMAIN s = 1 .. m + n BY <1>1
  <2>3. /\ \A i \in 1 .. m : s[i] = a[i]
        /\ \A i \in 1 .. n : s[m + i] = b[i]
    BY <1>1
  <2>. HIDE DEF s
  <2>4. /\ r \in Entries /\ Nums(r) = Nums(s)
        /\ \A k \in DOMAIN r : \E i \in DOMAIN s : r[k] = s[i] /\ First(s, i)
    BY <2>2, ResolvedIs
  <2>5. Glued(a, b) = r BY <1>5 DEF Glued, s
  <2>. HIDE DEF r, m, n
  <2>6. \A i \in 1 .. m + n : i \in 1 .. m \/ (i - m \in 1 .. n /\ i = m + (i - m))
    BY <2>1
  <2>7. Nums(s) = Nums(a) \cup Nums(b)
    <3>1. \A i \in 1 .. m : i \in 1 .. m + n BY <2>1
    <3>2. \A i \in 1 .. n : m + i \in 1 .. m + n BY <2>1
    <3>3. Nums(a) \subseteq Nums(s) BY <2>1, <2>2, <2>3, <3>1 DEF Nums
    <3>4. Nums(b) \subseteq Nums(s) BY <2>1, <2>2, <2>3, <3>2 DEF Nums
    <3>5. \A i \in 1 .. m + n : s[i].num \in Nums(a) \cup Nums(b)
      <4>. SUFFICES ASSUME NEW i \in 1 .. m + n PROVE s[i].num \in Nums(a) \cup Nums(b)
        OBVIOUS
      <4>1. CASE i \in 1 .. m BY <2>1, <2>3, <4>1 DEF Nums
      <4>2. CASE i - m \in 1 .. n /\ i = m + (i - m)
        <5>1. s[i] = b[i - m] BY <2>3, <4>2
        <5>. QED BY <2>1, <4>2, <5>1 DEF Nums
      <4>. QED BY <2>6, <4>1, <4>2
    <3>6. Nums(s) \subseteq Nums(a) \cup Nums(b) BY <2>2, <3>5 DEF Nums
    <3>. QED BY <3>3, <3>4, <3>6
  <2>8. r # <<>>
    <3>1. 1 \in DOMAIN a BY <2>1
    <3>2. Nums(a) # {} BY <3>1 DEF Nums
    <3>. QED BY <1>2, <2>4, <2>7, <3>2
  <2>9. ASSUME NEW T, NEW U, NEW W, Swaps(T, b, U), Swaps(U, a, W)
        PROVE  Swaps(T, r, W)
    <3>1. W \in Tops BY <2>9 DEF Swaps
    <3>2. ASSUME NEW k \in DOMAIN r PROVE W[r[k].num] = Was(r[k])
      <4>1. PICK i \in 1 .. m + n : r[k] = s[i] /\ First(s, i) BY <2>2, <2>4
      <4>2. CASE i \in 1 .. m
        <5>1. s[i] = a[i] BY <2>3, <4>2
        <5>. QED BY <2>1, <2>9, <4>1, <4>2, <5>1 DEF Swaps
      <4>3. CASE i \notin 1 .. m
        <5>1. i - m \in 1 .. n /\ i = m + (i - m) BY <2>6, <4>3
        <5>2. s[i] = b[i - m] BY <2>3, <5>1
        <5>3. \A j \in 1 .. m : j \in 1 .. m + n /\ j < i BY <2>1, <4>3
        <5>4. \A j \in 1 .. m : a[j].num # s[i].num
          BY <2>2, <2>3, <4>1, <5>3 DEF First
        <5>5. s[i].num \notin Nums(a) BY <2>1, <5>4 DEF Nums
        <5>6. s[i].num \in Numbers BY <1>1, <2>1, <5>1, <5>2, PieceTypes
        <5>7. W[s[i].num] = U[s[i].num] BY <2>9, <5>5, <5>6 DEF Swaps
        <5>8. U[b[i - m].num] = Was(b[i - m]) BY <2>1, <2>9, <5>1 DEF Swaps
        <5>. QED BY <4>1, <5>2, <5>7, <5>8
      <4>. QED BY <4>2, <4>3
    <3>3. ASSUME NEW x \in Numbers, x \notin Nums(r) PROVE W[x] = T[x]
      <4>1. x \notin Nums(a) /\ x \notin Nums(b) BY <2>4, <2>7, <3>3
      <4>. QED BY <2>9, <4>1 DEF Swaps
    <3>. QED BY <3>1, <3>2, <3>3 DEF Swaps
  <2>. QED BY <1>5, <2>4, <2>5, <2>7, <2>8, <2>9
<1>. QED BY <1>3, <1>4, <1>5

-----------------------------------------------------------------------------
(* What the operations do to a document.                                   *)

\* What a top shows of every object.
Sight(T) == [n \in Numbers |-> Effective(T, n).obj]

LEMMA EffectiveTypes ==
    ASSUME NEW T \in Tops, NEW n \in Numbers
    PROVE  /\ Effective(T, n) \in Slot
           /\ Effective(T, n).obj \in Contents \cup {NoObject}
           /\ Effective(T, n).type = "n" <=> Effective(T, n) # Blank
<1>1. Stored(n) \in Slot
  <2>. DEFINE F == {k \in DOMAIN File : File[k][n].type # "none"}
  <2>1. F \in SUBSET Nat BY FileTypes
  <2>2. F # {} => Min(F) \in F
    <3>. HIDE DEF F
    <3>. QED BY <2>1, MinIsLeast
  <2>3. \A k \in F : File[k][n] \in Slot BY FileTypes DEF Tops
  <2>. QED BY <2>2, <2>3 DEF Stored, Slot
<1>2. T[n] \in Slot BY DEF Tops
<1>3. Effective(T, n) \in Slot BY <1>1, <1>2 DEF Effective
<1>. QED BY <1>3, SlotTypes

\* Reading shows what the top shows.
LEMMA ReadIs ==
    ASSUME NEW d, NEW T, NEW len, HasTop(d, T, len)
    PROVE  /\ Read(d) = Sight(T) /\ Read(d) \in [Numbers -> Contents \cup {NoObject}]
           /\ Seen(d) = [n \in Originals |-> Sight(T)[n]]
           /\ Seen(d) \in [Originals -> Contents \cup {NoObject}]
           /\ Readable(d) = {n \in Numbers : Effective(T, n) # Blank}
           /\ \A n \in Numbers : Entry(d, n) = Effective(T, n)
<1>1. PICK index : IsDocument(d, T, index, len) BY DEF HasTop
<1>2. \A n \in Numbers : Entry(d, n) = Effective(T, n) BY <1>1, DefiningIs
<1>3. \A n \in Numbers : /\ Effective(T, n).obj \in Contents \cup {NoObject}
                         /\ Effective(T, n).type = "n" <=> Effective(T, n) # Blank
  BY <1>1, EffectiveTypes DEF IsDocument
<1>4. Originals \subseteq Numbers BY DEF Originals
<1>. QED BY <1>2, <1>3, <1>4 DEF Read, Sight, Seen, Readable

\* Remembering where an object was found leads past no definition.
LEMMA LoadIs ==
    ASSUME NEW d, NEW T, NEW len, HasTop(d, T, len), NEW n \in Numbers
    PROVE  HasTop([d EXCEPT !.index[n] = IF Defining(d, n) = {} THEN 1
                                         ELSE Min(Defining(d, n))], T, len)
<1>. DEFINE D == Defining(d, n)
            m == IF D = {} THEN 1 ELSE Min(D)
            L == Len(File)
            e == [d EXCEPT !.index[n] = m]
<1>1. PICK index : IsDocument(d, T, index, len) BY DEF HasTop
<1>2. /\ D \subseteq 1 .. Len(d.sections)
      /\ D # {} => /\ Min(D) \in D
                   /\ \A i \in 1 .. Len(d.sections) : i < Min(D) => d.sections[i][n] = Blank
  BY <1>1, DefiningIs
<1>3. /\ T \in Tops /\ index \in Indexes /\ d \in Documents /\ L \in Nat \ {0}
  BY <1>1, FileTypes DEF IsDocument
<1>4. Len(d.sections) \in Nat \ {0}
  BY <1>1, <1>3, SectionsOf DEF IsDocument
<1>5. /\ m \in 1 .. Len(d.sections)
      /\ \A i \in 1 .. Len(d.sections) : i < m => d.sections[i][n] = Blank
  <2>1. CASE D = {}
    <3>1. m = 1 BY <2>1
    <3>. HIDE DEF m
    <3>. QED BY <1>4, <3>1
  <2>2. CASE D # {}
    <3>1. m = Min(D) /\ m \in D BY <1>2, <2>2
    <3>. QED BY <1>2, <2>2, <3>1
  <2>. QED BY <2>1, <2>2
<1>. HIDE DEF m, D
<1>. DEFINE dx == [d.index EXCEPT ![n] = m]
<1>6. m \in Nat /\ dx \in [Numbers -> Nat] BY <1>3, <1>5 DEF Documents
<1>7. e = [d EXCEPT !.index = dx] OBVIOUS
<1>8. /\ dx[n] = m /\ \A k \in Numbers : k # n => dx[k] = d.index[k]
  BY <1>3 DEF Documents
<1>. HIDE DEF dx
<1>9. /\ e \in Documents /\ e.len = d.len /\ e.sections = d.sections
      /\ e.incremental = d.incremental /\ e.index = dx
  <2>. HIDE DEF e
  <2>. QED BY <1>3, <1>6, <1>7 DEF Documents
<1>. HIDE DEF e
<1>10. CASE d.incremental
  <2>1. d.sections = <<T>> \o File /\ d.index = index BY <1>1, <1>10 DEF IsDocument
  <2>2. /\ Len(d.sections) = L + 1 /\ d.sections[1] = T
        /\ \A i \in 1 .. L : d.sections[i + 1] = File[i]
    BY <1>3, <2>1, SectionsOf
  <2>3. dx \in Indexes
    <3>1. \A k \in Numbers : dx[k] \in 1 .. L + 1
      BY <1>3, <1>5, <1>8, <2>1, <2>2 DEF Indexes
    <3>2. dx = [k \in Numbers |-> dx[k]] BY <1>6
    <3>. QED BY <3>1, <3>2 DEF Indexes
  <2>4. Leads(T, dx)
    <3>. SUFFICES ASSUME NEW k \in Numbers
                  PROVE  /\ dx[k] > 1 => T[k] = Blank
                         /\ \A j \in 1 .. L : j + 1 < dx[k] => File[j][k] = Blank
      BY DEF Leads
    <3>1. CASE k = n
      <4>1. m > 1 => T[n] = Blank BY <1>3, <1>5, <1>6, <2>2
      <4>2. ASSUME NEW j \in 1 .. L, j + 1 < m PROVE File[j][n] = Blank
        BY <1>3, <1>5, <2>2, <4>2
      <4>. QED BY <1>8, <3>1, <4>1, <4>2
    <3>2. CASE k # n
      BY <1>1, <1>8, <2>1, <3>2 DEF IsDocument, Leads
    <3>. QED BY <3>1, <3>2
  <2>5. IsDocument(e, T, dx, len)
    BY <1>1, <1>3, <1>9, <1>10, <2>1, <2>3, <2>4 DEF IsDocument
  <2>. QED BY <2>5 DEF HasTop, e, m, D
<1>11. CASE ~d.incremental
  <2>. DEFINE to == [index EXCEPT ![n] = m + 1]
  <2>1. /\ d.sections = File /\ T = BlankTop
        /\ \A k \in Numbers : index[k] = d.index[k] + 1 /\ index[k] > 1
    BY <1>1, <1>11 DEF IsDocument
  <2>2. to[n] = m + 1 /\ \A k \in Numbers : k # n => to[k] = index[k]
    BY <1>3 DEF Indexes
  <2>3. to \in Indexes
    <3>1. m + 1 \in 1 .. L + 1 BY <1>3, <1>5, <2>1
    <3>. QED BY <1>3, <3>1 DEF Indexes
  <2>. HIDE DEF to
  <2>4. \A k \in Numbers : to[k] = dx[k] + 1 /\ to[k] > 1
    BY <1>5, <1>6, <1>8, <2>1, <2>2
  <2>5. Leads(T, to)
    <3>. SUFFICES ASSUME NEW k \in Numbers
                  PROVE  /\ to[k] > 1 => T[k] = Blank
                         /\ \A j \in 1 .. L : j + 1 < to[k] => File[j][k] = Blank
      BY DEF Leads
    <3>1. T[k] = Blank BY <2>1 DEF BlankTop
    <3>2. CASE k = n
      <4>1. ASSUME NEW j \in 1 .. L, j + 1 < m + 1 PROVE File[j][n] = Blank
        <5>1. j < m BY <1>3, <1>6, <4>1
        <5>. QED BY <1>5, <2>1, <5>1
      <4>. QED BY <2>2, <3>1, <3>2, <4>1
    <3>3. CASE k # n
      BY <1>1, <2>2, <3>1, <3>3 DEF IsDocument, Leads
    <3>. QED BY <3>2, <3>3
  <2>6. IsDocument(e, T, to, len)
    BY <1>1, <1>3, <1>9, <1>11, <2>1, <2>3, <2>4, <2>5 DEF IsDocument
  <2>. QED BY <2>6 DEF HasTop, e, m, D
<1>. QED BY <1>10, <1>11

LEMMA LongerIs ==
    ASSUME NEW d, NEW T, NEW len, HasTop(d, T, len), NEW m \in 0 .. MaxObject
    PROVE  HasTop([d EXCEPT !.len = m], T, m)
<1>1. PICK index : IsDocument(d, T, index, len) BY DEF HasTop
<1>. DEFINE e == [d EXCEPT !.len = m]
<1>2. /\ e \in Documents /\ e.len = m /\ e.sections = d.sections
      /\ e.incremental = d.incremental /\ e.index = d.index
  BY <1>1, FileTypes DEF IsDocument, Documents
<1>. HIDE DEF e
<1>3. IsDocument(e, T, index, m) BY <1>1, <1>2 DEF IsDocument
<1>. QED BY <1>3 DEF HasTop, e

LEMMA OpenedIs ==
    LET d == [sections |-> File, index |-> [n \in Numbers |-> 1],
              incremental |-> FALSE, len |-> Max(Originals \cup {0})]
    IN  /\ HasTop(d, BlankTop, d.len)
        /\ \A n \in Numbers : n > d.len => n \notin Originals
<1>. DEFINE m == Max(Originals \cup {0})
            d == [sections |-> File, index |-> [n \in Numbers |-> 1],
                  incremental |-> FALSE, len |-> m]
            O == Originals \cup {0}
<1>1. MaxObject \in Nat /\ O \subseteq 0 .. MaxObject /\ 0 \in O
  BY FileTypes DEF Originals, Numbers
<1>2. m \in O /\ \A x \in O : x <= m
  <2>. HIDE DEF O
  <2>1. \E x \in O : \A y \in O : y <= x
    <3>. DEFINE U == {MaxObject - x : x \in O}
    <3>1. \A x \in O : x \in Nat /\ MaxObject - x \in Nat BY <1>1
    <3>2. U \in SUBSET Nat /\ U # {} BY <1>1, <3>1
    <3>3. PICK u \in U : \A w \in U : u <= w BY <3>2, LeastExists
    <3>4. PICK x \in O : u = MaxObject - x OBVIOUS
    <3>5. \A y \in O : MaxObject - x <= MaxObject - y BY <3>3, <3>4
    <3>6. \A y \in O : y <= x BY <1>1, <3>1, <3>5
    <3>. QED BY <3>6
  <2>2. m = CHOOSE x \in O : \A y \in O : y <= x BY DEF Max, O
  <2>. QED BY <2>1, <2>2
<1>. HIDE DEF m
<1>3. d \in Documents /\ d.len = m /\ d.sections = File /\ ~d.incremental
      /\ \A n \in Numbers : d.index[n] = 1
  <2>1. File \in Seq(Tops) BY FileTypes
  <2>2. m \in Nat BY <1>1, <1>2
  <2>. QED BY <2>1, <2>2 DEF Documents
<1>. HIDE DEF d
<1>. DEFINE to == [n \in Numbers |-> 2]
<1>4. to \in Indexes BY FileTypes DEF Indexes
<1>5. BlankTop \in Tops BY DEF BlankTop, Tops, Slot
<1>6. Leads(BlankTop, to)
  <2>. SUFFICES ASSUME NEW n \in Numbers
                PROVE  /\ BlankTop[n] = Blank
                       /\ \A j \in 1 .. Len(File) : ~(j + 1 < 2)
    BY DEF Leads
  <2>. QED BY FileTypes DEF BlankTop
<1>7. IsDocument(d, BlankTop, to, m)
  BY <1>1, <1>2, <1>3, <1>4, <1>5, <1>6 DEF IsDocument
<1>8. HasTop(d, BlankTop, d.len) BY <1>3, <1>7 DEF HasTop
<1>9. \A n \in Numbers : n > m => n \notin Originals
  <2>1. \A x \in Originals : x <= m BY <1>2
  <2>. QED BY <1>1, <1>2, <2>1 DEF Numbers
<1>. QED BY <1>3, <1>8, <1>9 DEF d, m

-----------------------------------------------------------------------------
(* Every document of a behaviour has a top, and entries of the journal say *)
(* which object they are about once and whether it was new.                *)

Shown == [Numbers -> Contents \cup {NoObject}]

ShownOriginals == [Originals -> Contents \cup {NoObject}]

Operations == [titled : BOOLEAN, frags : Entries]

Shape ==
    /\ HasTop(doc, TopOf(doc), doc.len)
    /\ hist \in Seq(Entries \ {<<>>}) /\ current \in 0 .. Len(hist)
    /\ pending \in Seq(Operations)
    /\ begun \in Seq(Shown) /\ Len(begun) = nesting
    /\ line \in Seq(ShownOriginals) /\ Len(line) = Len(hist) + 1
    /\ changes \in 0 .. MaxChanges

\* No object and no fragment has a number that is still to be given out.
Known(T, len, h, p) ==
    /\ \A n \in Numbers : n > len => Effective(T, n) = Blank
    /\ \A k \in DOMAIN h : Nums(h[k]) \subseteq 1 .. len
    /\ \A k \in DOMAIN p : Nums(p[k].frags) \subseteq 1 .. len

Sane == Shape /\ Known(TopOf(doc), doc.len, hist, pending)

\* The object n has been given other contents, and what it was is stashed.
Wrote(n, c) ==
    /\ nesting > 0
    /\ doc'.len \in 0 .. MaxObject /\ doc'.len >= doc.len /\ n <= doc'.len
    /\ HasTop(doc', [TopOf(doc) EXCEPT ![n] = [type |-> "n", obj |-> c]], doc'.len)
    /\ IF n \in Nums(Latest) THEN UNCHANGED pending
       ELSE \E f \in Pieces :
               /\ f.num = n /\ Was(f) = TopOf(doc)[n]
               /\ Stash(f)

LEMMA ShapeTypes ==
    ASSUME Shape
    PROVE  /\ TopOf(doc) \in Tops /\ doc.len \in 0 .. MaxObject
           /\ nesting \in Nat /\ DOMAIN pending = 1 .. nesting
           /\ \A k \in 1 .. nesting : /\ pending[k] \in Operations
                                      /\ pending[k].frags \in Entries
                                      /\ pending[k].titled \in BOOLEAN
           /\ nesting > 0 => Latest \in Entries
           /\ Len(hist) \in Nat /\ DOMAIN hist = 1 .. Len(hist)
           /\ \A k \in 1 .. Len(hist) : hist[k] \in Entries /\ hist[k] # <<>>
           /\ \A s \in Entries : Nums(s) \subseteq Numbers
<1>1. TopOf(doc) \in Tops /\ doc.len \in 0 .. MaxObject
  BY DEF Shape, HasTop, IsDocument
<1>2. nesting \in Nat /\ DOMAIN pending = 1 .. nesting
  BY DEF Shape, nesting
<1>3. \A k \in 1 .. nesting : pending[k] \in Operations
  BY DEF Shape, nesting
<1>4. \A o \in Operations : o.frags \in Entries /\ o.titled \in BOOLEAN
  BY DEF Operations
<1>5. nesting > 0 => Latest \in Entries
  <2>1. nesting > 0 => nesting \in 1 .. nesting BY <1>2
  <2>. QED BY <1>3, <1>4, <2>1 DEF Latest
<1>6. Len(hist) \in Nat /\ DOMAIN hist = 1 .. Len(hist)
  BY DEF Shape
<1>7. \A k \in 1 .. Len(hist) : hist[k] \in Entries /\ hist[k] # <<>>
  BY DEF Shape
<1>8. \A s \in Entries : Nums(s) \subseteq Numbers
  BY PieceTypes DEF Entries, Nums
<1>. QED BY <1>1, <1>2, <1>3, <1>4, <1>5, <1>6, <1>7, <1>8

\* Stashing one fragment more.
LEMMA StashIs ==
    ASSUME Shape, nesting > 0, NEW f \in Pieces, f.num \notin Nums(Latest), Stash(f)
    PROVE  LET s == Append(Latest, f) IN
           /\ pending' \in Seq(Operations) /\ Len(pending') = nesting
           /\ DOMAIN pending' = 1 .. nesting
           /\ \A k \in 1 .. nesting : pending'[k].titled = pending[k].titled
           /\ \A k \in 1 .. nesting - 1 : pending'[k] = pending[k]
           /\ pending'[nesting].frags = s /\ s \in Entries
           /\ s # <<>> /\ Nums(s) = Nums(Latest) \cup {f.num}
           /\ \A T, U : /\ Swaps(T, Latest, U)
                        /\ T \in Tops
                        => \A e \in Slot : Was(f) = T[f.num]
                              => Swaps([T EXCEPT ![f.num] = e], s, U)
<1>. DEFINE s == Append(Latest, f)
            l == Len(Latest)
            o == pending[nesting]
<1>1. /\ nesting \in 1 .. nesting /\ nesting \in Nat /\ DOMAIN pending = 1 .. nesting
      /\ Latest \in Entries /\ o \in Operations /\ pending \in Seq(Operations)
      /\ Len(pending) = nesting
  BY ShapeTypes DEF Shape, nesting
<1>2. Latest \in Seq(Pieces) /\ Once(Latest) /\ l \in Nat /\ DOMAIN Latest = 1 .. l
  BY <1>1 DEF Entries
<1>3. /\ s \in Seq(Pieces) /\ Len(s) = l + 1 /\ DOMAIN s = 1 .. l + 1
      /\ s[l + 1] = f /\ \A i \in 1 .. l : s[i] = Latest[i]
  <2>. HIDE DEF Latest
  <2>. QED BY <1>2
<1>4. s # <<>> BY <1>2, <1>3
<1>. HIDE DEF s, l, nesting, Latest
<1>5. \A i \in 1 .. l + 1 : i \in 1 .. l \/ i = l + 1
  BY <1>2
<1>6. \A i \in 1 .. l : i \in 1 .. l + 1
  BY <1>2
<1>7. l + 1 \in 1 .. l + 1
  BY <1>2
<1>8. Nums(s) = Nums(Latest) \cup {f.num}
  BY <1>2, <1>3, <1>5, <1>6, <1>7 DEF Nums
<1>9. \A i \in 1 .. l : Latest[i].num # f.num
  BY <1>2 DEF Nums
<1>10. Once(s)
  <2>. SUFFICES ASSUME NEW i \in 1 .. l + 1, NEW j \in 1 .. l + 1, s[i].num = s[j].num
                PROVE  i = j
    BY <1>3 DEF Once
  <2>1. CASE i \in 1 .. l /\ j \in 1 .. l BY <1>2, <1>3, <2>1 DEF Once
  <2>2. CASE i = l + 1 /\ j = l + 1 BY <2>2
  <2>3. CASE i \in 1 .. l /\ j = l + 1 BY <1>3, <1>9, <2>3
  <2>4. CASE i = l + 1 /\ j \in 1 .. l BY <1>3, <1>9, <2>4
  <2>. QED BY <1>5, <2>1, <2>2, <2>3, <2>4
<1>11. s \in Entries BY <1>3, <1>10 DEF Entries
<1>. DEFINE x == [o EXCEPT !.frags = s]
<1>12. pending' = [pending EXCEPT ![nesting] = x]
  BY <1>1 DEF Stash, s, Latest
<1>13. /\ x \in Operations /\ x.titled = o.titled /\ x.frags = s
  <2>. HIDE DEF o
  <2>. QED BY <1>1, <1>11 DEF Operations
<1>. HIDE DEF x
<1>14. /\ pending' \in Seq(Operations) /\ Len(pending') = nesting
       /\ DOMAIN pending' = 1 .. nesting
  BY <1>1, <1>12, <1>13
<1>15. /\ \A k \in 1 .. nesting : k # nesting => pending'[k] = pending[k]
       /\ pending'[nesting] = x
  BY <1>1, <1>12
<1>16. \A k \in 1 .. nesting : pending'[k].titled = pending[k].titled
  BY <1>13, <1>15
<1>17. \A k \in 1 .. nesting - 1 : k \in 1 .. nesting /\ k # nesting
  BY <1>1
<1>18. ASSUME NEW T, NEW U, Swaps(T, Latest, U), T \in Tops, NEW e \in Slot,
              Was(f) = T[f.num]
       PROVE  Swaps([T EXCEPT ![f.num] = e], s, U)
  <2>1. f.num \in Numbers BY PieceTypes
  <2>2. U[f.num] = T[f.num] BY <1>18, <2>1 DEF Swaps
  <2>3. \A i \in 1 .. l : U[Latest[i].num] = Was(Latest[i]) BY <1>2, <1>18 DEF Swaps
  <2>4. \A i \in 1 .. l + 1 : U[s[i].num] = Was(s[i])
    BY <1>3, <1>5, <1>18, <2>2, <2>3
  <2>5. ASSUME NEW n \in Numbers, n \notin Nums(s)
        PROVE  U[n] = [T EXCEPT ![f.num] = e][n]
    <3>1. n # f.num /\ n \notin Nums(Latest) BY <1>8, <2>5
    <3>2. [T EXCEPT ![f.num] = e][n] = T[n] BY <1>18, <3>1 DEF Tops
    <3>. QED BY <1>18, <3>1, <3>2 DEF Swaps
  <2>. QED BY <1>3, <1>18, <2>4, <2>5 DEF Swaps
<1>. HIDE DEF o
<1>. QED BY <1>4, <1>8, <1>11, <1>13, <1>14, <1>15, <1>16, <1>17, <1>18 DEF s

-----------------------------------------------------------------------------
(* The operations that write an object.                                    *)

LEMMA AddObjectWrites ==
    ASSUME Sane, NEW v \in Values, AddObject(v)
    PROVE  /\ doc.len + 1 \in Numbers /\ Wrote(doc.len + 1, v) /\ v \in Contents
           /\ Effective(TopOf(doc), doc.len + 1) = Blank /\ TopOf(doc)[doc.len + 1] = Blank
           /\ Stored(doc.len + 1) = Blank
           /\ doc'.len = doc.len + 1
<1>. DEFINE n == doc.len + 1
            T == TopOf(doc)
            f == Fragment(n, TRUE, NoObject)
            d == Put(doc, n, "n", v)
            W == [T EXCEPT ![n] = [type |-> "n", obj |-> v]]
<1>1. /\ n \in Numbers /\ nesting > 0 /\ Stash(f) /\ doc' = [d EXCEPT !.len = n]
  BY DEF AddObject
<1>2. doc.len \in 0 .. MaxObject /\ T \in Tops /\ MaxObject \in Nat
  BY ShapeTypes, FileTypes DEF Sane
<1>3. n > doc.len /\ n \in 0 .. MaxObject /\ ~(n \in 1 .. doc.len)
  BY <1>1, <1>2 DEF Numbers
<1>4. Effective(T, n) = Blank /\ T[n] = Blank /\ Stored(n) = Blank
  <2>1. Effective(T, n) = Blank BY <1>1, <1>3 DEF Sane, Known
  <2>. HIDE DEF T, n
  <2>. QED BY <2>1 DEF Effective
<1>5. v \in Contents /\ [type |-> "n", obj |-> v] \in Slot
  BY DEF Contents, Slot
<1>6. HasTop(doc, T, doc.len) BY DEF Sane, Shape
<1>. HIDE DEF T, n, d, W
<1>7. HasTop(d, W, doc.len)
  BY <1>1, <1>5, <1>6, PutIs DEF d, W
<1>8. HasTop(doc', W, n)
  BY <1>1, <1>3, <1>7, LongerIs
<1>9. doc'.len = n BY <1>8, TopIs
<1>10. n \notin Nums(Latest)
  <2>1. nesting \in 1 .. nesting /\ DOMAIN pending = 1 .. nesting
    BY <1>1, ShapeTypes DEF Sane
  <2>2. Nums(Latest) \subseteq 1 .. doc.len
    BY <2>1 DEF Sane, Known, Latest
  <2>. QED BY <1>3, <2>2
<1>11. f \in Pieces /\ f.num = n /\ Was(f) = T[n]
  <2>0. PICK yes \in BOOLEAN : yes = TRUE OBVIOUS
  <2>1. f = [num |-> n, newobj |-> yes, inactive |-> NoObject] BY <2>0 DEF Fragment
  <2>2. f.num = n /\ f.newobj /\ f.inactive = NoObject
    <3>. HIDE DEF f
    <3>. QED BY <2>0, <2>1
  <2>3. f \in Fragments
    <3>. HIDE DEF f
    <3>. QED BY <1>1, <2>1 DEF Fragments
  <2>4. f \in Pieces BY <2>2, <2>3 DEF Pieces
  <2>. HIDE DEF f
  <2>. QED BY <1>4, <2>2, <2>4 DEF Was
<1>12. /\ doc'.len \in 0 .. MaxObject /\ doc'.len >= doc.len /\ n <= doc'.len
       /\ HasTop(doc', W, doc'.len)
  BY <1>2, <1>3, <1>8, <1>9
<1>. HIDE DEF f
<1>13. Wrote(n, v)
  BY <1>1, <1>10, <1>11, <1>12 DEF Wrote, T, W
<1>. QED BY <1>1, <1>4, <1>5, <1>9, <1>13 DEF n, T

\* What callers put into objects.
LEMMA AvailableTypes ==
    ASSUME Shape, NEW c \in Available
    PROVE  /\ c \in Contents
           /\ c \in Numbers => c \notin Originals /\ Effective(TopOf(doc), c) # Blank
<1>1. Readable(doc) = {n \in Numbers : Effective(TopOf(doc), n) # Blank}
  BY ReadIs DEF Shape
<1>2. Values \cap Numbers = {} BY FileAssumption
<1>. QED BY <1>1, <1>2 DEF Available, Contents

LEMMA AlterWrites ==
    ASSUME Sane, NEW n \in Numbers, NEW c \in Available, Alter(n, c)
    PROVE  Wrote(n, c) /\ doc'.len = doc.len /\ Effective(TopOf(doc), n) # Blank
<1>. DEFINE T == TopOf(doc)
            E == Effective(T, n)
            d == EnsureIncrementalObject(doc, n)
            isNew == Elsewhere(Incremental(doc), n)
            U == [T EXCEPT ![n] = E]
            W == [T EXCEPT ![n] = [type |-> "n", obj |-> c]]
            f == Fragment(n, isNew, IF isNew THEN NoObject ELSE Entry(d, n).obj)
<1>1. /\ nesting > 0 /\ n \in Readable(doc)
      /\ IF n \in Nums(Latest) THEN UNCHANGED pending ELSE Stash(f)
      /\ doc' = [d EXCEPT !.sections[1][n].obj = c]
  BY DEF Alter
<1>2. HasTop(doc, T, doc.len) /\ T \in Tops /\ doc.len \in 0 .. MaxObject /\ MaxObject \in Nat
  BY ShapeTypes, FileTypes DEF Sane, Shape
<1>3. c \in Contents BY AvailableTypes DEF Sane
<1>. HIDE DEF T
<1>4. E # Blank /\ E \in Slot
  BY <1>1, <1>2, ReadIs, EffectiveTypes
<1>5. /\ HasTop(d, U, doc.len) /\ d.incremental /\ (isNew <=> T[n] = Blank)
  BY <1>2, <1>4, EnsuredIs
<1>. HIDE DEF d, isNew, E
<1>6. U[n] = E /\ U[n] # Blank /\ [U EXCEPT ![n] = [type |-> "n", obj |-> c]] = W
  BY <1>2, <1>4 DEF Tops
<1>. HIDE DEF U, W
<1>7. HasTop(doc', W, doc.len)
  BY <1>1, <1>3, <1>5, <1>6, AlteredIs
<1>8. doc'.len = doc.len BY <1>7, TopIs
<1>9. n <= doc.len
  <2>1. ~(n > doc.len)
    BY <1>4 DEF Sane, Known, T, E
  <2>. QED BY <1>2, <2>1 DEF Numbers
<1>10. f \in Pieces /\ f.num = n /\ Was(f) = T[n]
  <2>1. Entry(d, n) = Effective(U, n) BY <1>5, ReadIs
  <2>2. Effective(U, n) = E BY <1>6 DEF Effective
  <2>. DEFINE x == IF isNew THEN NoObject ELSE E.obj
  <2>3. f = [num |-> n, newobj |-> isNew, inactive |-> x]
    BY <2>1, <2>2 DEF Fragment
  <2>4. /\ E.obj \in Contents /\ E.obj # NoObject /\ E.type = "n"
        /\ E = [type |-> E.type, obj |-> E.obj]
    BY <1>4, SlotTypes
  <2>5. isNew \in BOOLEAN BY DEF isNew, Elsewhere
  <2>6. x \in Contents \cup {NoObject} /\ (isNew <=> x = NoObject) BY <2>4
  <2>. HIDE DEF x, f
  <2>7. f.num = n /\ f.newobj = isNew /\ f.inactive = x BY <2>3
  <2>8. f \in Fragments BY <2>3, <2>5, <2>6 DEF Fragments
  <2>9. f \in Pieces BY <2>6, <2>7, <2>8 DEF Pieces
  <2>10. CASE isNew BY <1>5, <2>7, <2>9, <2>10 DEF Was
  <2>11. CASE ~isNew
    <3>1. T[n] # Blank BY <1>5, <2>11
    <3>2. E = T[n] BY <3>1 DEF E, Effective
    <3>3. x = E.obj BY <2>11 DEF x
    <3>4. Was(f) = [type |-> "n", obj |-> E.obj] BY <2>7, <2>11, <3>3 DEF Was
    <3>. QED BY <2>4, <2>7, <2>9, <3>2, <3>4
  <2>. QED BY <2>10, <2>11
<1>. HIDE DEF f
<1>11. Wrote(n, c)
  BY <1>1, <1>2, <1>7, <1>8, <1>9, <1>10 DEF Wrote, T, W
<1>. QED BY <1>4, <1>8, <1>11 DEF E, T

LEMMA UpdateWrites ==
    ASSUME Sane, NEW n \in Numbers, NEW c \in Available, Update(n, c)
    PROVE  /\ HasTop(doc', [TopOf(doc) EXCEPT ![n] = [type |-> "n", obj |-> c]], doc.len)
           /\ doc'.len = doc.len /\ Effective(TopOf(doc), n) # Blank
           /\ Unstashed = FALSE => Wrote(n, c) /\ n \in Nums(Latest)
<1>. DEFINE T == TopOf(doc)
            W == [T EXCEPT ![n] = [type |-> "n", obj |-> c]]
<1>1. /\ n \in Readable(doc) /\ doc' = Put(doc, n, "n", c) /\ UNCHANGED pending
      /\ Unstashed \/ (nesting > 0 /\ n \in Nums(Latest))
  BY DEF Update
<1>2. HasTop(doc, T, doc.len) /\ T \in Tops /\ doc.len \in 0 .. MaxObject /\ MaxObject \in Nat
  BY ShapeTypes, FileTypes DEF Sane, Shape
<1>3. c \in Contents /\ [type |-> "n", obj |-> c] \in Slot
  BY AvailableTypes DEF Sane, Slot
<1>. HIDE DEF T
<1>4. HasTop(doc', W, doc.len)
  BY <1>1, <1>2, <1>3, PutIs
<1>. HIDE DEF W
<1>5. doc'.len = doc.len BY <1>4, TopIs
<1>6. Effective(T, n) # Blank BY <1>1, <1>2, ReadIs
<1>7. n <= doc.len
  <2>1. ~(n > doc.len)
    BY <1>6 DEF Sane, Known, T
  <2>. QED BY <1>2, <2>1 DEF Numbers
<1>8. Unstashed = FALSE => Wrote(n, c)
  BY <1>1, <1>2, <1>4, <1>5, <1>7 DEF Wrote, T, W
<1>. QED BY <1>1, <1>4, <1>5, <1>6, <1>8 DEF T, W

\* An object written: nothing unknown has come about.
LEMMA WroteIsKnown ==
    ASSUME NEW T \in Tops, NEW n \in Numbers, NEW e \in Slot, NEW len, NEW m,
           len \in 0 .. MaxObject, m \in 0 .. MaxObject, m >= len, n <= m,
           NEW h, NEW p, Known(T, len, h, p)
    PROVE  Known([T EXCEPT ![n] = e], m, h, p)
<1>1. MaxObject \in Nat BY FileTypes
<1>2. \A x \in 1 .. len : x \in 1 .. m BY <1>1
<1>3. ASSUME NEW k \in Numbers, k > m PROVE Effective([T EXCEPT ![n] = e], k) = Blank
  <2>1. k # n /\ k > len BY <1>1, <1>3 DEF Numbers
  <2>2. [T EXCEPT ![n] = e][k] = T[k] BY <2>1 DEF Tops
  <2>3. Effective(T, k) = Blank BY <2>1 DEF Known
  <2>. QED BY <2>2, <2>3 DEF Effective
<1>. QED BY <1>2, <1>3 DEF Known

\* Writing keeps pending operations well formed and known.
LEMMA WroteIs ==
    ASSUME Sane, NEW n \in Numbers, NEW c \in Contents, Wrote(n, c)
    PROVE  /\ HasTop(doc', TopOf(doc'), doc'.len)
           /\ TopOf(doc') = [TopOf(doc) EXCEPT ![n] = [type |-> "n", obj |-> c]]
           /\ pending' \in Seq(Operations) /\ Len(pending') = nesting
           /\ Known(TopOf(doc'), doc'.len, hist, pending')
<1>. DEFINE T == TopOf(doc)
            e == [type |-> "n", obj |-> c]
            W == [T EXCEPT ![n] = e]
            len == doc'.len
<1>1. /\ nesting > 0 /\ len \in 0 .. MaxObject /\ len >= doc.len /\ n <= len
      /\ HasTop(doc', W, len)
      /\ IF n \in Nums(Latest) THEN UNCHANGED pending
         ELSE \E f \in Pieces : f.num = n /\ Was(f) = T[n] /\ Stash(f)
  BY DEF Wrote
<1>2. T \in Tops /\ doc.len \in 0 .. MaxObject /\ e \in Slot /\ MaxObject \in Nat
  BY ShapeTypes, FileTypes DEF Sane, Slot
<1>3. Known(T, doc.len, hist, pending) BY DEF Sane
<1>. HIDE DEF T, e
<1>4. Known(W, len, hist, pending)
  <2>. HIDE DEF len, W
  <2>. QED BY <1>1, <1>2, <1>3, WroteIsKnown DEF W
<1>. HIDE DEF W, len
<1>5. TopOf(doc') = W BY <1>1, TopIs
<1>6. CASE n \in Nums(Latest)
  BY <1>1, <1>4, <1>5, <1>6 DEF Sane, Shape, W, T, len, e, nesting
<1>7. CASE n \notin Nums(Latest)
  <2>1. PICK f \in Pieces : f.num = n /\ Was(f) = T[n] /\ Stash(f) BY <1>1, <1>7
  <2>2. /\ pending' \in Seq(Operations) /\ Len(pending') = nesting
        /\ DOMAIN pending' = 1 .. nesting
        /\ \A k \in 1 .. nesting - 1 : pending'[k] = pending[k]
        /\ Nums(pending'[nesting].frags) = Nums(Latest) \cup {n}
    BY <1>1, <1>7, <2>1, StashIs DEF Sane
  <2>3. nesting \in Nat /\ DOMAIN pending = 1 .. nesting
    BY ShapeTypes DEF Sane
  <2>4. ASSUME NEW k \in 1 .. nesting PROVE Nums(pending'[k].frags) \subseteq 1 .. len
    <3>1. CASE k = nesting
      <4>1. Nums(Latest) \subseteq 1 .. len
        BY <1>1, <1>4, <2>3 DEF Known, Latest
      <4>2. n \in 1 .. len BY <1>1, <1>2 DEF Numbers
      <4>. QED BY <2>2, <3>1, <4>1, <4>2
    <3>2. CASE k # nesting
      <4>1. k \in 1 .. nesting - 1 BY <2>3, <3>2
      <4>. QED BY <1>4, <2>2, <2>3, <4>1 DEF Known
    <3>. QED BY <3>1, <3>2
  <2>5. Known(W, len, hist, pending')
    BY <1>4, <2>2, <2>4 DEF Known
  <2>. QED BY <1>1, <1>5, <2>2, <2>5 DEF W, T, len, e
<1>. QED BY <1>6, <1>7

-----------------------------------------------------------------------------
(* Every operation keeps documents and entries in shape.                   *)

LEMMA CutIs ==
    ASSUME NEW S, NEW s \in Seq(S), NEW m \in 0 .. Len(s)
    PROVE  LET c == SubSeq(s, 1, m) IN
           /\ c \in Seq(S) /\ Len(c) = m /\ DOMAIN c = 1 .. m
           /\ \A k \in 1 .. m : c[k] = s[k]
OBVIOUS

LEMMA GrownIs ==
    ASSUME NEW S, NEW s \in Seq(S), NEW x \in S
    PROVE  LET g == Append(s, x) IN
           /\ g \in Seq(S) /\ Len(g) = Len(s) + 1 /\ DOMAIN g = 1 .. Len(s) + 1
           /\ g[Len(s) + 1] = x /\ \A k \in 1 .. Len(s) : g[k] = s[k]
OBVIOUS

\* Without the innermost operation.
LEMMA FrontIs ==
    ASSUME Shape, nesting > 0
    PROVE  /\ Front(pending) \in Seq(Operations) /\ Len(Front(pending)) = nesting - 1
           /\ DOMAIN Front(pending) = 1 .. nesting - 1
           /\ \A k \in 1 .. nesting - 1 : Front(pending)[k] = pending[k]
           /\ Front(begun) \in Seq(Shown) /\ Len(Front(begun)) = nesting - 1
           /\ \A k \in 1 .. nesting - 1 : Front(begun)[k] = begun[k]
<1>1. nesting \in Nat /\ nesting - 1 \in 0 .. nesting
  BY ShapeTypes
<1>2. pending \in Seq(Operations) /\ Len(pending) = nesting BY DEF Shape, nesting
<1>3. begun \in Seq(Shown) /\ Len(begun) = nesting BY DEF Shape
<1>. HIDE DEF nesting
<1>. QED BY <1>1, <1>2, <1>3, CutIs DEF Front

LEMMA InitSane == Init => Sane
<1>. SUFFICES ASSUME Init PROVE Sane
  OBVIOUS
<1>1. HasTop(doc, BlankTop, doc.len) /\ \A n \in Numbers : n > doc.len => n \notin Originals
  BY OpenedIs DEF Init
<1>2. TopOf(doc) = BlankTop BY <1>1, TopIs
<1>3. /\ hist = <<>> /\ current = 0 /\ pending = <<>> /\ begun = <<>>
      /\ line = <<Seen(doc)>> /\ changes = 0
  BY DEF Init
<1>4. Seen(doc) \in ShownOriginals BY <1>1, ReadIs DEF ShownOriginals
<1>5. MaxChanges \in Nat BY FileAssumption
<1>6. Shape BY <1>1, <1>2, <1>3, <1>4, <1>5 DEF Shape, nesting
<1>7. ASSUME NEW n \in Numbers, n > doc.len PROVE Effective(TopOf(doc), n) = Blank
  <2>1. n \notin Originals BY <1>1, <1>7
  <2>2. {i \in DOMAIN File : File[i][n].type # "none"} = {} BY <2>1 DEF Originals
  <2>3. Stored(n) = Blank BY <2>2 DEF Stored
  <2>. QED BY <1>2, <2>3 DEF Effective, BlankTop
<1>8. Known(TopOf(doc), doc.len, hist, pending) BY <1>3, <1>7 DEF Known
<1>. QED BY <1>6, <1>8 DEF Sane

LEMMA SaneBegin ==
    ASSUME Sane, NEW titled \in BOOLEAN, Begin(titled)
    PROVE  Sane'
<1>. DEFINE o == [titled |-> titled, frags |-> <<>>]
<1>1. /\ pending' = Append(pending, o) /\ begun' = Append(begun, Read(doc))
      /\ UNCHANGED <<doc, hist, current, line, changes>>
  BY DEF Begin
<1>2. <<>> \in Entries BY DEF Entries, Once
<1>3. o \in Operations /\ o.frags = <<>>
  <2>. DEFINE e == <<>>
  <2>. HIDE DEF e
  <2>. QED BY <1>2 DEF Operations, e
<1>4. Read(doc) \in Shown BY ReadIs DEF Shown, Sane, Shape
<1>5. pending \in Seq(Operations) /\ begun \in Seq(Shown) /\ Len(begun) = Len(pending)
  BY DEF Sane, Shape, nesting
<1>. HIDE DEF o
<1>6. /\ pending' \in Seq(Operations) /\ begun' \in Seq(Shown)
      /\ Len(pending') = Len(pending) + 1 /\ Len(begun') = Len(pending) + 1
      /\ DOMAIN pending' = 1 .. Len(pending) + 1
      /\ pending'[Len(pending) + 1] = o
      /\ \A k \in 1 .. Len(pending) : pending'[k] = pending[k]
  BY <1>1, <1>3, <1>4, <1>5, GrownIs
<1>7. Len(pending) \in Nat /\ DOMAIN pending = 1 .. Len(pending) BY <1>5
<1>8. ASSUME NEW k \in DOMAIN pending' PROVE Nums(pending'[k].frags) \subseteq 1 .. doc'.len
  <2>1. CASE k = Len(pending) + 1 BY <1>3, <1>6, <2>1 DEF Nums
  <2>2. CASE k # Len(pending) + 1
    <3>1. k \in 1 .. Len(pending) BY <1>6, <1>7, <2>2
    <3>. QED BY <1>1, <1>6, <1>7, <3>1 DEF Sane, Known
  <2>. QED BY <2>1, <2>2
<1>9. Shape' BY <1>1, <1>6 DEF Sane, Shape, nesting
<1>10. Known(TopOf(doc), doc.len, hist, pending)' BY <1>1, <1>8 DEF Sane, Known
<1>. QED BY <1>9, <1>10 DEF Sane

LEMMA ChangeIs ==
    ASSUME changes \in 0 .. MaxChanges, Change
    PROVE  changes' \in 0 .. MaxChanges
<1>1. MaxChanges \in Nat BY FileAssumption
<1>. QED BY <1>1 DEF Change

LEMMA SaneAddObject ==
    ASSUME Sane, NEW v \in Values, AddObject(v)
    PROVE  Sane'
<1>1. Wrote(doc.len + 1, v) /\ doc.len + 1 \in Numbers /\ v \in Contents
  BY AddObjectWrites
<1>2. /\ HasTop(doc', TopOf(doc'), doc'.len)
      /\ pending' \in Seq(Operations) /\ Len(pending') = nesting
      /\ Known(TopOf(doc'), doc'.len, hist, pending')
  BY <1>1, WroteIs
<1>3. UNCHANGED <<hist, current, begun, line>> BY DEF AddObject
<1>4. changes' \in 0 .. MaxChanges BY ChangeIs DEF AddObject, Sane, Shape
<1>5. Shape' BY <1>2, <1>3, <1>4 DEF Sane, Shape, nesting
<1>. QED BY <1>2, <1>3, <1>5 DEF Sane

\* What was undone is forgotten.
LEMMA CutHistory ==
    ASSUME Sane
    PROVE  LET h == SubSeq(hist, 1, current)
               l == SubSeq(line, 1, current + 1)
           IN  /\ h \in Seq(Entries \ {<<>>}) /\ Len(h) = current /\ DOMAIN h = 1 .. current
               /\ \A k \in 1 .. current : h[k] = hist[k] /\ k \in DOMAIN hist
               /\ l \in Seq(ShownOriginals) /\ Len(l) = current + 1
               /\ DOMAIN l = 1 .. current + 1
               /\ \A k \in 1 .. current + 1 : l[k] = line[k]
<1>1. /\ hist \in Seq(Entries \ {<<>>}) /\ current \in 0 .. Len(hist)
      /\ line \in Seq(ShownOriginals) /\ Len(line) = Len(hist) + 1
      /\ Len(hist) \in Nat /\ DOMAIN hist = 1 .. Len(hist)
  BY DEF Sane, Shape
<1>2. current + 1 \in 0 .. Len(line) /\ \A k \in 1 .. current : k \in 1 .. Len(hist)
  BY <1>1
<1>. QED BY <1>1, <1>2, CutIs

LEMMA SaneAlter ==
    ASSUME Sane, NEW n \in Numbers, NEW c \in Available, Alter(n, c)
    PROVE  Sane'
<1>1. Wrote(n, c) /\ c \in Contents
  BY AlterWrites, AvailableTypes DEF Sane
<1>2. /\ HasTop(doc', TopOf(doc'), doc'.len)
      /\ pending' \in Seq(Operations) /\ Len(pending') = nesting
      /\ Known(TopOf(doc'), doc'.len, hist, pending')
  BY <1>1, WroteIs
<1>3. /\ hist' = SubSeq(hist, 1, current) /\ line' = SubSeq(line, 1, current + 1)
      /\ UNCHANGED <<current, begun>>
  BY DEF Alter
<1>4. changes' \in 0 .. MaxChanges BY ChangeIs DEF Alter, Sane, Shape
<1>5. /\ hist' \in Seq(Entries \ {<<>>}) /\ Len(hist') = current
      /\ DOMAIN hist' = 1 .. current
      /\ \A k \in 1 .. current : hist'[k] = hist[k] /\ k \in DOMAIN hist
      /\ line' \in Seq(ShownOriginals) /\ Len(line') = current + 1
  BY <1>3, CutHistory
<1>6. current \in 0 .. current BY DEF Sane, Shape
<1>7. Shape' BY <1>2, <1>3, <1>4, <1>5, <1>6 DEF Sane, Shape, nesting
<1>8. Known(TopOf(doc'), doc'.len, hist', pending') BY <1>2, <1>5 DEF Known
<1>. QED BY <1>7, <1>8 DEF Sane

LEMMA SaneUpdate ==
    ASSUME Sane, NEW n \in Numbers, NEW c \in Available, Update(n, c)
    PROVE  Sane'
<1>. DEFINE T == TopOf(doc)
            e == [type |-> "n", obj |-> c]
            W == [T EXCEPT ![n] = e]
<1>1. HasTop(doc', W, doc.len) /\ doc'.len = doc.len /\ Effective(T, n) # Blank
  BY UpdateWrites
<1>2. TopOf(doc') = W
  <2>. HIDE DEF W
  <2>. QED BY <1>1, TopIs
<1>3. UNCHANGED <<hist, current, pending, begun, line>> BY DEF Update
<1>4. changes' \in 0 .. MaxChanges BY ChangeIs DEF Update, Sane, Shape
<1>5. /\ T \in Tops /\ doc.len \in 0 .. MaxObject /\ e \in Slot /\ MaxObject \in Nat
      /\ Known(T, doc.len, hist, pending)
  BY ShapeTypes, AvailableTypes, FileTypes DEF Sane, Slot
<1>. HIDE DEF T, e
<1>6. n <= doc.len
  <2>1. ~(n > doc.len) BY <1>1, <1>5 DEF Known
  <2>. QED BY <1>5, <2>1 DEF Numbers
<1>7. Known(W, doc.len, hist, pending)
  <2>1. doc.len >= doc.len BY <1>5
  <2>. HIDE DEF W
  <2>. QED BY <1>5, <1>6, <2>1, WroteIsKnown DEF W
<1>. HIDE DEF W
<1>8. Shape' BY <1>1, <1>2, <1>3, <1>4 DEF Sane, Shape, nesting
<1>9. Known(TopOf(doc), doc.len, hist, pending)' BY <1>1, <1>2, <1>3, <1>7
<1>. QED BY <1>8, <1>9 DEF Sane

LEMMA SaneLoad ==
    ASSUME Sane, NEW n \in Numbers, Load(n)
    PROVE  Sane' /\ TopOf(doc') = TopOf(doc) /\ doc'.len = doc.len
<1>1. HasTop(doc', TopOf(doc), doc.len) BY LoadIs DEF Sane, Shape, Load
<1>2. TopOf(doc') = TopOf(doc) /\ doc'.len = doc.len BY <1>1, TopIs
<1>3. UNCHANGED <<hist, current, pending, begun, line, changes>> BY DEF Load
<1>4. Shape' BY <1>1, <1>2, <1>3 DEF Sane, Shape, nesting
<1>5. Known(TopOf(doc), doc.len, hist, pending)' BY <1>2, <1>3 DEF Sane, Known
<1>. QED BY <1>2, <1>4, <1>5 DEF Sane

\* Swapping in known fragments.
LEMMA SwapIsKnown ==
    ASSUME NEW T \in Tops, NEW len \in Nat, NEW h, NEW p, Known(T, len, h, p),
           NEW s \in Entries, Nums(s) \subseteq 1 .. len
    PROVE  \A n \in Numbers : n > len => Effective(After(T, s), n) = Blank
<1>. SUFFICES ASSUME NEW n \in Numbers, n > len PROVE Effective(After(T, s), n) = Blank
  OBVIOUS
<1>1. n \notin Nums(s) BY FileTypes DEF Numbers
<1>2. After(T, s)[n] = T[n] BY <1>1 DEF After
<1>. QED BY <1>2 DEF Effective, Known

LEMMA SaneAbandon ==
    ASSUME Sane, Abandon
    PROVE  Sane' /\ TopOf(doc') = After(TopOf(doc), Latest) /\ doc'.len = doc.len
<1>. DEFINE T == TopOf(doc)
<1>1. /\ nesting > 0 /\ doc' = Swapped(doc, Latest).doc
      /\ pending' = Front(pending) /\ begun' = Front(begun)
      /\ UNCHANGED <<hist, current, line, changes>>
  BY DEF Abandon
<1>2. /\ Latest \in Entries /\ HasTop(doc, T, doc.len) /\ nesting \in Nat
      /\ DOMAIN pending = 1 .. nesting /\ T \in Tops /\ doc.len \in Nat
  BY <1>1, ShapeTypes, FileTypes DEF Sane, Shape
<1>. HIDE DEF T
<1>3. HasTop(doc', After(T, Latest), doc.len) BY <1>1, <1>2, SwappedIs
<1>4. TopOf(doc') = After(T, Latest) /\ doc'.len = doc.len BY <1>3, TopIs
<1>5. /\ pending' \in Seq(Operations) /\ Len(pending') = nesting - 1
      /\ DOMAIN pending' = 1 .. nesting - 1
      /\ \A k \in 1 .. nesting - 1 : pending'[k] = pending[k]
      /\ begun' \in Seq(Shown) /\ Len(begun') = nesting - 1
  BY <1>1, FrontIs DEF Sane
<1>6. Nums(Latest) \subseteq 1 .. doc.len
  <2>1. nesting \in 1 .. nesting BY <1>1, <1>2
  <2>. QED BY <1>2, <2>1 DEF Sane, Known, Latest
<1>7. \A n \in Numbers : n > doc.len => Effective(After(T, Latest), n) = Blank
  BY <1>2, <1>6, SwapIsKnown DEF Sane, T
<1>8. \A k \in 1 .. nesting - 1 : k \in DOMAIN pending BY <1>2
<1>9. Known(TopOf(doc), doc.len, hist, pending)'
  BY <1>1, <1>4, <1>5, <1>7, <1>8 DEF Sane, Known
<1>10. Shape' BY <1>1, <1>3, <1>4, <1>5 DEF Sane, Shape, nesting
<1>. QED BY <1>4, <1>9, <1>10 DEF Sane, T

\* What the operation around has on record when a nested one ends.
Around == [pending[nesting - 1] EXCEPT !.frags = Glued(@, Latest)]

LEMMA EndNestedIs ==
    ASSUME Shape, EndNested
    PROVE  /\ nesting - 1 \in 1 .. nesting
           /\ pending' \in Seq(Operations) /\ Len(pending') = nesting - 1
           /\ DOMAIN pending' = 1 .. nesting - 1
           /\ \A k \in 1 .. nesting - 2 : pending'[k] = pending[k]
           /\ \A k \in 1 .. nesting - 1 : pending'[k].titled = pending[k].titled
           /\ pending'[nesting - 1].frags = Glued(pending[nesting - 1].frags, Latest)
           /\ begun' \in Seq(Shown) /\ Len(begun') = nesting - 1
           /\ \A k \in 1 .. nesting - 1 : begun'[k] = begun[k]
<1>. DEFINE m == nesting - 1
            o == pending[m]
            g == Glued(o.frags, Latest)
            x == [o EXCEPT !.frags = g]
<1>1. nesting > 1 /\ nesting \in Nat /\ m \in 1 .. nesting /\ m \in 1 .. m
  BY ShapeTypes DEF EndNested
<1>2. Latest \in Entries /\ o \in Operations /\ o.frags \in Entries
  BY <1>1, ShapeTypes
<1>3. /\ Front(pending) \in Seq(Operations) /\ Len(Front(pending)) = m
      /\ DOMAIN Front(pending) = 1 .. m
      /\ \A k \in 1 .. m : Front(pending)[k] = pending[k]
      /\ Front(begun) \in Seq(Shown) /\ Len(Front(begun)) = m
      /\ \A k \in 1 .. m : Front(begun)[k] = begun[k]
  BY <1>1, FrontIs
<1>4. /\ pending' = [Front(pending) EXCEPT ![m].frags = Glued(@, Latest)]
      /\ begun' = Front(begun)
  BY DEF EndNested, Glued
<1>. HIDE DEF m, nesting, Latest
<1>5. pending' = [Front(pending) EXCEPT ![m] = x]
  BY <1>1, <1>3, <1>4
<1>6. g \in Entries BY <1>2, GluedIs
<1>. HIDE DEF g, o
<1>7. x \in Operations /\ x.frags = g /\ x.titled = o.titled
  BY <1>2, <1>6 DEF Operations
<1>. HIDE DEF x
<1>8. /\ pending' \in Seq(Operations) /\ Len(pending') = m /\ DOMAIN pending' = 1 .. m
      /\ \A k \in 1 .. m : k # m => pending'[k] = pending[k]
      /\ pending'[m] = x
  BY <1>1, <1>3, <1>5, <1>7
<1>9. \A k \in 1 .. nesting - 2 : k \in 1 .. m /\ k # m BY <1>1 DEF m
<1>10. \A k \in 1 .. m : pending'[k].titled = pending[k].titled BY <1>7, <1>8 DEF o
<1>. QED BY <1>1, <1>3, <1>4, <1>7, <1>8, <1>9, <1>10 DEF m, g, o

LEMMA SaneEndNested ==
    ASSUME Sane, EndNested
    PROVE  Sane'
<1>. DEFINE m == nesting - 1
<1>1. /\ m \in 1 .. nesting
      /\ pending' \in Seq(Operations) /\ Len(pending') = m /\ DOMAIN pending' = 1 .. m
      /\ \A k \in 1 .. nesting - 2 : pending'[k] = pending[k]
      /\ pending'[m].frags = Glued(pending[m].frags, Latest)
      /\ begun' \in Seq(Shown) /\ Len(begun') = m
  BY EndNestedIs DEF Sane
<1>2. UNCHANGED <<doc, hist, current, line, changes>> BY DEF EndNested
<1>3. /\ nesting \in Nat /\ DOMAIN pending = 1 .. nesting
      /\ \A k \in 1 .. nesting : pending[k].frags \in Entries
      /\ nesting > 0 => Latest \in Entries
      /\ \A k \in 1 .. nesting : Nums(pending[k].frags) \subseteq 1 .. doc.len
  BY ShapeTypes DEF Sane, Known
<1>4. ASSUME NEW k \in 1 .. m PROVE Nums(pending'[k].frags) \subseteq 1 .. doc.len
  <2>1. CASE k = m
    <3>1. nesting \in 1 .. nesting BY <1>1, <1>3
    <3>2. Latest = pending[nesting].frags BY DEF Latest
    <3>3. Nums(pending'[m].frags) = Nums(pending[m].frags) \cup Nums(Latest)
      BY <1>1, <1>3, <3>1, <3>2, GluedIs
    <3>. QED BY <1>1, <1>3, <2>1, <3>1, <3>2, <3>3
  <2>2. CASE k # m
    <3>1. k \in 1 .. nesting - 2 /\ k \in 1 .. nesting BY <1>1, <1>3, <2>2
    <3>. QED BY <1>1, <1>3, <3>1
  <2>. QED BY <2>1, <2>2
<1>5. Known(TopOf(doc), doc.len, hist, pending)'
  BY <1>1, <1>2, <1>4 DEF Sane, Known
<1>6. Shape' BY <1>1, <1>2 DEF Sane, Shape, nesting
<1>. QED BY <1>5, <1>6 DEF Sane

\* What the outermost operation leaves in the history.
LEMMA EndOutermostIs ==
    ASSUME Sane, EndOutermost
    PROVE  /\ nesting = 1 /\ Latest = pending[1].frags /\ Latest \in Entries
           /\ pending' = <<>> /\ begun' = <<>> /\ UNCHANGED <<doc, changes>>
           /\ \/ Latest = <<>> /\ UNCHANGED <<hist, current, line>>
              \/ /\ Latest # <<>> /\ current' = current + 1
                 /\ hist' \in Seq(Entries \ {<<>>}) /\ Len(hist') = current + 1
                 /\ \A k \in 1 .. current : hist'[k] = hist[k] /\ k \in DOMAIN hist
                 /\ hist'[current + 1] = Latest
                 /\ line' \in Seq(ShownOriginals) /\ Len(line') = current + 2
                 /\ \A k \in 1 .. current + 1 : line'[k] = line[k]
                 /\ line'[current + 2] = Seen(doc)
                 /\ SubSeq(line', 1, current + 1) = SubSeq(line, 1, current + 1)
              \/ /\ Latest # <<>> /\ current' = current
                 /\ hist' \in Seq(Entries \ {<<>>}) /\ Len(hist') = Len(hist)
                 /\ \A k \in DOMAIN hist : k # current => hist'[k] = hist[k]
                 /\ current > 0 => hist'[current] = Glued(hist[current], Latest)
                 /\ line' \in Seq(ShownOriginals) /\ Len(line') = Len(line)
                 /\ \A k \in 1 .. Len(line) : k # current + 1 => line'[k] = line[k]
                 /\ line'[current + 1] = Seen(doc)
                 /\ line' = [line EXCEPT ![current + 1] = Seen(doc)]
<1>1. /\ nesting = 1 /\ pending' = <<>> /\ begun' = <<>> /\ UNCHANGED <<doc, changes>>
  BY DEF EndOutermost
<1>2. Latest = pending[1].frags /\ Latest \in Entries
  BY <1>1, ShapeTypes DEF Latest, Sane
<1>3. /\ hist \in Seq(Entries \ {<<>>}) /\ current \in 0 .. Len(hist)
      /\ line \in Seq(ShownOriginals) /\ Len(line) = Len(hist) + 1
      /\ Len(hist) \in Nat /\ DOMAIN hist = 1 .. Len(hist) /\ current \in Nat
      /\ Seen(doc) \in ShownOriginals
  BY ReadIs DEF Sane, Shape, ShownOriginals
<1>4. CASE Latest = <<>>
  BY <1>1, <1>2, <1>4 DEF EndOutermost
<1>5. CASE Latest # <<>> /\ pending[1].titled
  <2>. DEFINE h == SubSeq(hist, 1, current)
              l == SubSeq(line, 1, current + 1)
  <2>1. /\ hist' = Append(h, Latest) /\ line' = Append(l, Seen(doc))
        /\ current' = current + 1
    BY <1>5 DEF EndOutermost
  <2>2. /\ h \in Seq(Entries \ {<<>>}) /\ Len(h) = current /\ DOMAIN h = 1 .. current
        /\ \A k \in 1 .. current : h[k] = hist[k] /\ k \in DOMAIN hist
        /\ l \in Seq(ShownOriginals) /\ Len(l) = current + 1
        /\ DOMAIN l = 1 .. current + 1
        /\ \A k \in 1 .. current + 1 : l[k] = line[k]
    BY CutHistory
  <2>3. Latest \in Entries \ {<<>>} BY <1>2, <1>5
  <2>. HIDE DEF h, l, Latest
  <2>4. /\ hist' \in Seq(Entries \ {<<>>}) /\ Len(hist') = current + 1
        /\ hist'[current + 1] = Latest
        /\ \A k \in 1 .. current : hist'[k] = h[k]
    BY <2>1, <2>2, <2>3, GrownIs
  <2>5. /\ line' \in Seq(ShownOriginals) /\ Len(line') = (current + 1) + 1
        /\ line'[(current + 1) + 1] = Seen(doc)
        /\ \A k \in 1 .. current + 1 : line'[k] = l[k]
    BY <1>3, <2>1, <2>2, GrownIs
  <2>6. (current + 1) + 1 = current + 2 BY <1>3
  <2>7. SubSeq(line', 1, current + 1) = l
    <3>. DEFINE c == SubSeq(line', 1, current + 1)
    <3>1. current + 1 \in 0 .. Len(line') BY <1>3, <2>5
    <3>2. /\ c \in Seq(ShownOriginals) /\ Len(c) = current + 1
          /\ \A k \in 1 .. current + 1 : c[k] = line'[k]
      BY <2>5, <3>1, CutIs
    <3>. HIDE DEF c
    <3>3. c = l BY <2>2, <2>5, <3>2, SeqEqual
    <3>. QED BY <3>3 DEF c
  <2>8. SubSeq(line', 1, current + 1) = SubSeq(line, 1, current + 1) BY <2>7 DEF l
  <2>. QED BY <1>1, <1>2, <1>5, <2>1, <2>2, <2>4, <2>5, <2>6, <2>8
<1>6. CASE Latest # <<>> /\ ~pending[1].titled
  <2>. DEFINE g == Glued(hist[current], Latest)
  <2>1. /\ hist' = IF current = 0 THEN hist
                   ELSE [hist EXCEPT ![current] = Resolved(@ \o Latest)]
        /\ line' = [line EXCEPT ![current + 1] = Seen(doc)]
        /\ current' = current
    BY <1>6 DEF EndOutermost
  <2>2. /\ line' \in Seq(ShownOriginals) /\ Len(line') = Len(line)
        /\ \A k \in 1 .. Len(line) : k # current + 1 => line'[k] = line[k]
        /\ line'[current + 1] = Seen(doc)
    BY <1>3, <2>1
  <2>3. CASE current = 0
    <3>1. hist' = hist BY <2>1, <2>3
    <3>. QED BY <1>1, <1>2, <1>3, <1>6, <2>1, <2>2, <2>3, <3>1
  <2>4. CASE current # 0
    <3>1. current \in 1 .. Len(hist) BY <1>3, <2>4
    <3>2. hist[current] \in Entries /\ hist[current] # <<>> BY <1>3, <3>1
    <3>3. g \in Entries /\ g # <<>> BY <1>2, <1>6, <3>2, GluedIs
    <3>4. hist' = [hist EXCEPT ![current] = g]
      BY <1>6, <2>1, <2>4, <3>2 DEF Glued
    <3>. HIDE DEF g
    <3>5. /\ hist' \in Seq(Entries \ {<<>>}) /\ Len(hist') = Len(hist)
          /\ \A k \in DOMAIN hist : k # current => hist'[k] = hist[k]
          /\ hist'[current] = g
      BY <1>3, <3>1, <3>3, <3>4
    <3>. QED BY <1>1, <1>2, <1>6, <2>1, <2>2, <3>5 DEF g
  <2>. QED BY <2>3, <2>4
<1>. QED BY <1>4, <1>5, <1>6

LEMMA SaneEndOutermost ==
    ASSUME Sane, EndOutermost
    PROVE  Sane'
<1>1. /\ nesting = 1 /\ Latest = pending[1].frags /\ Latest \in Entries
      /\ pending' = <<>> /\ begun' = <<>> /\ UNCHANGED <<doc, changes>>
  BY EndOutermostIs
<1>2. /\ Len(hist) \in Nat /\ DOMAIN hist = 1 .. Len(hist) /\ current \in 0 .. Len(hist)
      /\ current \in Nat /\ Len(line) = Len(hist) + 1
      /\ \A k \in 1 .. Len(hist) : hist[k] \in Entries
      /\ \A k \in 1 .. Len(hist) : Nums(hist[k]) \subseteq 1 .. doc.len
      /\ Nums(Latest) \subseteq 1 .. doc.len
  BY <1>1, ShapeTypes DEF Sane, Shape, Known
<1>3. /\ hist' \in Seq(Entries \ {<<>>}) /\ current' \in 0 .. Len(hist')
      /\ line' \in Seq(ShownOriginals) /\ Len(line') = Len(hist') + 1
      /\ \A k \in DOMAIN hist' : Nums(hist'[k]) \subseteq 1 .. doc.len
  <2>1. CASE Latest = <<>> /\ UNCHANGED <<hist, current, line>>
    BY <1>2, <2>1 DEF Sane, Shape
  <2>2. CASE /\ Latest # <<>> /\ current' = current + 1
             /\ hist' \in Seq(Entries \ {<<>>}) /\ Len(hist') = current + 1
             /\ \A k \in 1 .. current : hist'[k] = hist[k] /\ k \in DOMAIN hist
             /\ hist'[current + 1] = Latest
             /\ line' \in Seq(ShownOriginals) /\ Len(line') = current + 2
    <3>1. DOMAIN hist' = 1 .. current + 1 BY <2>2
    <3>2. \A k \in 1 .. current + 1 : k \in 1 .. current \/ k = current + 1 BY <1>2
    <3>3. \A k \in 1 .. current : Nums(hist'[k]) \subseteq 1 .. doc.len BY <1>2, <2>2
    <3>4. Nums(hist'[current + 1]) \subseteq 1 .. doc.len BY <1>2, <2>2
    <3>. QED BY <1>2, <2>2, <3>1, <3>2, <3>3, <3>4
  <2>3. CASE /\ Latest # <<>> /\ current' = current
             /\ hist' \in Seq(Entries \ {<<>>}) /\ Len(hist') = Len(hist)
             /\ \A k \in DOMAIN hist : k # current => hist'[k] = hist[k]
             /\ current > 0 => hist'[current] = Glued(hist[current], Latest)
             /\ line' \in Seq(ShownOriginals) /\ Len(line') = Len(line)
    <3>1. DOMAIN hist' = 1 .. Len(hist) BY <2>3
    <3>2. ASSUME NEW k \in 1 .. Len(hist) PROVE Nums(hist'[k]) \subseteq 1 .. doc.len
      <4>1. CASE k = current
        <5>1. hist'[k] = Glued(hist[k], Latest) BY <1>2, <2>3, <4>1
        <5>2. Nums(hist'[k]) = Nums(hist[k]) \cup Nums(Latest)
          BY <1>1, <1>2, <5>1, GluedIs
        <5>. QED BY <1>2, <5>2
      <4>2. CASE k # current BY <1>2, <2>3, <4>2
      <4>. QED BY <4>1, <4>2
    <3>. QED BY <1>2, <2>3, <3>1, <3>2
  <2>. QED BY <2>1, <2>2, <2>3, EndOutermostIs
<1>4. Shape' BY <1>1, <1>3 DEF Sane, Shape, nesting
<1>5. Known(TopOf(doc), doc.len, hist, pending)' BY <1>1, <1>3 DEF Sane, Known
<1>. QED BY <1>4, <1>5 DEF Sane

\* Undo and redo.
LEMMA SwapEntryIs ==
    ASSUME Sane, NEW k \in DOMAIN hist, SwapEntry(k)
    PROVE  /\ HasTop(doc', TopOf(doc'), doc.len)
           /\ TopOf(doc') = After(TopOf(doc), hist[k]) /\ doc'.len = doc.len
           /\ hist' \in Seq(Entries \ {<<>>}) /\ Len(hist') = Len(hist)
           /\ DOMAIN hist' = DOMAIN hist
           /\ \A j \in DOMAIN hist : j # k => hist'[j] = hist[j]
           /\ Nums(hist'[k]) = Nums(hist[k])
           /\ Swaps(TopOf(doc'), hist'[k], TopOf(doc))
           /\ Swaps(TopOf(doc), hist[k], TopOf(doc'))
           /\ \A n \in Numbers : n > doc'.len => Effective(TopOf(doc'), n) = Blank
<1>. DEFINE T == TopOf(doc)
            s == hist[k]
            r == Swapped(doc, s)
<1>1. doc' = r.doc /\ hist' = [hist EXCEPT ![k] = r.frags] BY DEF SwapEntry
<1>2. /\ s \in Entries /\ s # <<>> /\ HasTop(doc, T, doc.len) /\ T \in Tops
      /\ doc.len \in Nat /\ Nums(s) \subseteq 1 .. doc.len /\ k \in DOMAIN hist
      /\ hist \in Seq(Entries \ {<<>>})
  BY ShapeTypes, FileTypes DEF Sane, Shape, Known
<1>. HIDE DEF T, s
<1>3. /\ HasTop(r.doc, After(T, s), doc.len)
      /\ r.frags \in Entries /\ Nums(r.frags) = Nums(s) /\ Len(r.frags) = Len(s)
      /\ Swaps(After(T, s), r.frags, T)
  BY <1>2, SwappedIs
<1>4. Swaps(T, s, After(T, s)) BY <1>2, AfterSwaps
<1>5. r.frags # <<>>
  <2>1. Len(s) # 0 BY <1>2 DEF Entries
  <2>. QED BY <1>3, <2>1
<1>. HIDE DEF r
<1>6. TopOf(doc') = After(T, s) /\ doc'.len = doc.len BY <1>1, <1>3, TopIs
<1>7. /\ hist' \in Seq(Entries \ {<<>>}) /\ Len(hist') = Len(hist)
      /\ DOMAIN hist' = DOMAIN hist
      /\ \A j \in DOMAIN hist : j # k => hist'[j] = hist[j]
      /\ hist'[k] = r.frags
  BY <1>1, <1>2, <1>3, <1>5
<1>8. \A n \in Numbers : n > doc.len => Effective(After(T, s), n) = Blank
  BY <1>2, SwapIsKnown DEF Sane, T
<1>. QED BY <1>1, <1>3, <1>4, <1>6, <1>7, <1>8 DEF T, s

LEMMA SaneUndoRedo ==
    ASSUME Sane, NEW k \in DOMAIN hist, SwapEntry(k), current' \in 0 .. Len(hist),
           UNCHANGED <<pending, begun, line, changes>>
    PROVE  Sane'
<1>1. /\ HasTop(doc', TopOf(doc'), doc.len) /\ doc'.len = doc.len
      /\ hist' \in Seq(Entries \ {<<>>}) /\ Len(hist') = Len(hist)
      /\ DOMAIN hist' = DOMAIN hist
      /\ \A j \in DOMAIN hist : j # k => hist'[j] = hist[j]
      /\ Nums(hist'[k]) = Nums(hist[k])
      /\ \A n \in Numbers : n > doc'.len => Effective(TopOf(doc'), n) = Blank
  BY SwapEntryIs
<1>2. \A j \in DOMAIN hist : Nums(hist'[j]) \subseteq 1 .. doc.len
  BY <1>1 DEF Sane, Known
<1>3. Shape' BY <1>1 DEF Sane, Shape, nesting
<1>4. Known(TopOf(doc), doc.len, hist, pending)' BY <1>1, <1>2 DEF Sane, Known
<1>. QED BY <1>3, <1>4 DEF Sane

LEMMA DiscardIs ==
    ASSUME Shape, DiscardBetweenOperations
    PROVE  /\ nesting = 0 /\ hist' = <<>> /\ current' = 0
           /\ line' = <<line[current + 1]>>
           /\ UNCHANGED <<doc, pending, begun, changes>>
<1>1. nesting = 0 BY DEF DiscardBetweenOperations
<1>2. pending = <<>> /\ begun = <<>>
  BY <1>1 DEF Shape, nesting
<1>. QED BY <1>1, <1>2 DEF DiscardBetweenOperations, Discard

LEMMA SaneDiscard == Sane /\ DiscardBetweenOperations => Sane'
<1>. SUFFICES ASSUME Sane, DiscardBetweenOperations PROVE Sane'
  OBVIOUS
<1>1. /\ hist' = <<>> /\ current' = 0 /\ line' = <<line[current + 1]>>
      /\ UNCHANGED <<doc, pending, begun, changes>>
  BY DiscardIs DEF Sane
<1>2. line[current + 1] \in ShownOriginals BY DEF Sane, Shape
<1>3. Shape' BY <1>1, <1>2 DEF Sane, Shape, nesting
<1>4. Known(TopOf(doc), doc.len, hist, pending)' BY <1>1 DEF Sane, Known
<1>. QED BY <1>3, <1>4 DEF Sane

LEMMA NextSane == Sane /\ [Next]_vars => Sane'
<1>. SUFFICES ASSUME Sane, [Next]_vars PROVE Sane'
  OBVIOUS
<1>1. CASE \E titled \in BOOLEAN : Begin(titled) BY <1>1, SaneBegin
<1>2. CASE \E v \in Values : AddObject(v) BY <1>2, SaneAddObject
<1>3. CASE \E n \in Numbers : Load(n) BY <1>3, SaneLoad
<1>4. CASE \E n \in Numbers, c \in Available : Alter(n, c) \/ Update(n, c)
  BY <1>4, SaneAlter, SaneUpdate
<1>5. CASE Abandon BY <1>5, SaneAbandon
<1>6. CASE EndNested BY <1>6, SaneEndNested
<1>7. CASE EndOutermost BY <1>7, SaneEndOutermost
<1>8. CASE Undo
  <2>1. current \in DOMAIN hist /\ current - 1 \in 0 .. Len(hist)
    BY <1>8 DEF Undo, Sane, Shape
  <2>. QED BY <1>8, <2>1, SaneUndoRedo DEF Undo
<1>9. CASE Redo
  <2>1. current + 1 \in DOMAIN hist /\ current + 1 \in 0 .. Len(hist)
    BY <1>9 DEF Redo, Sane, Shape
  <2>. QED BY <1>9, <2>1, SaneUndoRedo DEF Redo
<1>10. CASE DiscardBetweenOperations BY <1>10, SaneDiscard
<1>11. CASE UNCHANGED vars
  BY <1>11 DEF vars, Sane, Shape, Known, nesting
<1>. QED BY <1>1, <1>2, <1>3, <1>4, <1>5, <1>6, <1>7, <1>8, <1>9, <1>10, <1>11 DEF Next

LEMMA AlwaysSane == Spec => []Sane
BY InitSane, NextSane, PTL DEF Spec

\* The variables keep their types, whether or not callers stash what they
\* replace.
THEOREM JournalIsWellTyped == Spec => []TypeOK
<1>1. Sane => TypeOK
  <2>. SUFFICES ASSUME Sane PROVE TypeOK
    OBVIOUS
  <2>. DEFINE T == TopOf(doc)
              L == Len(File)
  <2>1. PICK index : IsDocument(doc, T, index, doc.len) BY DEF Sane, Shape, HasTop
  <2>2. /\ T \in Tops /\ index \in Indexes /\ doc \in Documents
        /\ doc.len \in 0 .. MaxObject /\ L \in Nat \ {0}
    BY <2>1, FileTypes DEF IsDocument
  <2>3. Tops \subseteq [Numbers -> EntryType]
    BY DEF Tops, Slot, EntryType, Blank
  <2>4. doc.sections \in Seq([Numbers -> EntryType])
    <3>1. doc.sections \in Seq(Tops) BY <2>2 DEF Documents
    <3>. QED BY <2>3, <3>1, SeqMonotonic
  <2>5. doc.index \in [Numbers -> 1 .. Len(doc.sections)] /\ doc.incremental \in BOOLEAN
    <3>1. CASE doc.incremental
      <4>1. doc.sections = <<T>> \o File /\ doc.index = index
        BY <2>1, <3>1 DEF IsDocument
      <4>2. Len(doc.sections) = L + 1 BY <2>2, <4>1, SectionsOf
      <4>. QED BY <2>2, <4>1, <4>2 DEF Indexes, Documents
    <3>2. CASE ~doc.incremental
      <4>1. doc.sections = File /\ \A n \in Numbers : index[n] = doc.index[n] + 1 /\ index[n] > 1
        BY <2>1, <3>2 DEF IsDocument
      <4>2. \A n \in Numbers : index[n] \in 1 .. L + 1 /\ doc.index[n] \in Nat
        BY <2>2 DEF Indexes, Documents
      <4>3. \A n \in Numbers : doc.index[n] \in 1 .. L BY <2>2, <4>1, <4>2
      <4>. QED BY <2>2, <4>1, <4>3 DEF Documents
    <3>. QED BY <3>1, <3>2
  <2>6. Pieces \subseteq Fragments BY DEF Pieces
  <2>7. Entries \subseteq Seq(Fragments)
    <3>1. Seq(Pieces) \subseteq Seq(Fragments) BY <2>6, SeqMonotonic
    <3>. QED BY <3>1 DEF Entries
  <2>8. hist \in Seq(Seq(Fragments) \ {<<>>})
    <3>1. Entries \ {<<>>} \subseteq Seq(Fragments) \ {<<>>} BY <2>7
    <3>. QED BY <3>1, SeqMonotonic DEF Sane, Shape
  <2>9. pending \in Seq([titled : BOOLEAN, frags : Seq(Fragments)])
    <3>1. Operations \subseteq [titled : BOOLEAN, frags : Seq(Fragments)]
      BY <2>7 DEF Operations
    <3>. QED BY <3>1, SeqMonotonic DEF Sane, Shape
  <2>10. /\ current \in 0 .. Len(hist) /\ Len(begun) = nesting
         /\ Len(line) = Len(hist) + 1 /\ changes \in 0 .. MaxChanges
         /\ begun \in Seq([Numbers -> Contents \cup {NoObject}])
         /\ line \in Seq([Originals -> Contents \cup {NoObject}])
    BY DEF Sane, Shape, Shown, ShownOriginals
  <2>. QED BY <2>2, <2>4, <2>5, <2>8, <2>9, <2>10 DEF TypeOK
<1>. QED BY <1>1, AlwaysSane, PTL

\* pdf_get_xref_entry finds the newest definition of every object, whatever
\* has been changed, undone and looked up before.
THEOREM ReadingFindsNewest == Spec => []IndexFindsNewest
<1>1. Sane => IndexFindsNewest
  <2>. SUFFICES ASSUME Sane, NEW n \in Numbers, NEW i \in 1 .. doc.index[n] - 1
                PROVE  doc.sections[i][n].type = "none"
    BY DEF IndexFindsNewest
  <2>. DEFINE T == TopOf(doc)
              L == Len(File)
  <2>1. PICK index : IsDocument(doc, T, index, doc.len) BY DEF Sane, Shape, HasTop
  <2>2. /\ T \in Tops /\ index[n] \in 1 .. L + 1 /\ doc.index[n] \in Nat /\ L \in Nat
        /\ index[n] > 1 => T[n] = Blank
        /\ \A j \in 1 .. L : j + 1 < index[n] => File[j][n] = Blank
    BY <2>1, FileTypes DEF IsDocument, Indexes, Documents, Leads
  <2>3. CASE doc.incremental
    <3>1. doc.sections = <<T>> \o File /\ doc.index = index
      BY <2>1, <2>3 DEF IsDocument
    <3>2. doc.sections[1] = T /\ \A j \in 1 .. L : doc.sections[j + 1] = File[j]
      BY <2>2, <3>1, SectionsOf
    <3>3. CASE i = 1 BY <2>2, <3>1, <3>2, <3>3 DEF Blank
    <3>4. CASE i # 1
      <4>1. i - 1 \in 1 .. L /\ (i - 1) + 1 = i /\ i < index[n] BY <2>2, <3>1, <3>4
      <4>2. doc.sections[i] = File[i - 1] /\ File[i - 1][n] = Blank
        BY <2>2, <3>2, <4>1
      <4>. QED BY <4>2 DEF Blank
    <3>. QED BY <3>3, <3>4
  <2>4. CASE ~doc.incremental
    <3>1. doc.sections = File /\ index[n] = doc.index[n] + 1
      BY <2>1, <2>4 DEF IsDocument
    <3>2. i \in 1 .. L /\ i + 1 < index[n] BY <2>2, <3>1
    <3>. QED BY <2>2, <3>1, <3>2 DEF Blank
  <2>. QED BY <2>3, <2>4
<1>. QED BY <1>1, AlwaysSane, PTL

LEMMA OnceIsCounted ==
    ASSUME NEW s \in Entries
    PROVE  Cardinality(Nums(s)) = Len(s)
<1>. DEFINE n == Len(s)
            f == [i \in 1 .. n |-> s[i].num]
<1>1. n \in Nat /\ DOMAIN s = 1 .. n /\ Once(s) BY DEF Entries
<1>2. f \in Bijection(1 .. n, Nums(s))
  BY <1>1 DEF Bijection, Injection, Surjection, IsInjective, Nums, Once
<1>. HIDE DEF f, n
<1>3. IsFiniteSet(1 .. n) /\ Cardinality(1 .. n) = n BY <1>1, FS_Interval
<1>4. ExistsBijection(1 .. n, Nums(s)) BY <1>2 DEF ExistsBijection
<1>. QED BY <1>3, <1>4, FS_Bijection DEF n

\* resolve_undo and the check before a fragment is recorded leave no object
\* twice in an entry, however operations nest and are glued together.
THEOREM EntriesStaySimple == Spec => []OnceInEntry
<1>1. Sane => OnceInEntry
  BY ShapeTypes, OnceIsCounted DEF Sane, OnceInEntry
<1>. QED BY <1>1, AlwaysSane, PTL

-----------------------------------------------------------------------------
(* The tops that abandoning, undoing and redoing lead back to.             *)

\* No object gets lost.
Grows(T, U) == \A n \in Numbers : T[n] # Blank => U[n] # Blank

\* An object that is referred to exists.
Resolves(T) ==
    \A n \in Numbers :
        Effective(T, n).obj \in Numbers => Effective(T, Effective(T, n).obj) # Blank

\* G holds the tops at the start of each operation p, which b shows, and T.
Openings(G, p, b, T) ==
    /\ G \in [1 .. Len(p) + 1 -> Tops] /\ G[Len(p) + 1] = T
    /\ \A k \in 1 .. Len(p) : /\ Swaps(G[k + 1], p[k].frags, G[k])
                              /\ Grows(G[k], G[k + 1])
                              /\ Sight(G[k]) = b[k]
    /\ \A k \in 1 .. Len(p) + 1 : Resolves(G[k])

\* V holds the tops along the history h, which l shows, with T after c entries.
Timeline(V, h, c, l, T) ==
    /\ V \in [0 .. Len(h) -> Tops] /\ V[c] = T
    /\ \A k \in 1 .. Len(h) : /\ k <= c => Swaps(V[k], h[k], V[k - 1])
                              /\ k > c => Swaps(V[k - 1], h[k], V[k])
                              /\ Grows(V[k - 1], V[k])
    /\ \A k \in 0 .. Len(h) : /\ Resolves(V[k])
                              /\ \A n \in Originals : Sight(V[k])[n] = l[k + 1][n]

HasOpenings(p, b, T, U) == \E G : Openings(G, p, b, T) /\ G[1] = U

HasTimeline(h, c, l, T) == \E V : Timeline(V, h, c, l, T)

\* As long as something can be redone, open operations have only added
\* objects: none that it is about, and none of the file.
Untouched(p, h, c) ==
    Len(h) > c => \A k \in 1 .. Len(p) : \A n \in Nums(p[k].frags) :
                      n \notin Originals /\ \A j \in c + 1 .. Len(h) : n \notin Nums(h[j])

Recoverable ==
    /\ \E G, V : /\ Openings(G, pending, begun, TopOf(doc))
                 /\ Timeline(V, hist, current, line, G[1])
    /\ Untouched(pending, hist, current)

LEMMA GrowsOn ==
    ASSUME NEW T \in Tops, NEW U \in Tops, NEW W \in Tops, Grows(T, U), Grows(U, W)
    PROVE  Grows(T, W)
BY DEF Grows

LEMMA EffectiveGrows ==
    ASSUME NEW T \in Tops, NEW U \in Tops, Grows(T, U),
           NEW n \in Numbers, Effective(T, n) # Blank
    PROVE  Effective(U, n) # Blank
BY DEF Grows, Effective

\* Writing what resolves.
LEMMA WriteResolves ==
    ASSUME NEW T \in Tops, NEW n \in Numbers, NEW c \in Contents,
           c \in Numbers => Effective(T, c) # Blank, Resolves(T)
    PROVE  LET W == [T EXCEPT ![n] = [type |-> "n", obj |-> c]] IN
           W \in Tops /\ Grows(T, W) /\ Resolves(W)
<1>. DEFINE e == [type |-> "n", obj |-> c]
            W == [T EXCEPT ![n] = e]
<1>1. e \in Slot /\ e # Blank /\ e.obj = c BY DEF Slot, Blank
<1>. HIDE DEF e
<1>2. W \in Tops /\ W[n] = e /\ \A x \in Numbers : x # n => W[x] = T[x]
  BY <1>1 DEF Tops
<1>. HIDE DEF W
<1>3. Grows(T, W) BY <1>1, <1>2 DEF Grows
<1>4. ASSUME NEW x \in Numbers, Effective(W, x).obj \in Numbers
      PROVE  Effective(W, Effective(W, x).obj) # Blank
  <2>1. CASE x = n
    <3>1. Effective(W, x) = e BY <1>1, <1>2, <2>1 DEF Effective
    <3>. QED BY <1>1, <1>2, <1>3, <1>4, <3>1, EffectiveGrows
  <2>2. CASE x # n
    <3>1. Effective(W, x) = Effective(T, x) BY <1>2, <2>2 DEF Effective
    <3>2. Effective(T, Effective(T, x).obj) # Blank BY <1>4, <3>1 DEF Resolves
    <3>. QED BY <1>2, <1>3, <1>4, <3>1, <3>2, EffectiveGrows
  <2>. QED BY <2>1, <2>2
<1>. QED BY <1>2, <1>3, <1>4 DEF Resolves, W, e

LEMMA InitRecoverable == Init => Recoverable
<1>. SUFFICES ASSUME Init PROVE Recoverable
  OBVIOUS
<1>. DEFINE T == BlankTop
            G == [k \in 1 .. 1 |-> T]
            V == [k \in 0 .. 0 |-> T]
<1>1. HasTop(doc, T, doc.len) /\ TopOf(doc) = T BY OpenedIs, TopIs DEF Init
<1>2. T \in Tops BY <1>1 DEF HasTop, IsDocument
<1>3. /\ hist = <<>> /\ current = 0 /\ pending = <<>> /\ begun = <<>>
      /\ line = <<Seen(doc)>>
  BY DEF Init
<1>4. Seen(doc) = [n \in Originals |-> Sight(T)[n]] BY <1>1, ReadIs
<1>5. Resolves(T)
  <2>. SUFFICES ASSUME NEW n \in Numbers PROVE Effective(T, n).obj \notin Numbers
    BY DEF Resolves
  <2>. DEFINE F == {k \in DOMAIN File : File[k][n].type # "none"}
              S == {Blank} \cup [type : {"n"}, obj : Values]
  <2>1. Effective(T, n) = Stored(n) BY DEF Effective, BlankTop
  <2>2. F \in SUBSET Nat BY FileTypes
  <2>3. F # {} => Min(F) \in F
    <3>. HIDE DEF F
    <3>. QED BY <2>2, MinIsLeast
  <2>4. \A k \in DOMAIN File : File[k] \in [Numbers -> S]
    BY FileAssumption
  <2>5. \A k \in DOMAIN File : File[k][n] \in S
    <3>. HIDE DEF S
    <3>. QED BY <2>4
  <2>6. Stored(n) \in S
    <3>. HIDE DEF S
    <3>1. Blank \in S BY DEF S
    <3>. QED BY <2>3, <2>5, <3>1 DEF Stored
  <2>7. \A e \in S : e.obj \notin Numbers
    BY FileAssumption DEF Blank, Contents
  <2>. QED BY <2>1, <2>6, <2>7
<1>. HIDE DEF T
<1>6. Openings(G, pending, begun, TopOf(doc))
  BY <1>1, <1>2, <1>3, <1>5 DEF Openings
<1>7. Timeline(V, hist, current, line, G[1])
  <2>1. line[0 + 1] = Seen(doc) BY <1>3
  <2>2. \A n \in Originals : Sight(T)[n] = line[0 + 1][n] BY <1>4, <2>1
  <2>3. Len(hist) = 0 /\ 1 .. 0 = {} /\ \A k \in 0 .. 0 : k = 0 BY <1>3
  <2>. QED BY <1>2, <1>3, <1>5, <2>2, <2>3 DEF Timeline
<1>8. Untouched(pending, hist, current) BY <1>3 DEF Untouched
<1>. HIDE DEF G, V
<1>. QED BY <1>6, <1>7, <1>8 DEF Recoverable

\* What is the same in every step: the tops before it.
Tracked(G, V) ==
    /\ Openings(G, pending, begun, TopOf(doc))
    /\ Timeline(V, hist, current, line, G[1])

LEMMA OpeningTypes ==
    ASSUME Sane, NEW G, NEW V, Tracked(G, V)
    PROVE  /\ G \in [1 .. nesting + 1 -> Tops] /\ G[nesting + 1] = TopOf(doc)
           /\ DOMAIN G = 1 .. nesting + 1
           /\ \A k \in 1 .. nesting + 1 : G[k] \in Tops /\ Resolves(G[k])
           /\ \A k \in 1 .. nesting : /\ Swaps(G[k + 1], pending[k].frags, G[k])
                                      /\ Grows(G[k], G[k + 1])
                                      /\ Sight(G[k]) = begun[k]
           /\ nesting \in Nat /\ Len(pending) = nesting
           /\ nesting > 0 => Swaps(TopOf(doc), Latest, G[nesting])
           /\ V \in [0 .. Len(hist) -> Tops] /\ V[current] = G[1]
           /\ \A k \in 0 .. Len(hist) : V[k] \in Tops
<1>1. nesting \in Nat BY ShapeTypes DEF Sane
<1>2. nesting > 0 => nesting \in 1 .. nesting BY <1>1
<1>. QED BY <1>1, <1>2 DEF Tracked, Openings, Timeline, nesting, Latest

LEMMA TrackBegin ==
    ASSUME Sane, NEW G, NEW V, Tracked(G, V), NEW titled \in BOOLEAN, Begin(titled)
    PROVE  \E H : Tracked(H, V)'
<1>. DEFINE m == nesting
            T == TopOf(doc)
            o == [titled |-> titled, frags |-> <<>>]
            more == [k \in 1 .. m + 2 |-> IF k = m + 2 THEN T ELSE G[k]]
<1>1. /\ pending' = Append(pending, o) /\ begun' = Append(begun, Read(doc))
      /\ UNCHANGED <<doc, hist, current, line>>
  BY DEF Begin
<1>2. /\ pending \in Seq(Operations) /\ Len(pending) = m /\ m \in Nat
      /\ begun \in Seq(Shown) /\ Len(begun) = m /\ HasTop(doc, T, doc.len) /\ T \in Tops
  BY ShapeTypes DEF Sane, Shape, nesting
<1>3. /\ G \in [1 .. m + 1 -> Tops] /\ G[m + 1] = T /\ DOMAIN G = 1 .. m + 1
      /\ \A k \in 1 .. m + 1 : G[k] \in Tops /\ Resolves(G[k])
      /\ \A k \in 1 .. m : /\ Swaps(G[k + 1], pending[k].frags, G[k])
                           /\ Grows(G[k], G[k + 1])
                           /\ Sight(G[k]) = begun[k]
  BY OpeningTypes
<1>4. Read(doc) = Sight(T) BY <1>2, ReadIs
<1>5. /\ Len(pending') = m + 1 /\ pending'[m + 1].frags = <<>>
      /\ \A k \in 1 .. m : pending'[k] = pending[k]
      /\ begun'[m + 1] = Sight(T) /\ \A k \in 1 .. m : begun'[k] = begun[k]
  BY <1>1, <1>2, <1>4
<1>6. Swaps(T, <<>>, T) /\ Grows(T, T) BY <1>2 DEF Swaps, Grows, Nums
<1>7. PICK H : H = more OBVIOUS
<1>. HIDE DEF T, m
<1>8. \A k \in 1 .. m + 2 : k \in 1 .. m + 1 \/ k = m + 2
  BY <1>2
<1>9. \A k \in 1 .. m + 1 : k \in 1 .. m + 2 /\ k # m + 2
  BY <1>2
<1>10. /\ \A k \in 1 .. m + 1 : H[k] = G[k]
       /\ H[m + 2] = T
  <2>1. m + 2 \in 1 .. m + 2 BY <1>2
  <2>. QED BY <1>7, <1>9, <2>1
<1>11. H \in [1 .. m + 2 -> Tops]
  <2>1. \A k \in 1 .. m + 2 : H[k] \in Tops BY <1>2, <1>3, <1>8, <1>10
  <2>2. H = [k \in 1 .. m + 2 |-> H[k]] BY <1>7
  <2>. QED BY <2>1, <2>2
<1>12. ASSUME NEW k \in 1 .. m + 1
       PROVE  /\ Swaps(H[k + 1], pending'[k].frags, H[k])
              /\ Grows(H[k], H[k + 1])
              /\ Sight(H[k]) = begun'[k]
  <2>1. CASE k = m + 1
    <3>1. H[k] = T /\ H[k + 1] = T
      <4>1. k + 1 = m + 2 BY <1>2, <2>1
      <4>. QED BY <1>3, <1>10, <2>1, <4>1
    <3>. QED BY <1>5, <1>6, <2>1, <3>1
  <2>2. CASE k # m + 1
    <3>1. k \in 1 .. m /\ k + 1 \in 1 .. m + 1 BY <1>2, <2>2
    <3>2. H[k] = G[k] /\ H[k + 1] = G[k + 1] BY <1>10, <3>1
    <3>. QED BY <1>3, <1>5, <3>1, <3>2
  <2>. QED BY <2>1, <2>2
<1>13. \A k \in 1 .. m + 2 : Resolves(H[k])
  <2>1. Resolves(T)
    <3>1. m + 1 \in 1 .. m + 1 BY <1>2
    <3>. QED BY <1>3, <3>1
  <2>. QED BY <1>3, <1>8, <1>10, <2>1
<1>14. TopOf(doc') = T BY <1>1 DEF T
<1>15. Len(pending') + 1 = m + 2 BY <1>2, <1>5
<1>16. Openings(H, pending', begun', TopOf(doc'))
  BY <1>5, <1>10, <1>11, <1>12, <1>13, <1>14, <1>15 DEF Openings
<1>17. H[1] = G[1]
  <2>1. 1 \in 1 .. m + 1 BY <1>2
  <2>. QED BY <1>10, <2>1
<1>18. Timeline(V, hist', current', line', H[1]) BY <1>1, <1>17 DEF Tracked
<1>. QED BY <1>16, <1>18 DEF Tracked

\* The object written was stashed, or is now.
LEMMA OpeningsWrite ==
    ASSUME Sane, NEW G, NEW V, Tracked(G, V), NEW n \in Numbers, NEW c \in Contents,
           Wrote(n, c), c \in Numbers => Effective(TopOf(doc), c) # Blank,
           UNCHANGED begun
    PROVE  \E H : /\ Openings(H, pending', begun', TopOf(doc')) /\ H[1] = G[1]
                  /\ Len(pending') = nesting
                  /\ \A k \in 1 .. nesting :
                        Nums(pending'[k].frags) \subseteq Nums(pending[k].frags) \cup {n}
<1>. DEFINE m == nesting
            T == TopOf(doc)
            e == [type |-> "n", obj |-> c]
            W == [T EXCEPT ![n] = e]
            more == [k \in 1 .. m + 1 |-> IF k = m + 1 THEN W ELSE G[k]]
<1>1. /\ G \in [1 .. m + 1 -> Tops] /\ G[m + 1] = T
      /\ \A k \in 1 .. m + 1 : G[k] \in Tops /\ Resolves(G[k])
      /\ \A k \in 1 .. m : /\ Swaps(G[k + 1], pending[k].frags, G[k])
                           /\ Grows(G[k], G[k + 1])
                           /\ Sight(G[k]) = begun[k]
      /\ m \in Nat /\ Len(pending) = m
      /\ m > 0 => Swaps(T, Latest, G[m])
  BY OpeningTypes
<1>2. m > 0 /\ m \in 1 .. m /\ T \in Tops /\ Resolves(T)
  <2>1. m > 0 BY DEF Wrote
  <2>2. m + 1 \in 1 .. m + 1 BY <1>1
  <2>. QED BY <1>1, <2>1, <2>2
<1>3. W \in Tops /\ Grows(T, W) /\ Resolves(W)
  <2>. HIDE DEF T
  <2>. QED BY <1>2, WriteResolves DEF T
<1>4. TopOf(doc') = W /\ Len(pending') = m BY WroteIs
<1>5. e \in Slot BY DEF Slot
<1>6. /\ Swaps(W, pending'[m].frags, G[m])
      /\ \A k \in 1 .. m - 1 : pending'[k] = pending[k]
      /\ Nums(pending'[m].frags) \subseteq Nums(pending[m].frags) \cup {n}
  <2>1. CASE n \in Nums(Latest)
    <3>1. pending' = pending BY <2>1 DEF Wrote
    <3>2. \A x \in Numbers : x # n => W[x] = T[x]
      <4>. HIDE DEF e, T
      <4>. QED BY <1>2 DEF Tops
    <3>. HIDE DEF W, T
    <3>3. Swaps(W, Latest, G[m]) BY <1>1, <1>2, <2>1, <3>2 DEF Swaps
    <3>. QED BY <3>1, <3>3 DEF Latest
  <2>2. CASE n \notin Nums(Latest)
    <3>1. PICK f \in Pieces : f.num = n /\ Was(f) = T[n] /\ Stash(f)
      BY <2>2 DEF Wrote
    <3>2. /\ \A k \in 1 .. m - 1 : pending'[k] = pending[k]
          /\ pending'[m].frags = Append(Latest, f)
          /\ Nums(Append(Latest, f)) = Nums(Latest) \cup {n}
          /\ \A X, U : Swaps(X, Latest, U) /\ X \in Tops
               => \A y \in Slot : Was(f) = X[n]
                    => Swaps([X EXCEPT ![n] = y], Append(Latest, f), U)
      BY <1>2, <2>2, <3>1, StashIs DEF Sane
    <3>. HIDE DEF T, e
    <3>3. Swaps(W, Append(Latest, f), G[m]) BY <1>1, <1>2, <1>5, <3>1, <3>2
    <3>. QED BY <3>2, <3>3 DEF Latest
  <2>. QED BY <2>1, <2>2
<1>7. PICK H : H = more OBVIOUS
<1>. HIDE DEF T, W, m
<1>8. \A k \in 1 .. m + 1 : k \in 1 .. m \/ k = m + 1
  BY <1>1
<1>9. \A k \in 1 .. m : k \in 1 .. m + 1 /\ k # m + 1
  BY <1>1
<1>10. m + 1 \in 1 .. m + 1
  BY <1>1
<1>11. H[m + 1] = W /\ \A k \in 1 .. m : H[k] = G[k]
  BY <1>7, <1>9, <1>10
<1>12. H \in [1 .. m + 1 -> Tops]
  <2>1. \A k \in 1 .. m + 1 : H[k] \in Tops BY <1>1, <1>3, <1>8, <1>9, <1>11
  <2>2. H = [k \in 1 .. m + 1 |-> H[k]] BY <1>7
  <2>. QED BY <2>1, <2>2
<1>13. ASSUME NEW k \in 1 .. m
       PROVE  /\ Swaps(H[k + 1], pending'[k].frags, H[k])
              /\ Grows(H[k], H[k + 1])
              /\ Sight(H[k]) = begun'[k]
  <2>1. CASE k = m
    <3>1. Grows(G[m], W) BY <1>1, <1>2, <1>3, <1>9, GrowsOn
    <3>. QED BY <1>1, <1>6, <1>11, <2>1, <3>1
  <2>2. CASE k # m
    <3>1. k + 1 \in 1 .. m /\ k \in 1 .. m - 1 BY <1>1, <2>2
    <3>. QED BY <1>1, <1>6, <1>11, <3>1
  <2>. QED BY <2>1, <2>2
<1>14. \A k \in 1 .. m + 1 : Resolves(H[k]) BY <1>1, <1>3, <1>8, <1>9, <1>11
<1>15. Openings(H, pending', begun', TopOf(doc'))
  BY <1>4, <1>11, <1>12, <1>13, <1>14 DEF Openings
<1>16. H[1] = G[1]
  <2>1. 1 \in 1 .. m BY <1>1, <1>2
  <2>. QED BY <1>11, <2>1
<1>17. ASSUME NEW k \in 1 .. m
       PROVE  Nums(pending'[k].frags) \subseteq Nums(pending[k].frags) \cup {n}
  <2>1. CASE k = m BY <1>6, <2>1
  <2>2. CASE k # m
    <3>1. k \in 1 .. m - 1 BY <1>1, <2>2
    <3>. QED BY <1>6, <3>1
  <2>. QED BY <2>1, <2>2
<1>. QED BY <1>4, <1>15, <1>16, <1>17 DEF m

LEMMA RecoverAddObject ==
    ASSUME Sane, Recoverable, NEW v \in Values, AddObject(v)
    PROVE  Recoverable'
<1>. DEFINE n == doc.len + 1
<1>1. PICK G, V : Tracked(G, V) BY DEF Recoverable, Tracked
<1>2. /\ n \in Numbers /\ Wrote(n, v) /\ v \in Contents /\ Stored(n) = Blank
  BY AddObjectWrites
<1>3. v \notin Numbers BY FileAssumption
<1>4. UNCHANGED <<hist, current, begun, line>> BY DEF AddObject
<1>5. doc.len \in Nat BY ShapeTypes, FileTypes DEF Sane
<1>6. \A k \in DOMAIN hist : n \notin Nums(hist[k])
  <2>1. ~(n \in 1 .. doc.len) BY <1>5
  <2>. QED BY <2>1 DEF Sane, Known
<1>7. n \notin Originals
  <2>. DEFINE F == {i \in DOMAIN File : File[i][n].type # "none"}
  <2>. SUFFICES ASSUME F # {} PROVE FALSE
    BY DEF Originals
  <2>1. F \in SUBSET Nat BY FileTypes
  <2>2. Stored(n) = File[Min(F)][n] BY DEF Stored
  <2>3. Min(F) \in F
    <3>. HIDE DEF F
    <3>. QED BY <2>1, MinIsLeast
  <2>. QED BY <1>2, <2>2, <2>3 DEF Blank
<1>. HIDE DEF n
<1>8. PICK H : /\ Openings(H, pending', begun', TopOf(doc')) /\ H[1] = G[1]
               /\ Len(pending') = nesting
               /\ \A k \in 1 .. nesting :
                     Nums(pending'[k].frags) \subseteq Nums(pending[k].frags) \cup {n}
  BY <1>1, <1>2, <1>3, <1>4, OpeningsWrite
<1>9. Timeline(V, hist', current', line', H[1]) BY <1>1, <1>4, <1>8 DEF Tracked
<1>10. Untouched(pending', hist', current')
  <2>. SUFFICES ASSUME Len(hist) > current, NEW k \in 1 .. nesting,
                       NEW x \in Nums(pending'[k].frags)
                PROVE  x \notin Originals /\ \A j \in current + 1 .. Len(hist) : x \notin Nums(hist[j])
    BY <1>4, <1>8 DEF Untouched
  <2>1. \A j \in current + 1 .. Len(hist) : j \in DOMAIN hist
    BY ShapeTypes DEF Sane, Shape
  <2>2. CASE x = n BY <1>6, <1>7, <2>1, <2>2
  <2>3. CASE x \in Nums(pending[k].frags)
    BY <2>3 DEF Recoverable, Untouched, nesting
  <2>. QED BY <1>8, <2>2, <2>3
<1>. QED BY <1>8, <1>9, <1>10 DEF Recoverable

\* The line up to here.
LEMMA TimelineCut ==
    ASSUME NEW V, NEW h, NEW c \in 0 .. Len(h), NEW l, NEW T, Timeline(V, h, c, l, T),
           Len(h) \in Nat, NEW i, Len(i) = c, \A k \in 1 .. c : i[k] = h[k],
           NEW p, \A k \in 1 .. c + 1 : p[k] = l[k]
    PROVE  HasTimeline(i, c, p, T)
<1>. DEFINE U == [k \in 0 .. c |-> V[k]]
<1>1. \A k \in 0 .. c : k \in 0 .. Len(h) /\ U[k] = V[k] /\ V[k] \in Tops
  BY DEF Timeline
<1>2. U \in [0 .. c -> Tops] /\ U[c] = T
  BY <1>1 DEF Timeline
<1>3. ASSUME NEW k \in 1 .. c
      PROVE  Swaps(U[k], i[k], U[k - 1]) /\ Grows(U[k - 1], U[k])
  <2>1. k \in 1 .. Len(h) /\ k \in 0 .. c /\ k - 1 \in 0 .. c /\ k <= c OBVIOUS
  <2>. QED BY <1>1, <2>1 DEF Timeline
<1>4. ASSUME NEW k \in 0 .. c
      PROVE  Resolves(U[k]) /\ \A n \in Originals : Sight(U[k])[n] = p[k + 1][n]
  <2>1. k + 1 \in 1 .. c + 1 OBVIOUS
  <2>. QED BY <1>1, <2>1 DEF Timeline
<1>. HIDE DEF U
<1>5. \A k \in 1 .. c : k <= c /\ ~(k > c) OBVIOUS
<1>6. Timeline(U, i, c, p, T) BY <1>2, <1>3, <1>4, <1>5 DEF Timeline
<1>. QED BY <1>6 DEF HasTimeline

LEMMA RecoverAlter ==
    ASSUME Sane, Recoverable, NEW n \in Numbers, NEW c \in Available, Alter(n, c)
    PROVE  Recoverable'
<1>1. PICK G, V : Tracked(G, V) BY DEF Recoverable, Tracked
<1>2. /\ Wrote(n, c) /\ c \in Contents
      /\ c \in Numbers => Effective(TopOf(doc), c) # Blank
  BY AlterWrites, AvailableTypes DEF Sane
<1>3. /\ hist' = SubSeq(hist, 1, current) /\ line' = SubSeq(line, 1, current + 1)
      /\ UNCHANGED current /\ UNCHANGED begun
  BY DEF Alter
<1>4. PICK H : Openings(H, pending', begun', TopOf(doc')) /\ H[1] = G[1]
  BY <1>1, <1>2, <1>3, OpeningsWrite
<1>5. /\ Len(hist') = current /\ \A k \in 1 .. current : hist'[k] = hist[k]
      /\ \A k \in 1 .. current + 1 : line'[k] = line[k]
      /\ current \in 0 .. Len(hist) /\ Len(hist) \in Nat
  BY <1>3, CutHistory DEF Sane, Shape
<1>6. Timeline(V, hist, current, line, G[1]) BY <1>1 DEF Tracked
<1>7. \E U : Timeline(U, hist', current, line', G[1])
  <2>. PICK h : h = hist' OBVIOUS
  <2>. PICK l : l = line' OBVIOUS
  <2>1. /\ Len(h) = current /\ \A k \in 1 .. current : h[k] = hist[k]
        /\ \A k \in 1 .. current + 1 : l[k] = line[k]
    BY <1>5
  <2>2. HasTimeline(h, current, l, G[1])
    BY <1>5, <1>6, <2>1, TimelineCut
  <2>. QED BY <2>2 DEF HasTimeline
<1>8. PICK U : Timeline(U, hist', current, line', G[1]) BY <1>7
<1>9. Untouched(pending', hist', current')
  <2>1. ~(Len(hist') > current') BY <1>3, <1>5
  <2>. QED BY <2>1 DEF Untouched
<1>. QED BY <1>3, <1>4, <1>8, <1>9 DEF Recoverable

LEMMA RecoverUpdate ==
    ASSUME Sane, Recoverable, Unstashed = FALSE,
           NEW n \in Numbers, NEW c \in Available, Update(n, c)
    PROVE  Recoverable'
<1>1. PICK G, V : Tracked(G, V) BY DEF Recoverable, Tracked
<1>2. /\ Wrote(n, c) /\ c \in Contents
      /\ c \in Numbers => Effective(TopOf(doc), c) # Blank
  BY UpdateWrites, AvailableTypes DEF Sane
<1>3. UNCHANGED <<hist, current, pending, begun, line>> BY DEF Update
<1>4. PICK H : Openings(H, pending', begun', TopOf(doc')) /\ H[1] = G[1]
  BY <1>1, <1>2, <1>3, OpeningsWrite
<1>5. Timeline(V, hist', current', line', H[1]) BY <1>1, <1>3, <1>4 DEF Tracked
<1>6. Untouched(pending', hist', current') BY <1>3 DEF Recoverable
<1>. QED BY <1>4, <1>5, <1>6 DEF Recoverable

LEMMA RecoverBegin ==
    ASSUME Sane, Recoverable, NEW titled \in BOOLEAN, Begin(titled)
    PROVE  Recoverable'
<1>1. PICK G, V : Tracked(G, V) BY DEF Recoverable, Tracked
<1>2. PICK H : Tracked(H, V)' BY <1>1, TrackBegin
<1>3. pending' = Append(pending, [titled |-> titled, frags |-> <<>>])
      /\ UNCHANGED <<hist, current>>
  BY DEF Begin
<1>4. Untouched(pending', hist', current')
  <2>. DEFINE m == Len(pending)
              o == [titled |-> titled, frags |-> <<>>]
  <2>1. /\ Len(pending') = m + 1 /\ m \in Nat /\ Nums(pending'[m + 1].frags) = {}
        /\ \A k \in 1 .. m : pending'[k] = pending[k]
    <3>1. o.frags = <<>> /\ Nums(<<>>) = {} BY DEF Nums
    <3>2. pending \in Seq(Operations) /\ m \in Nat BY DEF Sane, Shape
    <3>. HIDE DEF o
    <3>3. pending'[m + 1] = o /\ Len(pending') = m + 1
          /\ \A k \in 1 .. m : pending'[k] = pending[k]
      BY <1>3, <3>2 DEF o
    <3>. QED BY <3>1, <3>2, <3>3
  <2>. HIDE DEF m
  <2>2. \A k \in 1 .. m + 1 : k \in 1 .. m \/ k = m + 1 BY <2>1
  <2>. QED BY <1>3, <2>1, <2>2 DEF Recoverable, Untouched, m
<1>. QED BY <1>2, <1>4 DEF Recoverable, Tracked

LEMMA RecoverAbandon ==
    ASSUME Sane, Recoverable, Abandon
    PROVE  Recoverable'
<1>. DEFINE m == nesting
            T == TopOf(doc)
<1>1. PICK G, V : Tracked(G, V) BY DEF Recoverable, Tracked
<1>2. m > 0 /\ UNCHANGED <<hist, current, line>> BY DEF Abandon
<1>3. /\ G \in [1 .. m + 1 -> Tops] /\ G[m + 1] = T
      /\ \A k \in 1 .. m + 1 : G[k] \in Tops /\ Resolves(G[k])
      /\ \A k \in 1 .. m : /\ Swaps(G[k + 1], pending[k].frags, G[k])
                           /\ Grows(G[k], G[k + 1])
                           /\ Sight(G[k]) = begun[k]
      /\ m \in Nat /\ Swaps(T, Latest, G[m])
  BY <1>1, <1>2, OpeningTypes
<1>4. TopOf(doc') = G[m]
  <2>1. TopOf(doc') = After(T, Latest) BY SaneAbandon
  <2>2. Latest \in Entries /\ T \in Tops BY <1>2, ShapeTypes DEF Sane
  <2>. QED BY <1>3, <2>1, <2>2, AfterSwaps, SwapsOnce
<1>5. /\ Len(pending') = m - 1 /\ \A k \in 1 .. m - 1 : pending'[k] = pending[k]
      /\ \A k \in 1 .. m - 1 : begun'[k] = begun[k]
  BY <1>2, FrontIs DEF Sane, Abandon
<1>6. PICK H : H = [k \in 1 .. m |-> G[k]] OBVIOUS
<1>. HIDE DEF m, T
<1>7. \A k \in 1 .. m : H[k] = G[k] /\ k \in 1 .. m + 1 BY <1>3, <1>6
<1>8. \A k \in 1 .. m - 1 : k \in 1 .. m /\ k + 1 \in 1 .. m BY <1>3
<1>9. (m - 1) + 1 = m /\ m \in 1 .. m /\ 1 \in 1 .. m BY <1>2, <1>3
<1>10. H \in [1 .. m -> Tops] BY <1>3, <1>6, <1>7
<1>11. Openings(H, pending', begun', TopOf(doc'))
  BY <1>3, <1>4, <1>5, <1>7, <1>8, <1>9, <1>10 DEF Openings
<1>12. Timeline(V, hist', current', line', H[1])
  BY <1>1, <1>2, <1>7, <1>9 DEF Tracked
<1>13. Untouched(pending', hist', current')
  BY <1>2, <1>3, <1>5, <1>8 DEF Recoverable, Untouched, m, nesting
<1>. QED BY <1>11, <1>12, <1>13 DEF Recoverable

LEMMA RecoverLoad ==
    ASSUME Sane, Recoverable, NEW n \in Numbers, Load(n)
    PROVE  Recoverable'
<1>1. TopOf(doc') = TopOf(doc) BY SaneLoad
<1>2. UNCHANGED <<hist, current, pending, begun, line>> BY DEF Load
<1>. QED BY <1>1, <1>2 DEF Recoverable

LEMMA RecoverEndNested ==
    ASSUME Sane, Recoverable, EndNested
    PROVE  Recoverable'
<1>. DEFINE m == nesting
            T == TopOf(doc)
            g == Glued(pending[m - 1].frags, Latest)
<1>1. PICK G, V : Tracked(G, V) BY DEF Recoverable, Tracked
<1>2. m > 1 /\ UNCHANGED <<doc, hist, current, line>> BY DEF EndNested
<1>3. /\ G \in [1 .. m + 1 -> Tops] /\ G[m + 1] = T
      /\ \A k \in 1 .. m + 1 : G[k] \in Tops /\ Resolves(G[k])
      /\ \A k \in 1 .. m : /\ Swaps(G[k + 1], pending[k].frags, G[k])
                           /\ Grows(G[k], G[k + 1])
                           /\ Sight(G[k]) = begun[k]
      /\ m \in Nat /\ Len(pending) = m /\ Swaps(T, Latest, G[m])
  BY <1>1, <1>2, OpeningTypes
<1>4. /\ m - 1 \in 1 .. m /\ Len(pending') = m - 1
      /\ \A k \in 1 .. m - 2 : pending'[k] = pending[k]
      /\ pending'[m - 1].frags = g
      /\ \A k \in 1 .. m - 1 : begun'[k] = begun[k]
  BY EndNestedIs DEF Sane
<1>5. /\ Nums(g) = Nums(pending[m - 1].frags) \cup Nums(Latest)
      /\ \A X, U, W : /\ Swaps(X, Latest, U)
                      /\ Swaps(U, pending[m - 1].frags, W)
                      => Swaps(X, g, W)
  <2>1. Latest \in Entries /\ pending[m - 1].frags \in Entries
    BY <1>2, <1>4, ShapeTypes DEF Sane
  <2>. QED BY <2>1, GluedIs
<1>6. PICK H : H = [k \in 1 .. m |-> IF k = m THEN T ELSE G[k]] OBVIOUS
<1>. HIDE DEF m, T, g
<1>7. \A k \in 1 .. m - 1 : k \in 1 .. m /\ k # m
  BY <1>3
<1>8. m \in 1 .. m /\ (m - 1) + 1 = m /\ m - 1 \in 1 .. m - 1 /\ 1 \in 1 .. m - 1
  BY <1>2, <1>3
<1>9. H[m] = T /\ \A k \in 1 .. m - 1 : H[k] = G[k]
  BY <1>6, <1>7, <1>8
<1>10. \A k \in 1 .. m : k \in 1 .. m + 1 /\ (k \in 1 .. m - 1 \/ k = m)
  BY <1>3
<1>11. m + 1 \in 1 .. m + 1 BY <1>3
<1>12. H \in [1 .. m -> Tops] /\ \A k \in 1 .. m : Resolves(H[k])
  <2>1. \A k \in 1 .. m : H[k] \in Tops /\ Resolves(H[k])
    BY <1>3, <1>9, <1>10, <1>11
  <2>2. H = [k \in 1 .. m |-> H[k]] BY <1>6
  <2>. QED BY <2>1, <2>2
<1>13. ASSUME NEW k \in 1 .. m - 1
       PROVE  /\ Swaps(H[k + 1], pending'[k].frags, H[k])
              /\ Grows(H[k], H[k + 1])
              /\ Sight(H[k]) = begun'[k]
  <2>1. CASE k = m - 1
    <3>1. H[k + 1] = T /\ H[k] = G[m - 1] BY <1>8, <1>9, <2>1
    <3>2. Swaps(G[m], pending[m - 1].frags, G[m - 1]) /\ Grows(G[m - 1], G[m])
      BY <1>3, <1>7, <1>8
    <3>3. Swaps(T, g, G[m - 1]) BY <1>3, <1>5, <3>2
    <3>4. Grows(G[m], T) BY <1>3, <1>8
    <3>5. Grows(G[m - 1], T)
      BY <1>3, <1>7, <1>8, <1>10, <1>11, <3>2, <3>4, GrowsOn
    <3>. QED BY <1>3, <1>4, <1>7, <2>1, <3>1, <3>3, <3>5
  <2>2. CASE k # m - 1
    <3>1. k \in 1 .. m - 2 /\ k + 1 \in 1 .. m - 1 BY <1>3, <2>2
    <3>. QED BY <1>3, <1>4, <1>7, <1>9, <3>1
  <2>. QED BY <2>1, <2>2
<1>14. TopOf(doc') = T BY <1>2 DEF T
<1>15. Openings(H, pending', begun', TopOf(doc'))
  BY <1>4, <1>8, <1>9, <1>12, <1>13, <1>14 DEF Openings
<1>16. H[1] = G[1] BY <1>8, <1>9
<1>17. Timeline(V, hist', current', line', H[1]) BY <1>1, <1>2, <1>16 DEF Tracked
<1>18. Untouched(pending', hist', current')
  <2>1. ASSUME NEW k \in 1 .. m - 1, NEW x \in Nums(pending'[k].frags)
        PROVE  \E j \in 1 .. m : x \in Nums(pending[j].frags)
    <3>1. CASE k = m - 1
      <4>1. x \in Nums(pending[m - 1].frags) \/ x \in Nums(Latest)
        BY <1>4, <1>5, <2>1, <3>1
      <4>. QED BY <1>7, <1>8, <4>1 DEF Latest, m
    <3>2. CASE k # m - 1
      <4>1. k \in 1 .. m - 2 /\ k \in 1 .. m BY <1>3, <3>2
      <4>. QED BY <1>4, <2>1, <4>1
    <3>. QED BY <3>1, <3>2
  <2>. QED BY <1>2, <1>3, <1>4, <2>1 DEF Recoverable, Untouched
<1>. QED BY <1>15, <1>17, <1>18 DEF Recoverable

\* Nothing is open.
LEMMA Outside ==
    ASSUME NEW p, p = <<>>, NEW b, NEW T \in Tops, Resolves(T)
    PROVE  HasOpenings(p, b, T, T)
<1>. DEFINE H == [k \in 1 .. 1 |-> T]
<1>1. Len(p) = 0 /\ 1 .. 0 = {} /\ \A k \in 1 .. 1 : k = 1 OBVIOUS
<1>2. Openings(H, p, b, T) BY <1>1 DEF Openings
<1>. QED BY <1>2 DEF HasOpenings

\* A version of the document with what an operation has done at the end.
Overlay(U, T, s) == [n \in Numbers |-> IF n \in Nums(s) THEN T[n] ELSE U[n]]

\* What is done at the end of an operation that becomes part of the last one
\* is done in all versions that can be redone as well.
LEMMA TimelineOverlay ==
    ASSUME NEW V, NEW h, NEW c \in 0 .. Len(h), NEW l, NEW T, NEW U,
           Timeline(V, h, c, l, U), Len(h) \in Nat,
           \A k \in 1 .. Len(h) : h[k] \in Entries,
           NEW s \in Entries, Swaps(T, s, U), Grows(U, T), T \in Tops, Resolves(T),
           Len(h) > c => \A n \in Nums(s) :
               n \notin Originals /\ \A j \in c + 1 .. Len(h) : n \notin Nums(h[j]),
           NEW i, Len(i) = Len(h), \A k \in 1 .. Len(h) : k # c => i[k] = h[k],
           c > 0 => i[c] = Glued(h[c], s),
           NEW p, \A k \in 1 .. Len(h) + 1 : k # c + 1 => p[k] = l[k],
           \A n \in Originals : Sight(T)[n] = p[c + 1][n]
    PROVE  HasTimeline(i, c, p, T)
<1>. DEFINE L == Len(h)
            O(k) == Overlay(V[k], T, s)
            W == [k \in 0 .. L |-> IF k < c THEN V[k] ELSE O(k)]
<1>1. /\ V \in [0 .. L -> Tops] /\ V[c] = U
      /\ \A k \in 1 .. L : /\ k <= c => Swaps(V[k], h[k], V[k - 1])
                           /\ k > c => Swaps(V[k - 1], h[k], V[k])
                           /\ Grows(V[k - 1], V[k])
      /\ \A k \in 0 .. L : /\ V[k] \in Tops /\ Resolves(V[k])
                           /\ \A n \in Originals : Sight(V[k])[n] = l[k + 1][n]
  BY DEF Timeline
<1>2. c \in Nat /\ L \in Nat /\ c <= L OBVIOUS
<1>3. Originals \subseteq Numbers BY DEF Originals
<1>4. \A k \in 0 .. L : /\ O(k) \in Tops
                        /\ \A n \in Numbers : O(k)[n] = IF n \in Nums(s) THEN T[n] ELSE V[k][n]
  BY <1>1 DEF Overlay, Tops
<1>. HIDE DEF O, L
<1>5. O(c) = T
  <2>1. \A n \in Numbers : O(c)[n] = T[n] BY <1>1, <1>2, <1>4 DEF Swaps
  <2>. QED BY <1>2, <1>4, <2>1 DEF Tops
\* An object of the operation that comes later is there at its end.
<1>6. ASSUME NEW k \in c .. L, NEW n \in Nums(s), n \in Numbers
      PROVE  V[k][n] = U[n]
  <2>1. CASE k = c BY <1>1, <2>1
  <2>2. CASE k # c
    <3>. DEFINE P == {j \in Nat : c + j <= k => V[c + j][n] = U[n]}
    <3>1. 0 \in P
      <4>1. c + 0 = c BY <1>2
      <4>. QED BY <1>1, <4>1
    <3>2. ASSUME NEW j \in Nat, j \in P PROVE j + 1 \in P
      <4>. SUFFICES ASSUME c + (j + 1) <= k PROVE V[c + (j + 1)][n] = U[n]
        OBVIOUS
      <4>. DEFINE x == c + (j + 1)
      <4>1. x \in 1 .. L /\ x > c /\ x - 1 = c + j /\ c + j <= k /\ x \in c + 1 .. L
        BY <1>2
      <4>2. Swaps(V[x - 1], h[x], V[x]) BY <1>1, <4>1
      <4>3. n \notin Nums(h[x])
        <5>1. L > c BY <1>2, <2>2
        <5>. QED BY <4>1, <5>1 DEF L
      <4>4. V[c + j][n] = U[n] BY <3>2, <4>1
      <4>. QED BY <1>6, <4>1, <4>2, <4>3, <4>4 DEF Swaps
    <3>. HIDE DEF P
    <3>3. \A j \in Nat : j \in P BY <3>1, <3>2, Induction
    <3>4. k - c \in Nat /\ c + (k - c) = k /\ k <= k BY <1>2
    <3>. QED BY <3>3, <3>4 DEF P
  <2>. QED BY <2>1, <2>2
<1>7. ASSUME NEW k \in c .. L, NEW n \in Numbers, V[k][n] # Blank
      PROVE  O(k)[n] # Blank
  <2>1. k \in 0 .. L BY <1>2
  <2>2. CASE n \in Nums(s)
    <3>1. U[n] # Blank BY <1>6, <1>7, <2>2
    <3>2. T[n] # Blank BY <3>1 DEF Grows
    <3>. QED BY <1>4, <2>1, <2>2, <3>2
  <2>3. CASE n \notin Nums(s) BY <1>4, <1>7, <2>1, <2>3
  <2>. QED BY <2>2, <2>3
<1>8. ASSUME NEW k \in c + 1 .. L
      PROVE  /\ Swaps(O(k - 1), h[k], O(k)) /\ Grows(O(k - 1), O(k))
             /\ k \in 0 .. L /\ k - 1 \in 0 .. L /\ k - 1 \in c .. L /\ k \in 1 .. L
             /\ k \in c .. L
  <2>1. k \in 1 .. L /\ k > c /\ k - 1 \in 0 .. L /\ k \in 0 .. L /\ L > c
        /\ k - 1 \in c .. L /\ k \in c .. L
    BY <1>2
  <2>2. Swaps(V[k - 1], h[k], V[k]) /\ Grows(V[k - 1], V[k]) BY <1>1, <2>1
  <2>3. \A n \in Nums(s) : n \notin Nums(h[k]) BY <2>1 DEF L
  <2>4. \A x \in DOMAIN h[k] : h[k][x].num \in Numbers /\ h[k][x].num \in Nums(h[k])
    <3>1. h[k] \in Seq(Pieces) BY <2>1 DEF L, Entries
    <3>. QED BY <3>1, PieceTypes DEF Nums
  <2>5. \A x \in DOMAIN h[k] : O(k)[h[k][x].num] = Was(h[k][x])
    BY <1>4, <2>1, <2>2, <2>3, <2>4 DEF Swaps
  <2>6. \A n \in Numbers : n \notin Nums(h[k]) => O(k)[n] = O(k - 1)[n]
    BY <1>4, <2>1, <2>2 DEF Swaps
  <2>7. Swaps(O(k - 1), h[k], O(k)) BY <1>4, <2>1, <2>5, <2>6 DEF Swaps
  <2>8. Grows(O(k - 1), O(k))
    BY <1>4, <2>1, <2>2 DEF Grows
  <2>. QED BY <2>1, <2>7, <2>8
<1>9. ASSUME NEW k \in c .. L
      PROVE  Resolves(O(k))
  <2>1. CASE k = c BY <1>5, <2>1
  <2>2. CASE k # c
    <3>0. k \in 0 .. L /\ L > c BY <1>2, <2>2
    <3>. SUFFICES ASSUME NEW n \in Numbers, Effective(O(k), n).obj \in Numbers
                  PROVE  Effective(O(k), Effective(O(k), n).obj) # Blank
      BY DEF Resolves
    <3>. DEFINE x == Effective(O(k), n).obj
    <3>1. Grows(V[k], O(k)) BY <1>7 DEF Grows
    <3>2. V[k] \in Tops /\ O(k) \in Tops BY <1>1, <1>4, <3>0
    <3>3. CASE n \notin Nums(s)
      <4>1. O(k)[n] = V[k][n] BY <1>4, <3>0, <3>3
      <4>2. Effective(O(k), n) = Effective(V[k], n) BY <4>1 DEF Effective
      <4>3. Effective(V[k], x) # Blank BY <1>1, <3>0, <4>2 DEF Resolves
      <4>. QED BY <3>1, <3>2, <4>3, EffectiveGrows
    <3>4. CASE n \in Nums(s)
      <4>1. Effective(O(k), n) = Effective(T, n) BY <1>4, <3>0, <3>4 DEF Effective
      <4>2. Effective(T, x) # Blank BY <4>1 DEF Resolves
      <4>. HIDE DEF x
      <4>. SUFFICES Effective(O(k), x) # Blank
        BY DEF x
      <4>3. x \in Numbers BY DEF x
      <4>4. CASE x \in Nums(s)
        <5>1. O(k)[x] = T[x] BY <1>4, <3>0, <4>3, <4>4
        <5>. QED BY <4>2, <5>1 DEF Effective
      <4>5. CASE x \notin Nums(s)
        <5>1. U[x] = T[x] BY <4>3, <4>5 DEF Swaps
        <5>2. CASE T[x] = Blank
          <6>1. Stored(x) # Blank BY <4>2, <5>2 DEF Effective
          <6>. QED BY <6>1 DEF Effective
        <5>3. CASE T[x] # Blank
          <6>1. V[k][x] # Blank
            <7>. DEFINE P == {j \in Nat : c + j <= k => V[c + j][x] # Blank}
            <7>1. 0 \in P
              <8>1. c + 0 = c BY <1>2
              <8>. QED BY <1>1, <5>1, <5>3, <8>1
            <7>2. ASSUME NEW j \in Nat, j \in P PROVE j + 1 \in P
              <8>. SUFFICES ASSUME c + (j + 1) <= k PROVE V[c + (j + 1)][x] # Blank
                OBVIOUS
              <8>. DEFINE y == c + (j + 1)
              <8>1. y \in 1 .. L /\ y - 1 = c + j /\ c + j <= k BY <1>2
              <8>2. Grows(V[y - 1], V[y]) BY <1>1, <8>1
              <8>3. V[c + j][x] # Blank BY <7>2, <8>1
              <8>. QED BY <4>3, <8>1, <8>2, <8>3 DEF Grows
            <7>. HIDE DEF P
            <7>3. \A j \in Nat : j \in P BY <7>1, <7>2, Induction
            <7>4. k - c \in Nat /\ c + (k - c) = k /\ k <= k BY <1>2
            <7>. QED BY <7>3, <7>4 DEF P
          <6>2. O(k)[x] # Blank BY <1>7, <4>3, <6>1
          <6>. QED BY <6>2 DEF Effective
        <5>. QED BY <5>2, <5>3
      <4>. QED BY <4>4, <4>5
    <3>. QED BY <3>3, <3>4
  <2>. QED BY <2>1, <2>2
<1>10. /\ W \in [0 .. L -> Tops]
       /\ \A k \in 0 .. L : /\ k < c => W[k] = V[k]
                            /\ ~(k < c) => W[k] = O(k)
  BY <1>1, <1>4
<1>. HIDE DEF W
<1>11. W[c] = T
  <2>1. c \in 0 .. L /\ ~(c < c) BY <1>2
  <2>. QED BY <1>5, <1>10, <2>1
<1>12. ASSUME NEW k \in 1 .. L, k <= c
       PROVE  Swaps(W[k], i[k], W[k - 1]) /\ Grows(W[k - 1], W[k])
  <2>1. k \in 0 .. L /\ k - 1 \in 0 .. L /\ k - 1 < c BY <1>2, <1>12
  <2>2. W[k - 1] = V[k - 1] BY <1>10, <2>1
  <2>3. Swaps(V[k], h[k], V[k - 1]) /\ Grows(V[k - 1], V[k]) BY <1>1, <1>12
  <2>4. CASE k = c
    <3>1. i[k] = Glued(h[c], s) BY <1>2, <2>4
    <3>2. Swaps(U, h[c], V[k - 1]) /\ Grows(V[k - 1], U) BY <1>1, <2>3, <2>4
    <3>3. Swaps(T, Glued(h[c], s), V[k - 1])
      <4>1. h[c] \in Entries BY <2>4 DEF L
      <4>. QED BY <3>2, <4>1, GluedIs
    <3>4. Grows(V[k - 1], T)
      <4>1. V[k - 1] \in Tops /\ U \in Tops BY <1>1, <1>2, <2>1
      <4>. QED BY <3>2, <4>1, GrowsOn
    <3>. QED BY <1>11, <2>2, <2>4, <3>1, <3>3, <3>4
  <2>5. CASE k # c
    <3>1. k < c BY <1>2, <1>12, <2>5
    <3>2. W[k] = V[k] /\ i[k] = h[k] BY <1>10, <2>1, <2>5, <3>1 DEF L
    <3>. QED BY <2>2, <2>3, <3>2
  <2>. QED BY <2>4, <2>5
<1>13. ASSUME NEW k \in 1 .. L, k > c
       PROVE  Swaps(W[k - 1], i[k], W[k]) /\ Grows(W[k - 1], W[k])
  <2>1. k \in c + 1 .. L /\ k \in 0 .. L /\ k - 1 \in 0 .. L /\ ~(k < c) /\ ~(k - 1 < c)
        /\ k # c
    BY <1>2, <1>13
  <2>2. W[k] = O(k) /\ W[k - 1] = O(k - 1) /\ i[k] = h[k] BY <1>10, <2>1 DEF L
  <2>. QED BY <1>8, <2>1, <2>2
<1>14. ASSUME NEW k \in 0 .. L
       PROVE  Resolves(W[k]) /\ \A n \in Originals : Sight(W[k])[n] = p[k + 1][n]
  <2>0. k + 1 \in 1 .. L + 1 BY <1>2
  <2>1. CASE k < c
    <3>1. k + 1 # c + 1 BY <1>2, <2>1
    <3>2. p[k + 1] = l[k + 1] BY <2>0, <3>1 DEF L
    <3>. QED BY <1>1, <1>10, <2>1, <3>2
  <2>2. CASE k = c BY <1>11, <2>2
  <2>3. CASE k > c
    <3>1. k + 1 # c + 1 /\ ~(k < c) /\ k \in c .. L /\ L > c BY <1>2, <2>3
    <3>2. p[k + 1] = l[k + 1] BY <2>0, <3>1 DEF L
    <3>3. W[k] = O(k) /\ Resolves(O(k)) BY <1>9, <1>10, <3>1
    <3>4. ASSUME NEW n \in Originals PROVE Sight(O(k))[n] = Sight(V[k])[n]
      <4>1. n \notin Nums(s) /\ n \in Numbers BY <1>3, <3>1 DEF L
      <4>2. O(k)[n] = V[k][n] BY <1>4, <4>1
      <4>. QED BY <4>1, <4>2 DEF Sight, Effective
    <3>. QED BY <1>1, <3>2, <3>3, <3>4
  <2>. QED BY <1>2, <2>1, <2>2, <2>3
<1>15. \A k \in 1 .. L : Grows(W[k - 1], W[k])
  <2>. SUFFICES ASSUME NEW k \in 1 .. L PROVE Grows(W[k - 1], W[k])
    OBVIOUS
  <2>1. k <= c \/ k > c BY <1>2
  <2>. QED BY <1>12, <1>13, <2>1
<1>16. Timeline(W, i, c, p, T)
  BY <1>10, <1>11, <1>12, <1>13, <1>14, <1>15 DEF Timeline, L
<1>. QED BY <1>16 DEF HasTimeline

\* One version more, at the end of what is left of the line.
LEMMA TimelineMore ==
    ASSUME NEW V, NEW h, NEW c \in 0 .. Len(h), NEW l, NEW T, NEW U,
           Timeline(V, h, c, l, U), Len(h) \in Nat,
           NEW s, Swaps(T, s, U), Grows(U, T), T \in Tops, Resolves(T),
           NEW i, Len(i) = c + 1, \A k \in 1 .. c : i[k] = h[k], i[c + 1] = s,
           NEW p, \A k \in 1 .. c + 1 : p[k] = l[k],
           \A n \in Originals : Sight(T)[n] = p[c + 2][n]
    PROVE  HasTimeline(i, c + 1, p, T)
<1>. DEFINE W == [k \in 0 .. c + 1 |-> IF k = c + 1 THEN T ELSE V[k]]
<1>1. c \in Nat /\ c <= Len(h) OBVIOUS
<1>2. \A k \in 0 .. c : k \in 0 .. Len(h) /\ k \in 0 .. c + 1 /\ k # c + 1 BY <1>1
<1>3. \A k \in 0 .. c + 1 : k \in 0 .. c \/ k = c + 1 BY <1>1
<1>4. c + 1 \in 0 .. c + 1 /\ (c + 1) - 1 = c /\ c \in 0 .. c BY <1>1
<1>5. W[c + 1] = T /\ \A k \in 0 .. c : W[k] = V[k] /\ V[k] \in Tops
  BY <1>2, <1>4 DEF Timeline
<1>6. W \in [0 .. c + 1 -> Tops]
  <2>1. \A k \in 0 .. c + 1 : W[k] \in Tops BY <1>3, <1>5
  <2>2. W = [k \in 0 .. c + 1 |-> W[k]] OBVIOUS
  <2>. HIDE DEF W
  <2>. QED BY <2>1, <2>2
<1>. HIDE DEF W
<1>7. ASSUME NEW k \in 1 .. c + 1
      PROVE  Swaps(W[k], i[k], W[k - 1]) /\ Grows(W[k - 1], W[k])
  <2>1. CASE k = c + 1
    <3>1. W[k] = T /\ W[k - 1] = U /\ i[k] = s
      BY <1>4, <1>5, <2>1 DEF Timeline
    <3>. QED BY <3>1
  <2>2. CASE k # c + 1
    <3>1. k \in 1 .. c /\ k \in 0 .. c /\ k - 1 \in 0 .. c /\ k \in 1 .. Len(h) /\ k <= c
      BY <1>1, <2>2
    <3>2. W[k] = V[k] /\ W[k - 1] = V[k - 1] /\ i[k] = h[k] BY <1>5, <3>1
    <3>. QED BY <3>1, <3>2 DEF Timeline
  <2>. QED BY <2>1, <2>2
<1>8. ASSUME NEW k \in 0 .. c + 1
      PROVE  Resolves(W[k]) /\ \A n \in Originals : Sight(W[k])[n] = p[k + 1][n]
  <2>1. CASE k = c + 1
    <3>1. k + 1 = c + 2 BY <1>1, <2>1
    <3>. QED BY <1>5, <2>1, <3>1
  <2>2. CASE k # c + 1
    <3>1. k \in 0 .. c /\ k \in 0 .. Len(h) /\ k + 1 \in 1 .. c + 1 BY <1>1, <2>2
    <3>. QED BY <1>5, <3>1 DEF Timeline
  <2>. QED BY <2>1, <2>2
<1>9. \A k \in 1 .. c + 1 : k <= c + 1 /\ ~(k > c + 1) BY <1>1
<1>10. Timeline(W, i, c + 1, p, T) BY <1>5, <1>6, <1>7, <1>8, <1>9 DEF Timeline
<1>. QED BY <1>10 DEF HasTimeline

LEMMA RecoverEndOutermost ==
    ASSUME Sane, Recoverable, EndOutermost
    PROVE  Recoverable'
<1>. DEFINE T == TopOf(doc)
<1>1. PICK G, V : Tracked(G, V) BY DEF Recoverable, Tracked
<1>2. /\ nesting = 1 /\ Latest = pending[1].frags /\ Latest \in Entries
      /\ pending' = <<>> /\ begun' = <<>> /\ UNCHANGED doc
  BY EndOutermostIs
<1>3. /\ G[2] = T /\ Swaps(T, Latest, G[1]) /\ Grows(G[1], T) /\ Resolves(T)
      /\ G[1] \in Tops /\ T \in Tops
  <2>1. 1 \in 1 .. 1 /\ 1 + 1 = 2 /\ 2 \in 1 .. 2 /\ 1 \in 1 .. 2 OBVIOUS
  <2>2. /\ G[nesting + 1] = TopOf(doc)
        /\ \A k \in 1 .. nesting + 1 : G[k] \in Tops /\ Resolves(G[k])
        /\ \A k \in 1 .. nesting : /\ Swaps(G[k + 1], pending[k].frags, G[k])
                                   /\ Grows(G[k], G[k + 1])
    BY <1>1, OpeningTypes
  <2>. QED BY <1>2, <2>1, <2>2
<1>4. TopOf(doc') = T BY <1>2 DEF T
<1>5. PICK H : Openings(H, pending', begun', TopOf(doc')) /\ H[1] = T
  <2>. PICK p : p = pending' OBVIOUS
  <2>. PICK b : b = begun' OBVIOUS
  <2>. HIDE DEF T
  <2>1. HasOpenings(p, b, T, T) BY <1>2, <1>3, Outside
  <2>. QED BY <1>4, <2>1 DEF HasOpenings
<1>6. Untouched(pending', hist', current') BY <1>2 DEF Untouched
<1>7. Timeline(V, hist, current, line, G[1]) BY <1>1 DEF Tracked
<1>8. /\ Len(hist) \in Nat /\ current \in 0 .. Len(hist) /\ DOMAIN hist = 1 .. Len(hist)
      /\ Len(line) = Len(hist) + 1 /\ current + 1 \in 1 .. Len(hist) + 1
      /\ \A k \in 1 .. Len(hist) : hist[k] \in Entries
  BY ShapeTypes DEF Sane, Shape
<1>9. \A n \in Originals : Sight(T)[n] = Seen(doc)[n]
  BY ReadIs DEF Sane, Shape
<1>10. \E W : Timeline(W, hist', current', line', T)
  <2>. HIDE DEF T
  <2>1. CASE Latest = <<>> /\ UNCHANGED <<hist, current, line>>
    <3>1. T = G[1]
      <4>1. \A n \in Numbers : G[1][n] = T[n] BY <1>3, <2>1 DEF Swaps, Nums
      <4>. QED BY <1>3, <4>1 DEF Tops
    <3>. QED BY <1>7, <2>1, <3>1
  <2>2. CASE /\ Latest # <<>> /\ current' = current + 1
             /\ Len(hist') = current + 1
             /\ \A k \in 1 .. current : hist'[k] = hist[k]
             /\ hist'[current + 1] = Latest
             /\ \A k \in 1 .. current + 1 : line'[k] = line[k]
             /\ line'[current + 2] = Seen(doc)
    <3>. PICK h : h = hist' OBVIOUS
    <3>. PICK l : l = line' OBVIOUS
    <3>. PICK s : s = Latest OBVIOUS
    <3>1. /\ Len(h) = current + 1 /\ \A k \in 1 .. current : h[k] = hist[k]
          /\ h[current + 1] = s
          /\ \A k \in 1 .. current + 1 : l[k] = line[k]
      BY <2>2
    <3>2. \A n \in Originals : Sight(T)[n] = l[current + 2][n] BY <1>9, <2>2
    <3>3. Swaps(T, s, G[1]) BY <1>3
    <3>4. HasTimeline(h, current + 1, l, T)
      BY <1>3, <1>7, <1>8, <3>1, <3>2, <3>3, TimelineMore
    <3>. QED BY <2>2, <3>4 DEF HasTimeline
  <2>3. CASE /\ Latest # <<>> /\ current' = current
             /\ Len(hist') = Len(hist)
             /\ \A k \in DOMAIN hist : k # current => hist'[k] = hist[k]
             /\ current > 0 => hist'[current] = Glued(hist[current], Latest)
             /\ \A k \in 1 .. Len(line) : k # current + 1 => line'[k] = line[k]
             /\ line'[current + 1] = Seen(doc)
    <3>. PICK h : h = hist' OBVIOUS
    <3>. PICK l : l = line' OBVIOUS
    <3>. PICK s \in Entries : s = Latest BY <1>2
    <3>1. /\ Len(h) = Len(hist)
          /\ \A k \in 1 .. Len(hist) : k # current => h[k] = hist[k]
          /\ current > 0 => h[current] = Glued(hist[current], s)
          /\ \A k \in 1 .. Len(hist) + 1 : k # current + 1 => l[k] = line[k]
      BY <1>8, <2>3
    <3>2. \A n \in Originals : Sight(T)[n] = l[current + 1][n] BY <1>9, <2>3
    <3>3. Swaps(T, s, G[1]) BY <1>3
    <3>4. Len(hist) > current => \A n \in Nums(s) :
             n \notin Originals /\ \A j \in current + 1 .. Len(hist) : n \notin Nums(hist[j])
      <4>1. 1 \in 1 .. Len(pending) BY <1>2 DEF nesting
      <4>2. s = pending[1].frags BY <1>2
      <4>. QED BY <4>1, <4>2 DEF Recoverable, Untouched
    <3>5. HasTimeline(h, current, l, T)
      BY <1>3, <1>7, <1>8, <3>1, <3>2, <3>3, <3>4, TimelineOverlay
    <3>. QED BY <2>3, <3>5 DEF HasTimeline
  <2>. QED BY <2>1, <2>2, <2>3, EndOutermostIs
<1>. HIDE DEF T
<1>. QED BY <1>5, <1>6, <1>10 DEF Recoverable

\* The same versions, seen from one place further back or ahead.
LEMMA TimelineStep ==
    ASSUME NEW V, NEW h, NEW c \in 0 .. Len(h), NEW l, NEW T, Timeline(V, h, c, l, T),
           Len(h) \in Nat, NEW k \in 1 .. Len(h), NEW to,
           \/ k = c /\ to = c - 1
           \/ k = c + 1 /\ to = c + 1,
           NEW i, Len(i) = Len(h), \A j \in 1 .. Len(h) : j # k => i[j] = h[j],
           NEW U, U = V[to], Swaps(U, i[k], T)
    PROVE  Timeline(V, i, to, l, U)
<1>1. ASSUME NEW j \in 1 .. Len(h)
      PROVE  /\ j <= to => Swaps(V[j], i[j], V[j - 1])
             /\ j > to => Swaps(V[j - 1], i[j], V[j])
  <2>1. CASE j = k
    <3>1. CASE k = c /\ to = c - 1
      <4>1. ~(j <= to) /\ j - 1 = to BY <2>1, <3>1
      <4>2. V[j] = T BY <2>1, <3>1 DEF Timeline
      <4>. QED BY <2>1, <4>1, <4>2
    <3>2. CASE k = c + 1 /\ to = c + 1
      <4>1. ~(j > to) /\ j - 1 = c /\ j = to BY <2>1, <3>2
      <4>2. V[j - 1] = T BY <4>1 DEF Timeline
      <4>. QED BY <2>1, <4>1, <4>2
    <3>. QED BY <3>1, <3>2
  <2>2. CASE j # k
    <3>1. i[j] = h[j] BY <2>2
    <3>2. /\ j <= c => Swaps(V[j], h[j], V[j - 1])
          /\ j > c => Swaps(V[j - 1], h[j], V[j])
      BY DEF Timeline
    <3>3. (j <= to => j <= c) /\ (j > to => j > c) BY <2>2
    <3>. QED BY <3>1, <3>2, <3>3
  <2>. QED BY <2>1, <2>2
<1>. QED BY <1>1 DEF Timeline

LEMMA RecoverSwap ==
    ASSUME Sane, Recoverable, nesting = 0, NEW k \in DOMAIN hist, SwapEntry(k),
           NEW to, to = current',
           \/ k = current /\ to = current - 1
           \/ k = current + 1 /\ to = current + 1,
           UNCHANGED <<pending, begun, line>>
    PROVE  Recoverable'
<1>. DEFINE T == TopOf(doc)
<1>1. PICK G, V : Tracked(G, V) BY DEF Recoverable, Tracked
<1>2. /\ G[1] = T /\ V[current] = T /\ Timeline(V, hist, current, line, T)
      /\ T \in Tops
  <2>1. /\ G[nesting + 1] = T /\ nesting + 1 = 1 /\ V[current] = G[1]
        /\ G[1] \in Tops
    BY <1>1, OpeningTypes
  <2>. QED BY <1>1, <2>1 DEF Tracked
<1>3. /\ Len(hist) \in Nat /\ current \in 0 .. Len(hist) /\ DOMAIN hist = 1 .. Len(hist)
      /\ hist[k] \in Entries
  BY ShapeTypes DEF Sane, Shape
<1>4. /\ TopOf(doc') = After(T, hist[k])
      /\ Len(hist') = Len(hist) /\ \A j \in DOMAIN hist : j # k => hist'[j] = hist[j]
      /\ Swaps(TopOf(doc'), hist'[k], T) /\ Swaps(T, hist[k], TopOf(doc'))
  BY SwapEntryIs
<1>5. V[to] = TopOf(doc') /\ to \in 0 .. Len(hist)
  <2>1. CASE k = current /\ to = current - 1
    <3>1. k \in 1 .. Len(hist) /\ k <= current /\ k - 1 = to /\ to \in 0 .. Len(hist)
      BY <1>3, <2>1
    <3>2. Swaps(V[k], hist[k], V[k - 1]) BY <1>2, <3>1 DEF Timeline
    <3>3. Swaps(T, hist[k], V[to]) BY <1>2, <2>1, <3>1, <3>2
    <3>. QED BY <1>4, <3>1, <3>3, SwapsOnce
  <2>2. CASE k = current + 1 /\ to = current + 1
    <3>1. k \in 1 .. Len(hist) /\ k > current /\ k - 1 = current /\ to \in 0 .. Len(hist)
      BY <1>3, <2>2
    <3>2. Swaps(V[k - 1], hist[k], V[k]) BY <1>2, <3>1 DEF Timeline
    <3>3. Swaps(T, hist[k], V[to]) BY <1>2, <2>2, <3>1, <3>2
    <3>. QED BY <1>4, <3>1, <3>3, SwapsOnce
  <2>. QED BY <2>1, <2>2
<1>. HIDE DEF T
<1>6. Timeline(V, hist', current', line', TopOf(doc'))
  <2>. PICK h : h = hist' OBVIOUS
  <2>. PICK U : U = TopOf(doc') OBVIOUS
  <2>1. /\ Len(h) = Len(hist) /\ \A j \in 1 .. Len(hist) : j # k => h[j] = hist[j]
        /\ Swaps(U, h[k], T) /\ U = V[to]
    BY <1>3, <1>4, <1>5
  <2>2. Timeline(V, h, to, line, U)
    BY <1>2, <1>3, <2>1, TimelineStep
  <2>. QED BY <2>2
<1>7. Resolves(TopOf(doc')) /\ TopOf(doc') \in Tops BY <1>5, <1>2, <1>4 DEF Timeline, Swaps
<1>8. pending = <<>> BY DEF nesting, Sane, Shape
<1>9. PICK H : Openings(H, pending', begun', TopOf(doc')) /\ H[1] = TopOf(doc')
  <2>. PICK U : U = TopOf(doc') OBVIOUS
  <2>1. HasOpenings(pending, begun, U, U) BY <1>7, <1>8, Outside
  <2>. QED BY <2>1 DEF HasOpenings
<1>10. Untouched(pending', hist', current') BY <1>8 DEF Untouched
<1>. QED BY <1>6, <1>9, <1>10 DEF Recoverable

LEMMA RecoverDiscard ==
    ASSUME Sane, Recoverable, DiscardBetweenOperations
    PROVE  Recoverable'
<1>. DEFINE T == TopOf(doc)
<1>1. PICK G, V : Tracked(G, V) BY DEF Recoverable, Tracked
<1>2. /\ nesting = 0 /\ hist' = <<>> /\ current' = 0 /\ line' = <<line[current + 1]>>
      /\ UNCHANGED <<doc, pending, begun>>
  BY DiscardIs DEF Sane
<1>3. G[1] = T /\ V[current] = T /\ T \in Tops
  <2>1. /\ G[nesting + 1] = T /\ nesting + 1 = 1 /\ V[current] = G[1]
        /\ G[1] \in Tops
    BY <1>1, <1>2, OpeningTypes
  <2>. QED BY <2>1
<1>4. Resolves(T) /\ \A n \in Originals : Sight(T)[n] = line[current + 1][n]
  <2>1. current \in 0 .. Len(hist) BY DEF Sane, Shape
  <2>. QED BY <1>1, <1>3, <2>1 DEF Tracked, Timeline
<1>. HIDE DEF T
<1>5. PICK W : W = [k \in 0 .. 0 |-> T] OBVIOUS
<1>6. Timeline(W, hist', current', line', T)
  <2>1. Len(hist') = 0 /\ 1 .. 0 = {} /\ \A k \in 0 .. 0 : k = 0 BY <1>2
  <2>2. line'[0 + 1] = line[current + 1] BY <1>2
  <2>. QED BY <1>2, <1>3, <1>4, <1>5, <2>1, <2>2 DEF Timeline
<1>7. Openings(G, pending', begun', TopOf(doc')) /\ G[1] = T
  BY <1>1, <1>2, <1>3 DEF Tracked
<1>8. Untouched(pending', hist', current')
  <2>1. pending = <<>> BY <1>2 DEF nesting, Sane, Shape
  <2>. QED BY <1>2, <2>1 DEF Untouched
<1>. QED BY <1>6, <1>7, <1>8 DEF Recoverable

LEMMA NextRecoverable ==
    ASSUME Unstashed = FALSE, Sane, Recoverable, [Next]_vars
    PROVE  Recoverable'
<1>1. CASE \E titled \in BOOLEAN : Begin(titled) BY <1>1, RecoverBegin
<1>2. CASE \E v \in Values : AddObject(v) BY <1>2, RecoverAddObject
<1>3. CASE \E n \in Numbers : Load(n) BY <1>3, RecoverLoad
<1>4. CASE \E n \in Numbers, c \in Available : Alter(n, c) \/ Update(n, c)
  BY <1>4, RecoverAlter, RecoverUpdate
<1>5. CASE Abandon BY <1>5, RecoverAbandon
<1>6. CASE EndNested BY <1>6, RecoverEndNested
<1>7. CASE EndOutermost BY <1>7, RecoverEndOutermost
<1>8. CASE Undo
  <2>1. current \in DOMAIN hist BY <1>8 DEF Undo, Sane, Shape
  <2>. PICK to : to = current' OBVIOUS
  <2>2. /\ nesting = 0 /\ SwapEntry(current) /\ to = current - 1
        /\ UNCHANGED <<pending, begun, line>>
    BY <1>8 DEF Undo
  <2>. QED BY <2>1, <2>2, RecoverSwap
<1>9. CASE Redo
  <2>1. current + 1 \in DOMAIN hist BY <1>9 DEF Redo, Sane, Shape
  <2>. PICK to : to = current' OBVIOUS
  <2>2. /\ nesting = 0 /\ SwapEntry(current + 1) /\ to = current + 1
        /\ UNCHANGED <<pending, begun, line>>
    BY <1>9 DEF Redo
  <2>. QED BY <2>1, <2>2, RecoverSwap
<1>10. CASE DiscardBetweenOperations BY <1>10, RecoverDiscard
<1>11. CASE UNCHANGED vars
  BY <1>11 DEF vars, Recoverable
<1>. QED BY <1>1, <1>2, <1>3, <1>4, <1>5, <1>6, <1>7, <1>8, <1>9, <1>10, <1>11 DEF Next

\* Where callers replace no object their operation has not altered.
LEMMA AlwaysRecoverable ==
    ASSUME Unstashed = FALSE
    PROVE  Spec => [](Sane /\ Recoverable)
<1>1. Init => Sane /\ Recoverable BY InitSane, InitRecoverable
<1>2. Sane /\ Recoverable /\ [Next]_vars => Sane' /\ Recoverable'
  BY NextSane, NextRecoverable
<1>. QED BY <1>1, <1>2, PTL DEF Spec

-----------------------------------------------------------------------------
(* Documents by abandoning, undoing and redoing.                           *)

LEMMA SwapTo ==
    ASSUME NEW d, NEW T, NEW len, HasTop(d, T, len), NEW s \in Entries, NEW U,
           Swaps(T, s, U)
    PROVE  HasTop(Swapped(d, s).doc, U, len)
<1>1. HasTop(Swapped(d, s).doc, After(T, s), len) BY SwappedIs
<1>2. T \in Tops BY DEF HasTop, IsDocument
<1>. QED BY <1>1, <1>2, AfterSwaps, SwapsOnce

\* A document after each of n entries.
Walks(f, d, n, s) ==
    f[0] = d /\ \A i \in 1 .. n : f[i] = Swapped(f[i - 1], s[i]).doc

LEMMA WalkExists ==
    ASSUME NEW d, NEW T, NEW len, HasTop(d, T, len), NEW n \in Nat,
           NEW s, \A i \in 1 .. n : s[i] \in Entries
    PROVE  \E f : Walks(f, d, n, s)
<1>. DEFINE S == {e \in Documents : \E U : HasTop(e, U, len)}
            step == [k \in Nat |-> [e \in S |->
                        IF k + 1 \in 1 .. n THEN Swapped(e, s[k + 1]).doc ELSE e]]
<1>1. \A e, U : HasTop(e, U, len) => e \in S BY DEF HasTop, IsDocument
<1>2. step \in [Nat -> [S -> S]]
  <2>. SUFFICES ASSUME NEW k \in Nat, NEW e \in S
                PROVE  (IF k + 1 \in 1 .. n THEN Swapped(e, s[k + 1]).doc ELSE e) \in S
    BY Zenon
  <2>1. PICK U : HasTop(e, U, len) OBVIOUS
  <2>2. CASE k + 1 \in 1 .. n
    <3>1. HasTop(Swapped(e, s[k + 1]).doc, After(U, s[k + 1]), len)
      BY <2>1, <2>2, SwappedIs
    <3>. HIDE DEF S
    <3>. QED BY <1>1, <2>2, <3>1
  <2>3. CASE k + 1 \notin 1 .. n BY <2>3
  <2>. QED BY <2>2, <2>3
<1>3. d \in S BY <1>1
<1>. HIDE DEF S, step
<1>4. PICK f \in [0 .. n -> S] : Runs(f, d, step, n) BY <1>2, <1>3, RecursionExists
<1>5. ASSUME NEW k \in 1 .. n PROVE f[k] = Swapped(f[k - 1], s[k]).doc
  <2>1. k - 1 \in Nat /\ f[k - 1] \in S /\ (k - 1) + 1 = k BY <1>4
  <2>2. f[k] = step[k - 1][f[k - 1]] BY <1>4 DEF Runs
  <2>3. step[k - 1][f[k - 1]] = IF k \in 1 .. n THEN Swapped(f[k - 1], s[k]).doc
                                ELSE f[k - 1]
    BY <2>1 DEF step
  <2>. QED BY <2>2, <2>3
<1>. QED BY <1>4, <1>5 DEF Walks, Runs

\* Where such a walk leads.
LEMMA WalkLeads ==
    ASSUME NEW f, NEW d, NEW n \in Nat, NEW s, Walks(f, d, n, s),
           \A i \in 1 .. n : s[i] \in Entries,
           NEW len, NEW X, HasTop(d, X[0], len),
           \A i \in 1 .. n : Swaps(X[i - 1], s[i], X[i])
    PROVE  \A i \in 0 .. n : HasTop(f[i], X[i], len)
<1>. DEFINE P == {i \in Nat : i <= n => HasTop(f[i], X[i], len)}
<1>1. 0 \in P BY DEF Walks
<1>2. ASSUME NEW i \in Nat, i \in P PROVE i + 1 \in P
  <2>. SUFFICES ASSUME i + 1 <= n PROVE HasTop(f[i + 1], X[i + 1], len)
    OBVIOUS
  <2>1. i + 1 \in 1 .. n /\ (i + 1) - 1 = i /\ i <= n OBVIOUS
  <2>2. HasTop(f[i], X[i], len) BY <1>2, <2>1
  <2>3. f[i + 1] = Swapped(f[i], s[i + 1]).doc BY <2>1 DEF Walks
  <2>4. Swaps(X[i], s[i + 1], X[i + 1]) BY <2>1
  <2>. QED BY <2>1, <2>2, <2>3, <2>4, SwapTo
<1>. HIDE DEF P
<1>3. \A i \in Nat : i \in P BY <1>1, <1>2, Induction
<1>. QED BY <1>3 DEF P

LEMMA RevertedIs ==
    ASSUME Sane, NEW G, NEW V, Tracked(G, V)
    PROVE  \A k \in 1 .. nesting + 1 : HasTop(Reverted(k), G[k], doc.len)
<1>. DEFINE Is(F) == F = [j \in 1 .. nesting + 1 |->
                             IF j > nesting THEN doc
                             ELSE Swapped(F[j + 1], pending[j].frags).doc]
            R == CHOOSE F : Is(F)
            n == nesting
            s == [i \in 1 .. n |-> pending[n + 1 - i].frags]
            X == [i \in 0 .. n |-> G[n + 1 - i]]
            len == doc.len
<1>1. /\ n \in Nat /\ \A j \in 1 .. n : pending[j].frags \in Entries
      /\ HasTop(doc, TopOf(doc), len)
  BY ShapeTypes DEF Sane, Shape
<1>2. /\ G[n + 1] = TopOf(doc)
      /\ \A k \in 1 .. n : Swaps(G[k + 1], pending[k].frags, G[k])
  BY OpeningTypes
<1>3. \A k : Reverted(k) = R[k] BY DEF Reverted
<1>. HIDE DEF R, n, len
<1>4. \A i \in 1 .. n : /\ n + 1 - i \in 1 .. n /\ s[i] \in Entries
                        /\ s[i] = pending[n + 1 - i].frags
                        /\ X[i] = G[n + 1 - i] /\ X[i - 1] = G[(n + 1 - i) + 1]
  <2>. SUFFICES ASSUME NEW i \in 1 .. n
                PROVE  /\ n + 1 - i \in 1 .. n /\ s[i] \in Entries
                       /\ s[i] = pending[n + 1 - i].frags
                       /\ X[i] = G[n + 1 - i] /\ X[i - 1] = G[(n + 1 - i) + 1]
    OBVIOUS
  <2>1. n + 1 - i \in 1 .. n /\ i \in 0 .. n /\ i - 1 \in 0 .. n
        /\ n + 1 - (i - 1) = (n + 1 - i) + 1
    BY <1>1
  <2>. QED BY <1>1, <2>1
<1>5. \A i \in 1 .. n : Swaps(X[i - 1], s[i], X[i])
  <2>. SUFFICES ASSUME NEW i \in 1 .. n PROVE Swaps(X[i - 1], s[i], X[i])
    OBVIOUS
  <2>. DEFINE k == n + 1 - i
  <2>1. k \in 1 .. n BY <1>4
  <2>2. Swaps(G[k + 1], pending[k].frags, G[k]) BY <1>2, <2>1
  <2>. HIDE DEF s, X
  <2>. QED BY <1>4, <2>2
<1>6. X[0] = TopOf(doc)
  <2>1. n + 1 - 0 = n + 1 /\ 0 \in 0 .. n BY <1>1
  <2>. QED BY <1>2, <2>1
<1>7. \A k \in 1 .. n + 1 : n + 1 - k \in 0 .. n /\ X[n + 1 - k] = G[k]
  <2>. SUFFICES ASSUME NEW k \in 1 .. n + 1
                PROVE  n + 1 - k \in 0 .. n /\ X[n + 1 - k] = G[k]
    OBVIOUS
  <2>1. n + 1 - k \in 0 .. n /\ n + 1 - (n + 1 - k) = k BY <1>1
  <2>. QED BY <2>1
<1>. HIDE DEF s, X
<1>8. \E F : Is(F)
  <2>1. PICK f : Walks(f, doc, n, s) BY <1>1, <1>4, WalkExists
  <2>. DEFINE F == [j \in 1 .. n + 1 |-> f[n + 1 - j]]
  <2>2. ASSUME NEW j \in 1 .. n + 1
        PROVE  F[j] = IF j > n THEN doc ELSE Swapped(F[j + 1], pending[j].frags).doc
    <3>1. CASE j = n + 1
      <4>1. n + 1 - j = 0 /\ j > n BY <1>1, <3>1
      <4>. QED BY <2>1, <4>1 DEF Walks
    <3>2. CASE j # n + 1
      <4>1. /\ n + 1 - j \in 1 .. n /\ ~(j > n) /\ j + 1 \in 1 .. n + 1
            /\ n + 1 - (j + 1) = (n + 1 - j) - 1 /\ n + 1 - (n + 1 - j) = j
        BY <1>1, <3>2
      <4>2. f[n + 1 - j] = Swapped(f[(n + 1 - j) - 1], s[n + 1 - j]).doc
        BY <2>1, <4>1 DEF Walks
      <4>3. s[n + 1 - j] = pending[j].frags BY <1>4, <4>1
      <4>4. F[j + 1] = f[(n + 1 - j) - 1] /\ F[j] = f[n + 1 - j] BY <4>1
      <4>. QED BY <4>1, <4>2, <4>3, <4>4
    <3>. QED BY <3>1, <3>2
  <2>3. F = [j \in 1 .. n + 1 |-> F[j]] OBVIOUS
  <2>. HIDE DEF F
  <2>4. F = [j \in 1 .. n + 1 |-> IF j > n THEN doc
                                  ELSE Swapped(F[j + 1], pending[j].frags).doc]
    <3>. DEFINE E(j) == IF j > n THEN doc ELSE Swapped(F[j + 1], pending[j].frags).doc
    <3>1. \A j \in 1 .. n + 1 : F[j] = E(j) BY <2>2
    <3>. HIDE DEF E
    <3>2. F = [j \in 1 .. n + 1 |-> E(j)] BY <2>3, <3>1
    <3>. QED BY <3>2 DEF E
  <2>5. Is(F) BY <2>4 DEF n
  <2>. HIDE DEF Is
  <2>. QED BY <2>5
<1>9. R = [j \in 1 .. n + 1 |-> IF j > n THEN doc
                                ELSE Swapped(R[j + 1], pending[j].frags).doc]
  <2>1. Is(R)
    <3>. HIDE DEF Is
    <3>. QED BY <1>8 DEF R
  <2>. QED BY <2>1 DEF n
<1>10. \A j \in 1 .. n + 1 : R[j] = IF j > n THEN doc
                                    ELSE Swapped(R[j + 1], pending[j].frags).doc
  <2>. DEFINE E(j) == IF j > n THEN doc ELSE Swapped(R[j + 1], pending[j].frags).doc
  <2>1. R = [j \in 1 .. n + 1 |-> E(j)] BY <1>9
  <2>. HIDE DEF E
  <2>2. \A j \in 1 .. n + 1 : R[j] = E(j) BY <2>1
  <2>. QED BY <2>2 DEF E
<1>. DEFINE f == [i \in 0 .. n |-> R[n + 1 - i]]
<1>11. Walks(f, doc, n, s)
  <2>1. f[0] = doc
    <3>1. n + 1 - 0 = n + 1 /\ 0 \in 0 .. n /\ n + 1 \in 1 .. n + 1 /\ n + 1 > n BY <1>1
    <3>. QED BY <1>10, <3>1
  <2>2. ASSUME NEW i \in 1 .. n PROVE f[i] = Swapped(f[i - 1], s[i]).doc
    <3>. DEFINE j == n + 1 - i
    <3>1. /\ j \in 1 .. n + 1 /\ ~(j > n) /\ i \in 0 .. n /\ i - 1 \in 0 .. n
          /\ n + 1 - (i - 1) = j + 1
      BY <1>1
    <3>2. R[j] = Swapped(R[j + 1], pending[j].frags).doc BY <1>10, <3>1
    <3>3. f[i] = R[j] /\ f[i - 1] = R[j + 1] BY <3>1
    <3>4. s[i] = pending[j].frags BY <1>4
    <3>. HIDE DEF f, j
    <3>. QED BY <3>2, <3>3, <3>4
  <2>. HIDE DEF f
  <2>. QED BY <2>1, <2>2 DEF Walks
<1>12. \A i \in 0 .. n : HasTop(f[i], X[i], len)
  <2>. HIDE DEF f
  <2>1. HasTop(doc, X[0], len) /\ \A i \in 1 .. n : s[i] \in Entries BY <1>1, <1>4, <1>6
  <2>. QED BY <1>1, <1>5, <1>11, <2>1, WalkLeads
<1>13. ASSUME NEW k \in 1 .. n + 1 PROVE HasTop(R[k], G[k], len)
  <2>1. n + 1 - k \in 0 .. n /\ X[n + 1 - k] = G[k] BY <1>7
  <2>2. n + 1 - (n + 1 - k) = k BY <1>1
  <2>3. f[n + 1 - k] = R[k] BY <2>1, <2>2
  <2>. QED BY <1>12, <2>1, <2>3
<1>. QED BY <1>3, <1>13 DEF n, len

LEMMA VersionIs ==
    ASSUME Sane, NEW G, NEW V, Tracked(G, V)
    PROVE  \A k \in 0 .. Len(hist) : HasTop(Version(k), V[k], doc.len)
<1>. DEFINE Is(F) == F = [j \in 0 .. Len(hist) |->
                             IF j = current THEN Reverted(1)
                             ELSE IF j < current THEN Swapped(F[j + 1], hist[j + 1]).doc
                             ELSE Swapped(F[j - 1], hist[j]).doc]
            R == CHOOSE F : Is(F)
            L == Len(hist)
            c == current
            r == Reverted(1)
            back == [i \in 1 .. c |-> hist[c + 1 - i]]
            ahead == [i \in 1 .. L - c |-> hist[c + i]]
            B == [i \in 0 .. c |-> V[c - i]]
            A == [i \in 0 .. L - c |-> V[c + i]]
            len == doc.len
<1>1. /\ L \in Nat /\ c \in 0 .. L /\ c \in Nat /\ L - c \in Nat
      /\ \A j \in 1 .. L : hist[j] \in Entries
  BY ShapeTypes DEF Sane, Shape
<1>2. /\ \A k \in 1 .. L : /\ k <= c => Swaps(V[k], hist[k], V[k - 1])
                           /\ k > c => Swaps(V[k - 1], hist[k], V[k])
      /\ V[c] = G[1]
  BY DEF Tracked, Timeline
<1>3. HasTop(r, V[c], len)
  <2>1. 1 \in 1 .. nesting + 1 BY ShapeTypes DEF Sane
  <2>. QED BY <1>2, <2>1, RevertedIs
<1>4. \A k : Version(k) = R[k] BY DEF Version
<1>. HIDE DEF R, L, c, r, len
<1>5. \A i \in 1 .. c : /\ c + 1 - i \in 1 .. L /\ back[i] = hist[c + 1 - i]
                        /\ back[i] \in Entries /\ Swaps(B[i - 1], back[i], B[i])
  <2>. SUFFICES ASSUME NEW i \in 1 .. c
                PROVE  /\ c + 1 - i \in 1 .. L /\ back[i] = hist[c + 1 - i]
                       /\ back[i] \in Entries /\ Swaps(B[i - 1], back[i], B[i])
    OBVIOUS
  <2>. DEFINE k == c + 1 - i
  <2>1. /\ k \in 1 .. L /\ k <= c /\ k - 1 = c - i /\ k = c - (i - 1)
        /\ i \in 0 .. c /\ i - 1 \in 0 .. c
    BY <1>1
  <2>2. back[i] = hist[k] OBVIOUS
  <2>3. B[i] = V[k - 1] /\ B[i - 1] = V[k] BY <2>1
  <2>. HIDE DEF k, back, B
  <2>4. Swaps(V[k], hist[k], V[k - 1]) BY <1>2, <2>1
  <2>5. hist[k] \in Entries BY <1>1, <2>1
  <2>. USE DEF k
  <2>. QED BY <2>1, <2>2, <2>3, <2>4, <2>5
<1>6. \A i \in 1 .. L - c : /\ c + i \in 1 .. L /\ ahead[i] = hist[c + i]
                            /\ ahead[i] \in Entries /\ Swaps(A[i - 1], ahead[i], A[i])
  <2>. SUFFICES ASSUME NEW i \in 1 .. L - c
                PROVE  /\ c + i \in 1 .. L /\ ahead[i] = hist[c + i]
                       /\ ahead[i] \in Entries /\ Swaps(A[i - 1], ahead[i], A[i])
    OBVIOUS
  <2>. DEFINE k == c + i
  <2>1. /\ k \in 1 .. L /\ k > c /\ k - 1 = c + (i - 1)
        /\ i \in 0 .. L - c /\ i - 1 \in 0 .. L - c
    BY <1>1
  <2>2. ahead[i] = hist[k] OBVIOUS
  <2>3. A[i] = V[k] /\ A[i - 1] = V[k - 1] BY <2>1
  <2>. HIDE DEF k, ahead, A
  <2>4. Swaps(V[k - 1], hist[k], V[k]) BY <1>2, <2>1
  <2>5. hist[k] \in Entries BY <1>1, <2>1
  <2>. USE DEF k
  <2>. QED BY <2>1, <2>2, <2>3, <2>4, <2>5
<1>7. B[0] = V[c] /\ A[0] = V[c]
  <2>1. 0 \in 0 .. c /\ 0 \in 0 .. L - c /\ c - 0 = c /\ c + 0 = c BY <1>1
  <2>. QED BY <2>1
<1>8. /\ \A i \in 0 .. c : B[i] = V[c - i]
      /\ \A i \in 0 .. L - c : A[i] = V[c + i]
  OBVIOUS
<1>. HIDE DEF back, ahead, A, B
<1>9. \E F : Is(F)
  <2>1. PICK f : Walks(f, r, c, back) BY <1>1, <1>3, <1>5, WalkExists
  <2>2. PICK g : Walks(g, r, L - c, ahead) BY <1>1, <1>3, <1>6, WalkExists
  <2>. DEFINE F == [j \in 0 .. L |-> IF j <= c THEN f[c - j] ELSE g[j - c]]
              E(j) == IF j = c THEN r
                      ELSE IF j < c THEN Swapped(F[j + 1], hist[j + 1]).doc
                      ELSE Swapped(F[j - 1], hist[j]).doc
  <2>3. ASSUME NEW j \in 0 .. L PROVE F[j] = E(j)
    <3>1. CASE j = c
      <4>1. F[j] = f[0]
        <5>1. j <= c /\ c - j = 0 BY <1>1, <3>1
        <5>. QED BY <5>1
      <4>. QED BY <2>1, <3>1, <4>1 DEF Walks
    <3>2. CASE j < c
      <4>. DEFINE i == c - j
      <4>1. /\ i \in 1 .. c /\ j <= c /\ j + 1 <= c /\ j + 1 \in 0 .. L
            /\ c - (j + 1) = i - 1 /\ c + 1 - i = j + 1 /\ j # c
        BY <1>1, <3>2
      <4>2. F[j] = f[i] /\ F[j + 1] = f[i - 1] BY <4>1
      <4>. HIDE DEF i, F
      <4>3. f[i] = Swapped(f[i - 1], back[i]).doc BY <2>1, <4>1 DEF Walks
      <4>4. back[i] = hist[j + 1] BY <1>5, <4>1
      <4>. QED BY <3>2, <4>1, <4>2, <4>3, <4>4
    <3>3. CASE j > c
      <4>. DEFINE i == j - c
      <4>1. /\ i \in 1 .. L - c /\ ~(j <= c) /\ j - 1 \in 0 .. L /\ ~(j < c) /\ j # c
            /\ (j - 1) - c = i - 1 /\ c + i = j
            /\ (j - 1 <= c => c - (j - 1) = 0 /\ i - 1 = 0)
        BY <1>1, <3>3
      <4>2. F[j] = g[i] BY <4>1
      <4>3. F[j - 1] = g[i - 1]
        <5>1. CASE j - 1 <= c
          <6>1. F[j - 1] = f[0] BY <4>1, <5>1
          <6>2. f[0] = g[0] BY <2>1, <2>2 DEF Walks
          <6>. HIDE DEF i, F
          <6>. QED BY <4>1, <5>1, <6>1, <6>2
        <5>2. CASE ~(j - 1 <= c) BY <4>1, <5>2
        <5>. QED BY <5>1, <5>2
      <4>. HIDE DEF i, F
      <4>4. g[i] = Swapped(g[i - 1], ahead[i]).doc BY <2>2, <4>1 DEF Walks
      <4>5. ahead[i] = hist[j] BY <1>6, <4>1
      <4>. QED BY <4>1, <4>2, <4>3, <4>4, <4>5
    <3>. QED BY <1>1, <3>1, <3>2, <3>3
  <2>4. F = [j \in 0 .. L |-> F[j]] OBVIOUS
  <2>. HIDE DEF F
  <2>5. F = [j \in 0 .. L |-> E(j)]
    <3>. HIDE DEF E
    <3>. QED BY <2>3, <2>4
  <2>6. Is(F) BY <2>5 DEF L, c, r
  <2>. HIDE DEF Is
  <2>. QED BY <2>6
<1>. DEFINE E(j) == IF j = c THEN r
                    ELSE IF j < c THEN Swapped(R[j + 1], hist[j + 1]).doc
                    ELSE Swapped(R[j - 1], hist[j]).doc
<1>10. R = [j \in 0 .. L |-> E(j)]
  <2>1. Is(R)
    <3>. HIDE DEF Is
    <3>. QED BY <1>9 DEF R
  <2>. QED BY <2>1 DEF L, c, r
<1>11. \A j \in 0 .. L : R[j] = E(j)
  <2>. HIDE DEF E
  <2>. QED BY <1>10
<1>. DEFINE f == [i \in 0 .. c |-> R[c - i]]
            g == [i \in 0 .. L - c |-> R[c + i]]
<1>12. Walks(f, r, c, back)
  <2>1. f[0] = r
    <3>1. c - 0 = c /\ 0 \in 0 .. c BY <1>1
    <3>2. R[c] = r BY <1>1, <1>11
    <3>. QED BY <3>1, <3>2
  <2>2. ASSUME NEW i \in 1 .. c PROVE f[i] = Swapped(f[i - 1], back[i]).doc
    <3>. DEFINE j == c - i
    <3>1. /\ j \in 0 .. L /\ j < c /\ j # c /\ i \in 0 .. c /\ i - 1 \in 0 .. c
          /\ c - (i - 1) = j + 1 /\ c + 1 - i = j + 1
      BY <1>1
    <3>2. f[i] = R[j] /\ f[i - 1] = R[j + 1] BY <3>1
    <3>3. R[j] = Swapped(R[j + 1], hist[j + 1]).doc BY <1>11, <3>1
    <3>4. back[i] = hist[j + 1] BY <1>5, <3>1
    <3>. HIDE DEF f, j, E
    <3>. QED BY <3>2, <3>3, <3>4
  <2>. HIDE DEF f
  <2>. QED BY <2>1, <2>2 DEF Walks
<1>13. Walks(g, r, L - c, ahead)
  <2>1. g[0] = r
    <3>1. c + 0 = c /\ 0 \in 0 .. L - c BY <1>1
    <3>2. R[c] = r BY <1>1, <1>11
    <3>. QED BY <3>1, <3>2
  <2>2. ASSUME NEW i \in 1 .. L - c PROVE g[i] = Swapped(g[i - 1], ahead[i]).doc
    <3>. DEFINE j == c + i
    <3>1. /\ j \in 0 .. L /\ ~(j < c) /\ j # c /\ i \in 0 .. L - c /\ i - 1 \in 0 .. L - c
          /\ c + (i - 1) = j - 1
      BY <1>1
    <3>2. g[i] = R[j] /\ g[i - 1] = R[j - 1] BY <3>1
    <3>3. R[j] = Swapped(R[j - 1], hist[j]).doc BY <1>11, <3>1
    <3>4. ahead[i] = hist[j] BY <1>6
    <3>. HIDE DEF g, j, E
    <3>. QED BY <3>2, <3>3, <3>4
  <2>. HIDE DEF g
  <2>. QED BY <2>1, <2>2 DEF Walks
<1>14. \A i \in 0 .. c : HasTop(f[i], B[i], len)
  <2>. HIDE DEF f
  <2>1. HasTop(r, B[0], len) /\ \A i \in 1 .. c : back[i] \in Entries
    BY <1>3, <1>5, <1>7
  <2>2. \A i \in 1 .. c : Swaps(B[i - 1], back[i], B[i]) BY <1>5
  <2>. QED BY <1>1, <1>12, <2>1, <2>2, WalkLeads
<1>15. \A i \in 0 .. L - c : HasTop(g[i], A[i], len)
  <2>. HIDE DEF g
  <2>1. HasTop(r, A[0], len) /\ \A i \in 1 .. L - c : ahead[i] \in Entries
    BY <1>3, <1>6, <1>7
  <2>2. \A i \in 1 .. L - c : Swaps(A[i - 1], ahead[i], A[i]) BY <1>6
  <2>. QED BY <1>1, <1>13, <2>1, <2>2, WalkLeads
<1>16. ASSUME NEW k \in 0 .. L PROVE HasTop(R[k], V[k], len)
  <2>1. CASE k <= c
    <3>1. c - k \in 0 .. c /\ c - (c - k) = k BY <1>1, <2>1
    <3>2. f[c - k] = R[k] /\ B[c - k] = V[k] BY <1>8, <3>1
    <3>. QED BY <1>14, <3>1, <3>2
  <2>2. CASE ~(k <= c)
    <3>1. k - c \in 0 .. L - c /\ c + (k - c) = k BY <1>1, <2>2
    <3>2. g[k - c] = R[k] /\ A[k - c] = V[k] BY <1>8, <3>1
    <3>. QED BY <1>15, <3>1, <3>2
  <2>. QED BY <2>1, <2>2
<1>. QED BY <1>4, <1>16 DEF L, len

-----------------------------------------------------------------------------
(* What the journal promises.                                              *)

\* However operations nest and are abandoned, undone and redone in between,
\* every one that is open can be reverted to the state it began in.
THEOREM BeginsStayRecoverable ==
    ASSUME Unstashed = FALSE
    PROVE  Spec => []BeginsAreRecoverable
<1>1. Sane /\ Recoverable => BeginsAreRecoverable
  <2>. SUFFICES ASSUME Sane, Recoverable, NEW k \in 1 .. nesting
                PROVE  Read(Reverted(k)) = begun[k]
    BY DEF BeginsAreRecoverable
  <2>1. PICK G, V : Tracked(G, V) BY DEF Recoverable, Tracked
  <2>2. k \in 1 .. nesting + 1 BY ShapeTypes DEF Sane
  <2>3. HasTop(Reverted(k), G[k], doc.len) BY <2>1, <2>2, RevertedIs
  <2>4. Read(Reverted(k)) = Sight(G[k]) BY <2>3, ReadIs
  <2>5. Sight(G[k]) = begun[k] BY <2>1, OpeningTypes
  <2>. QED BY <2>4, <2>5
<1>. QED BY <1>1, AlwaysRecoverable, PTL

\* Undo and redo lead through exactly the versions of the line, with nested
\* and implicit operations counted as part of the one around or before them.
THEOREM VersionsStayRecoverable ==
    ASSUME Unstashed = FALSE
    PROVE  Spec => []VersionsAreRecoverable
<1>1. Sane /\ Recoverable => VersionsAreRecoverable
  <2>. SUFFICES ASSUME Sane, Recoverable, NEW k \in 0 .. Len(hist)
                PROVE  Seen(Version(k)) = line[k + 1]
    BY DEF VersionsAreRecoverable
  <2>1. PICK G, V : Tracked(G, V) BY DEF Recoverable, Tracked
  <2>2. HasTop(Version(k), V[k], doc.len) BY <2>1, VersionIs
  <2>3. Seen(Version(k)) = [n \in Originals |-> Sight(V[k])[n]] BY <2>2, ReadIs
  <2>4. \A n \in Originals : Sight(V[k])[n] = line[k + 1][n]
    BY <2>1 DEF Tracked, Timeline
  <2>5. line[k + 1] \in ShownOriginals
    <3>1. k + 1 \in 1 .. Len(line) /\ line \in Seq(ShownOriginals) BY DEF Sane, Shape
    <3>. QED BY <3>1
  <2>6. line[k + 1] = [n \in Originals |-> line[k + 1][n]]
    BY <2>5 DEF ShownOriginals
  <2>. QED BY <2>3, <2>4, <2>6
<1>. QED BY <1>1, AlwaysRecoverable, PTL

\* No version that can be reached refers to an object that was undone: what
\* an implicit operation adds is added to the versions still to be redone.
THEOREM ReferencesAlwaysResolve ==
    ASSUME Unstashed = FALSE
    PROVE  Spec => []ReferencesResolve
<1>1. Sane /\ Recoverable => ReferencesResolve
  <2>. SUFFICES ASSUME Sane, Recoverable, NEW k \in 0 .. Len(hist), NEW n \in Numbers,
                       Entry(Version(k), n).obj \in Numbers
                PROVE  Entry(Version(k), n).obj \in Readable(Version(k))
    BY DEF ReferencesResolve
  <2>1. PICK G, V : Tracked(G, V) BY DEF Recoverable, Tracked
  <2>2. HasTop(Version(k), V[k], doc.len) BY <2>1, VersionIs
  <2>3. /\ Entry(Version(k), n) = Effective(V[k], n)
        /\ Readable(Version(k)) = {m \in Numbers : Effective(V[k], m) # Blank}
    BY <2>2, ReadIs
  <2>4. Resolves(V[k]) BY <2>1 DEF Tracked, Timeline
  <2>. QED BY <2>3, <2>4 DEF Resolves
<1>. QED BY <1>1, AlwaysRecoverable, PTL

\* Abandoning reverts to the state when the operation was begun, as the
\* header says, where callers replace no object their operation has not
\* altered.  With other callers it does not: TLC shows it.
THEOREM AbandonRevertsWhatIsStashed ==
    ASSUME Unstashed = FALSE
    PROVE  Spec => AbandonReverts
<1>1. ASSUME Sane, Recoverable, Abandon PROVE Read(doc)' = begun[nesting]
  <2>1. PICK G, V : Tracked(G, V) BY <1>1 DEF Recoverable, Tracked
  <2>2. nesting > 0 /\ nesting \in 1 .. nesting BY <1>1, ShapeTypes DEF Abandon, Sane
  <2>3. /\ Swaps(TopOf(doc), Latest, G[nesting]) /\ Sight(G[nesting]) = begun[nesting]
    BY <1>1, <2>1, <2>2, OpeningTypes
  <2>4. TopOf(doc') = G[nesting]
    <3>1. TopOf(doc') = After(TopOf(doc), Latest) BY <1>1, SaneAbandon
    <3>2. Latest \in Entries /\ TopOf(doc) \in Tops BY <1>1, <2>2, ShapeTypes DEF Sane
    <3>. QED BY <2>3, <3>1, <3>2, AfterSwaps, SwapsOnce
  <2>5. HasTop(doc', TopOf(doc'), doc'.len) BY <1>1, SaneAbandon DEF Sane, Shape
  <2>6. Read(doc') = Sight(TopOf(doc')) BY <2>5, ReadIs
  <2>. QED BY <2>3, <2>4, <2>6
<1>2. Sane /\ Recoverable => [Abandon => Read(doc)' = begun[nesting]]_vars
  BY <1>1
<1>. QED BY <1>2, AlwaysRecoverable, PTL DEF AbandonReverts

\* When an implicit operation ends and something can still be redone, what is
\* seen of the file's objects has not changed.
LEMMA AmendKeepsRedo ==
    ASSUME Sane, Recoverable, nesting = 1, Len(hist) > current
    PROVE  Seen(doc) = line[current + 1]
<1>. DEFINE T == TopOf(doc)
<1>1. PICK G, V : Tracked(G, V) BY DEF Recoverable, Tracked
<1>2. Swaps(T, Latest, G[1]) /\ V[current] = G[1] /\ G[1] \in Tops
  <2>1. 1 \in 1 .. 1 + 1 OBVIOUS
  <2>. QED BY <1>1, <2>1, OpeningTypes
<1>3. /\ current \in 0 .. Len(hist) /\ current + 1 \in 1 .. Len(line)
      /\ line \in Seq(ShownOriginals)
  BY DEF Sane, Shape
<1>4. \A n \in Originals : Sight(G[1])[n] = line[current + 1][n]
  BY <1>1, <1>2, <1>3 DEF Tracked, Timeline
<1>5. \A n \in Originals : n \in Numbers BY DEF Originals
<1>6. \A n \in Originals : n \notin Nums(Latest)
  <2>1. Len(pending) = 1 /\ Latest = pending[1].frags BY DEF nesting, Latest
  <2>. QED BY <2>1 DEF Recoverable, Untouched
<1>7. \A n \in Originals : Sight(T)[n] = Sight(G[1])[n]
  BY <1>2, <1>5, <1>6 DEF Swaps, Sight, Effective
<1>8. Seen(doc) = [n \in Originals |-> Sight(T)[n]] BY ReadIs DEF Sane, Shape
<1>9. line[current + 1] = [n \in Originals |-> line[current + 1][n]]
  BY <1>3 DEF ShownOriginals
<1>. QED BY <1>4, <1>7, <1>8, <1>9

\* The journal implements the line of versions: each step is one of the line
\* or changes nothing of it.
THEOREM HistoryImplementsALine ==
    ASSUME Unstashed = FALSE
    PROVE  Spec => HistoryIsALine
<1>1. Init => Line!Init
  <2>. SUFFICES ASSUME Init PROVE Line!Init
    OBVIOUS
  <2>1. Seen(doc) \in ShownOriginals BY InitSane, ReadIs DEF Sane, Shape, ShownOriginals
  <2>2. line = <<Seen(doc)>> /\ current = 0 BY DEF Init
  <2>3. line \in [{1} -> ShownOriginals]
    <3>1. line = [i \in 1 .. 1 |-> Seen(doc)] BY <2>2
    <3>2. 1 .. 1 = {1} OBVIOUS
    <3>. QED BY <2>1, <3>1, <3>2
  <2>. QED BY <2>2, <2>3 DEF Line!Init, ShownOriginals
<1>2. ASSUME Sane, Recoverable, [Next]_vars PROVE [Line!Next]_(Line!vars)
  <2>1. /\ hist \in Seq(Entries \ {<<>>}) /\ current \in 0 .. Len(hist)
        /\ Len(hist) \in Nat /\ current \in Nat
        /\ line \in Seq(ShownOriginals) /\ Len(line) = Len(hist) + 1
    BY <1>2 DEF Sane, Shape
  <2>2. Seen(doc) \in ShownOriginals BY <1>2, ReadIs DEF Sane, Shape, ShownOriginals
  <2>3. CASE UNCHANGED <<line, current>> BY <2>3 DEF Line!vars
  <2>4. CASE \E titled \in BOOLEAN : Begin(titled) BY <2>3, <2>4 DEF Begin
  <2>5. CASE \E v \in Values : AddObject(v) BY <2>3, <2>5 DEF AddObject
  <2>6. CASE \E n \in Numbers : Load(n) BY <2>3, <2>6 DEF Load
  <2>7. CASE \E n \in Numbers, c \in Available : Alter(n, c)
    <3>1. current' = current /\ line' = SubSeq(line, 1, current + 1) BY <2>7 DEF Alter
    <3>. QED BY <3>1 DEF Line!Next, Line!Forget
  <2>8. CASE \E n \in Numbers, c \in Available : Update(n, c)
    BY <2>3, <2>8 DEF Update
  <2>9. CASE Abandon BY <2>3, <2>9 DEF Abandon
  <2>10. CASE EndNested BY <2>3, <2>10 DEF EndNested
  <2>11. CASE EndOutermost
    <3>1. CASE UNCHANGED <<hist, current, line>> BY <2>3, <3>1
    <3>2. CASE /\ current' = current + 1
               /\ line' \in Seq(ShownOriginals) /\ Len(line') = current + 2
               /\ line'[current + 2] = Seen(doc)
               /\ SubSeq(line', 1, current + 1) = SubSeq(line, 1, current + 1)
      <4>. DEFINE s == SubSeq(line, 1, current + 1)
      <4>1. Len(s) = current + 1 BY <1>2, CutHistory
      <4>2. Len(s) + 1 = current + 2 /\ current' + 1 = (current + 1) + 1 BY <2>1, <3>2, <4>1
      <4>. HIDE DEF s
      <4>3. Line!Grown(s)
        BY <2>2, <3>2, <4>1, <4>2 DEF Line!Grown, ShownOriginals, s
      <4>. QED BY <4>2, <4>3 DEF Line!Next, Line!Edit, s
    <3>3. CASE /\ current' = current
               /\ line' \in Seq(ShownOriginals) /\ Len(line') = Len(line)
               /\ \A k \in 1 .. Len(line) : k # current + 1 => line'[k] = line[k]
               /\ line'[current + 1] = Seen(doc)
               /\ line' = [line EXCEPT ![current + 1] = Seen(doc)]
      <4>1. CASE Len(hist) > current
        <5>1. Seen(doc) = line[current + 1]
          BY <1>2, <2>11, <4>1, AmendKeepsRedo DEF EndOutermost
        <5>2. line' = line BY <2>1, <3>3, <5>1
        <5>. QED BY <2>3, <3>3, <5>2
      <4>2. CASE ~(Len(hist) > current)
        <5>. DEFINE s == SubSeq(line, 1, (current + 1) - 1)
                    t == SubSeq(line', 1, current)
        <5>1. Len(line) = current + 1 /\ (current + 1) - 1 = current BY <2>1, <4>2
        <5>2. s = SubSeq(line, 1, current) BY <5>1
        <5>3. /\ s \in Seq(ShownOriginals) /\ Len(s) = current
              /\ \A k \in 1 .. current : s[k] = line[k]
          <6>1. current \in 0 .. Len(line) BY <2>1, <5>1
          <6>. HIDE DEF s
          <6>. QED BY <2>1, <5>2, <6>1, CutIs
        <5>4. /\ t \in Seq(ShownOriginals) /\ Len(t) = current
              /\ \A k \in 1 .. current : t[k] = line'[k]
          <6>1. current \in 0 .. Len(line') BY <2>1, <3>3, <5>1
          <6>. QED BY <3>3, <6>1, CutIs
        <5>. HIDE DEF s, t
        <5>5. t = s
          <6>1. \A k \in 1 .. current : k \in 1 .. Len(line) /\ k # current + 1
            BY <2>1, <5>1
          <6>2. \A k \in 1 .. current : t[k] = s[k] BY <3>3, <5>3, <5>4, <6>1
          <6>. QED BY <5>3, <5>4, <6>2, SeqEqual
        <5>6. Line!Grown(s)
          BY <2>2, <3>3, <5>1, <5>3, <5>5 DEF Line!Grown, ShownOriginals, t
        <5>. QED BY <3>3, <5>6 DEF Line!Next, Line!Amend, s
      <4>. QED BY <4>1, <4>2
    <3>. QED BY <1>2, <2>11, <3>1, <3>2, <3>3, EndOutermostIs
  <2>12. CASE Undo
    <3>1. /\ current > 0 /\ current' = current - 1 /\ line' = line BY <2>12 DEF Undo
    <3>2. current + 1 > 1 /\ current' + 1 = (current + 1) - 1 BY <2>1, <3>1
    <3>. QED BY <3>1, <3>2 DEF Line!Next, Line!Undo
  <2>13. CASE Redo
    <3>1. /\ current < Len(hist) /\ current' = current + 1 /\ line' = line
      BY <2>13 DEF Redo
    <3>2. current + 1 < Len(line) /\ current' + 1 = (current + 1) + 1 BY <2>1, <3>1
    <3>. QED BY <3>1, <3>2 DEF Line!Next, Line!Redo
  <2>14. CASE DiscardBetweenOperations
    <3>1. current' + 1 = 1 /\ line' = <<line[current + 1]>>
      BY <2>14 DEF DiscardBetweenOperations, Discard
    <3>. QED BY <3>1 DEF Line!Next, Line!Reset
  <2>15. CASE UNCHANGED vars BY <2>3, <2>15 DEF vars
  <2>. QED BY <1>2, <2>4, <2>5, <2>6, <2>7, <2>8, <2>9, <2>10, <2>11, <2>12, <2>13,
              <2>14, <2>15 DEF Next
<1>. QED BY <1>1, <1>2, AlwaysRecoverable, PTL DEF Spec, HistoryIsALine, Line!Spec
=============================================================================
