------------------------- MODULE Workstation_proofs -------------------------
(* Theorems about Workstation and their proofs. *)
EXTENDS Workstation, CommonLemmas, FiniteSetTheorems, TLAPS

-----------------------------------------------------------------------------
(* Closing a tab: the list without it. *)

\* What WithoutTab computes, tab by tab.
Filtering(kept, ts, id) ==
    /\ kept[0] = <<>>
    /\ \A k \in 1 .. Len(ts) :
          kept[k] = IF ts[k].id = id THEN kept[k - 1] ELSE Append(kept[k - 1], ts[k])
    /\ WithoutTab(ts, id) = kept[Len(ts)]

LEMMA TabsAreFiltered ==
    ASSUME NEW S, NEW ts \in Seq(S), NEW id
    PROVE  \E kept \in [0 .. Len(ts) -> Seq(S)] : Filtering(kept, ts, id)
<1>. DEFINE n == Len(ts)
            step == [k \in Nat |-> [s \in Seq(S) |->
                        IF k + 1 \in 1 .. n /\ ts[k + 1].id # id
                        THEN Append(s, ts[k + 1]) ELSE s]]
            Is(f) == f = [i \in 0 .. Len(ts) |->
                             IF i = 0 THEN <<>>
                             ELSE IF ts[i].id = id THEN f[i - 1]
                             ELSE Append(f[i - 1], ts[i])]
<1>1. n \in Nat OBVIOUS
<1>2. step \in [Nat -> [Seq(S) -> Seq(S)]]
  <2>. SUFFICES ASSUME NEW k \in Nat, NEW s \in Seq(S)
                PROVE  (IF k + 1 \in 1 .. n /\ ts[k + 1].id # id
                        THEN Append(s, ts[k + 1]) ELSE s) \in Seq(S)
    OBVIOUS
  <2>1. k + 1 \in 1 .. n => ts[k + 1] \in S OBVIOUS
  <2>. QED BY <2>1
<1>3. <<>> \in Seq(S) OBVIOUS
<1>. HIDE DEF n, step, Is
<1>4. PICK f \in [0 .. n -> Seq(S)] : Runs(f, <<>>, step, n)
  BY <1>1, <1>2, <1>3, RecursionExists
<1>. USE DEF Is
<1>5. ASSUME NEW k \in 1 .. n
      PROVE  f[k] = IF ts[k].id = id THEN f[k - 1] ELSE Append(f[k - 1], ts[k])
  <2>1. k - 1 \in Nat /\ f[k - 1] \in Seq(S) /\ (k - 1) + 1 = k
    BY <1>1, <1>4
  <2>3. f[k] = step[k - 1][f[k - 1]] BY <1>4 DEF Runs
  <2>2. step[k - 1][f[k - 1]] =
          IF k \in 1 .. n /\ ts[k].id # id THEN Append(f[k - 1], ts[k]) ELSE f[k - 1]
    BY <2>1 DEF step
  <2>. QED BY <2>2, <2>3
<1>6. Is(f)
  <2>. DEFINE g == [i \in 0 .. Len(ts) |->
                       IF i = 0 THEN <<>>
                       ELSE IF ts[i].id = id THEN f[i - 1] ELSE Append(f[i - 1], ts[i])]
  <2>1. ASSUME NEW i \in 0 .. n PROVE f[i] = g[i]
    <3>1. CASE i = 0 BY <3>1, <1>4 DEF n, Runs
    <3>2. CASE i # 0
      <4>1. i \in 1 .. n BY <3>2, <1>1
      <4>. QED BY <3>2, <4>1, <1>5 DEF n
    <3>. QED BY <3>1, <3>2
  <2>2. DOMAIN f = 0 .. n /\ DOMAIN g = 0 .. n BY <1>4 DEF n
  <2>3. f = [i \in 0 .. n |-> f[i]] /\ g = [i \in 0 .. n |-> g[i]] BY <1>4 DEF n
  <2>. HIDE DEF g
  <2>4. f = g BY <2>1, <2>3
  <2>. QED BY <2>4 DEF g
<1>. DEFINE kept == CHOOSE g : Is(g)
<1>7. WithoutTab(ts, id) = kept[n]
  BY DEF WithoutTab, n
<1>8. Is(kept) BY <1>6
<1>. HIDE DEF kept
<1>9. DOMAIN kept = 0 .. n BY <1>8 DEF n
<1>10. kept[0] = <<>> BY <1>1, <1>8 DEF n
<1>11. ASSUME NEW k \in 1 .. n
       PROVE  kept[k] = IF ts[k].id = id THEN kept[k - 1] ELSE Append(kept[k - 1], ts[k])
  <2>1. k \in 0 .. n /\ k # 0 BY <1>1
  <2>. QED BY <2>1, <1>8 DEF n
<1>. HIDE DEF Is
<1>12. kept \in [0 .. n -> Seq(S)]
  <2>. DEFINE P == {m \in Nat : m <= n => kept[m] \in Seq(S)}
  <2>1. 0 \in P BY <1>3, <1>10
  <2>2. ASSUME NEW m \in Nat, m \in P PROVE m + 1 \in P
    <3>. SUFFICES ASSUME m + 1 <= n PROVE kept[m + 1] \in Seq(S)
      OBVIOUS
    <3>1. kept[m] \in Seq(S) BY <2>2, <1>1
    <3>2. m + 1 \in 1 .. n /\ (m + 1) - 1 = m BY <1>1
    <3>3. ts[m + 1] \in S BY <3>2 DEF n
    <3>4. kept[m + 1] = IF ts[m + 1].id = id THEN kept[m] ELSE Append(kept[m], ts[m + 1])
      BY <3>2, <1>11
    <3>. HIDE DEF P
    <3>5. Append(kept[m], ts[m + 1]) \in Seq(S) BY <3>1, <3>3
    <3>. QED BY <3>1, <3>4, <3>5
  <2>3. \A m \in Nat : m \in P
    <3>. HIDE DEF P
    <3>. QED BY <2>1, <2>2, Induction
  <2>4. \A m \in 0 .. n : kept[m] \in Seq(S) BY <2>3, <1>1
  <2>5. kept = [m \in 0 .. n |-> kept[m]] BY <1>8, <1>9 DEF Is, n
  <2>. QED BY <2>4, <2>5
<1>. QED BY <1>7, <1>10, <1>11, <1>12 DEF n, Filtering

LEMMA TabAppended ==
    ASSUME NEW S, NEW ts \in Seq(S), NEW t \in S
    PROVE  /\ Append(ts, t) \in Seq(S) /\ Len(Append(ts, t)) = Len(ts) + 1
           /\ RangeOf(Append(ts, t)) = RangeOf(ts) \cup {t}
           /\ UniqueTabs(ts) /\ t.id \notin Ids(ts) => UniqueTabs(Append(ts, t))
<1>. DEFINE u == Append(ts, t)
            n == Len(ts)
<1>1. /\ n \in Nat /\ DOMAIN ts = 1 .. n /\ DOMAIN u = 1 .. n + 1
      /\ u \in Seq(S) /\ Len(u) = n + 1
      /\ u[n + 1] = t /\ \A i \in 1 .. n : u[i] = ts[i]
  OBVIOUS
<1>. HIDE DEF u, n
<1>2. RangeOf(u) = RangeOf(ts) \cup {t}
  <2>1. ASSUME NEW i \in 1 .. n + 1 PROVE u[i] \in RangeOf(ts) \cup {t}
    <3>1. i \in 1 .. n \/ i = n + 1 BY <1>1
    <3>. QED BY <1>1, <3>1 DEF RangeOf
  <2>2. \A i \in 1 .. n : i \in 1 .. n + 1 BY <1>1
  <2>3. n + 1 \in 1 .. n + 1 BY <1>1
  <2>. QED BY <1>1, <2>1, <2>2, <2>3 DEF RangeOf
<1>3. ASSUME UniqueTabs(ts), t.id \notin Ids(ts) PROVE UniqueTabs(u)
  <2>1. \A i \in 1 .. n : u[i].id # t.id BY <1>1, <1>3 DEF Ids, RangeOf
  <2>2. ASSUME NEW i \in 1 .. n + 1, NEW j \in 1 .. n + 1, u[i].id = u[j].id PROVE i = j
    <3>1. (i \in 1 .. n \/ i = n + 1) /\ (j \in 1 .. n \/ j = n + 1) BY <1>1
    <3>. QED BY <1>1, <1>3, <2>1, <2>2, <3>1 DEF UniqueTabs
  <2>. QED BY <1>1, <2>2 DEF UniqueTabs
<1>. QED BY <1>1, <1>2, <1>3 DEF u, n

\* A list without a tab holds the others, and is shorter by one if the tab
\* was on it.
LEMMA TabIsTakenOut ==
    ASSUME NEW S, NEW ts \in Seq(S), NEW id
    PROVE  /\ WithoutTab(ts, id) \in Seq(S)
           /\ Len(WithoutTab(ts, id)) <= Len(ts)
           /\ RangeOf(WithoutTab(ts, id)) = {t \in RangeOf(ts) : t.id # id}
           /\ UniqueTabs(ts) =>
                 /\ UniqueTabs(WithoutTab(ts, id))
                 /\ id \in Ids(ts) => Len(WithoutTab(ts, id)) = Len(ts) - 1
<1>1. PICK kept \in [0 .. Len(ts) -> Seq(S)] : Filtering(kept, ts, id)
  BY TabsAreFiltered
<1>. DEFINE n == Len(ts)
            Others(k) == {ts[i] : i \in {j \in 1 .. k : ts[j].id # id}}
            Good(k) == /\ Len(kept[k]) <= k
                       /\ RangeOf(kept[k]) = Others(k)
                       /\ UniqueTabs(ts) =>
                             /\ UniqueTabs(kept[k])
                             /\ \A p \in 1 .. n : ts[p].id = id =>
                                   Len(kept[k]) = IF p <= k THEN k - 1 ELSE k
            P == {k \in Nat : k <= n => Good(k)}
<1>2. n \in Nat /\ DOMAIN ts = 1 .. n OBVIOUS
<1>. HIDE DEF n
<1>3. 0 \in P
  <2>1. Len(kept[0]) = 0 /\ RangeOf(kept[0]) = {} /\ UniqueTabs(kept[0])
    BY <1>1 DEF Filtering, RangeOf, UniqueTabs
  <2>2. Others(0) = {} OBVIOUS
  <2>. QED BY <1>2, <2>1, <2>2
<1>4. ASSUME NEW k \in Nat, k \in P PROVE k + 1 \in P
  <2>. SUFFICES ASSUME k + 1 <= n PROVE Good(k + 1)
    OBVIOUS
  <2>. DEFINE t == ts[k + 1]
  <2>1. k <= n /\ k + 1 \in 1 .. n /\ (k + 1) - 1 = k /\ k \in 0 .. n BY <1>2
  <2>2. Good(k) BY <1>4, <2>1
  <2>3. kept[k] \in Seq(S) /\ t \in S BY <1>1, <1>2, <2>1 DEF n
  <2>4. kept[k + 1] = IF t.id = id THEN kept[k] ELSE Append(kept[k], t)
    BY <1>1, <2>1 DEF n, Filtering
  <2>5. Others(k + 1) = IF t.id = id THEN Others(k) ELSE Others(k) \cup {t}
    <3>1. \A j : j \in 1 .. k + 1 <=> j \in 1 .. k \/ j = k + 1 OBVIOUS
    <3>. QED BY <3>1
  <2>6. Len(kept[k]) \in Nat BY <2>3
  <2>7. CASE t.id = id
    <3>1. kept[k + 1] = kept[k] /\ Others(k + 1) = Others(k) BY <2>4, <2>5, <2>7
    <3>2. Len(kept[k + 1]) <= k + 1 BY <2>2, <2>6, <3>1
    <3>3. ASSUME UniqueTabs(ts), NEW p \in 1 .. n, ts[p].id = id
          PROVE  Len(kept[k + 1]) = IF p <= k + 1 THEN (k + 1) - 1 ELSE k + 1
      <4>1. p = k + 1 BY <1>2, <2>1, <2>7, <3>3 DEF UniqueTabs
      <4>2. ~(p <= k) /\ p <= k + 1 BY <4>1
      <4>. QED BY <2>2, <3>1, <3>3, <4>2
    <3>. QED BY <2>2, <3>1, <3>2, <3>3
  <2>8. CASE t.id # id
    <3>1. kept[k + 1] = Append(kept[k], t) /\ Others(k + 1) = Others(k) \cup {t}
      BY <2>4, <2>5, <2>8
    <3>2. Len(kept[k + 1]) = Len(kept[k]) + 1 /\ RangeOf(kept[k + 1]) = Others(k + 1)
      <4>1. /\ Len(Append(kept[k], t)) = Len(kept[k]) + 1
            /\ RangeOf(Append(kept[k], t)) = RangeOf(kept[k]) \cup {t}
        <5>. HIDE DEF t
        <5>. QED BY <2>3, TabAppended
      <4>2. RangeOf(kept[k]) = Others(k) BY <2>2
      <4>. HIDE DEF Others, t
      <4>. QED BY <3>1, <4>1, <4>2
    <3>3. ASSUME UniqueTabs(ts) PROVE UniqueTabs(kept[k + 1])
      <4>1. t.id \notin Ids(kept[k])
        <5>. SUFFICES ASSUME NEW u \in RangeOf(kept[k]), u.id = t.id PROVE FALSE
          BY DEF Ids
        <5>1. PICK j \in 1 .. k : u = ts[j] BY <2>2
        <5>2. j \in 1 .. n /\ j # k + 1 BY <1>2, <2>1
        <5>. QED BY <1>2, <2>1, <3>3, <5>1, <5>2 DEF UniqueTabs
      <4>. QED BY <2>2, <2>3, <3>1, <3>3, <4>1, TabAppended
    <3>4. ASSUME UniqueTabs(ts), NEW p \in 1 .. n, ts[p].id = id
          PROVE  Len(kept[k + 1]) = IF p <= k + 1 THEN (k + 1) - 1 ELSE k + 1
      <4>1. p # k + 1 /\ p \in Nat BY <1>2, <2>8, <3>4
      <4>2. Len(kept[k]) = IF p <= k THEN k - 1 ELSE k BY <2>2, <3>4
      <4>. QED BY <2>6, <3>2, <4>1, <4>2
    <3>5. Len(kept[k + 1]) <= k + 1 BY <2>2, <2>6, <3>2
    <3>. QED BY <3>2, <3>3, <3>4, <3>5
  <2>. QED BY <2>7, <2>8
<1>5. \A k \in Nat : k \in P
  <2>. HIDE DEF P
  <2>. QED BY <1>3, <1>4, Induction
<1>6. Good(n)
  <2>1. n \in P
    <3>. HIDE DEF P
    <3>. QED BY <1>2, <1>5
  <2>2. n <= n BY <1>2
  <2>. HIDE DEF Good
  <2>. QED BY <2>1, <2>2
<1>7. WithoutTab(ts, id) = kept[n] /\ kept[n] \in Seq(S) BY <1>1, <1>2 DEF n, Filtering
<1>8. Others(n) = {t \in RangeOf(ts) : t.id # id} BY <1>2 DEF RangeOf
<1>9. ASSUME UniqueTabs(ts), id \in Ids(ts) PROVE Len(kept[n]) = n - 1
  <2>1. PICK p \in 1 .. n : ts[p].id = id BY <1>2, <1>9 DEF Ids, RangeOf
  <2>2. p <= n BY <1>2
  <2>. QED BY <1>6, <1>9, <2>1, <2>2
<1>. QED BY <1>6, <1>7, <1>8, <1>9 DEF n

\* The ids of a list of tabs are ids of tabs.
LEMMA IdsOfTabs ==
    ASSUME NEW ts \in Seq(Tab)
    PROVE  Ids(ts) \subseteq TabIds
<1>1. \A t \in Tab : t.id \in TabIds BY DEF Tab
<1>2. \A i \in DOMAIN ts : ts[i] \in Tab OBVIOUS
<1>. QED BY <1>1, <1>2 DEF Ids, RangeOf

\* The neighbour that becomes active is a tab that stays.
LEMMA FallbackIsATab ==
    ASSUME NEW ts \in Seq(Tab), NEW id \in Ids(ts), UniqueTabs(ts)
    PROVE  Fallback(ts, id) \in Ids(WithoutTab(ts, id)) \cup {NoTab}
<1>. DEFINE rest == WithoutTab(ts, id)
            i == PositionOf(ts, id)
<1>1. rest \in Seq(Tab) /\ Len(rest) = Len(ts) - 1
  BY TabIsTakenOut
<1>2. i \in DOMAIN ts BY DEF PositionOf, Ids, RangeOf
<1>3. Fallback(ts, id) = IF rest = <<>> THEN NoTab ELSE rest[IF i > 2 THEN i - 1 ELSE 1].id
  BY DEF Fallback
<1>. HIDE DEF rest, i
<1>4. CASE rest # <<>>
  <2>1. Len(rest) >= 1 BY <1>1, <1>4
  <2>2. (IF i > 2 THEN i - 1 ELSE 1) \in DOMAIN rest BY <1>1, <1>2, <2>1
  <2>. QED BY <1>3, <1>4, <2>2 DEF Ids, RangeOf, rest
<1>. QED BY <1>3, <1>4

\* Two lists of tabs that differ in flags only.
SameTabs(ts, us) ==
    /\ us \in Seq(Tab) /\ Len(us) = Len(ts)
    /\ \A i \in 1 .. Len(ts) : us[i].id = ts[i].id /\ us[i].doc = ts[i].doc

LEMMA SameTabsAreAsGood ==
    ASSUME NEW ts \in Seq(Tab), NEW us, SameTabs(ts, us)
    PROVE  /\ Ids(us) = Ids(ts)
           /\ UniqueTabs(ts) => UniqueTabs(us)
           /\ \A owner : OwnedTabs(ts, owner) => OwnedTabs(us, owner)
<1>1. DOMAIN ts = 1 .. Len(ts) /\ DOMAIN us = 1 .. Len(ts)
  BY DEF SameTabs
<1>2. Ids(us) = Ids(ts) BY <1>1 DEF SameTabs, Ids, RangeOf
<1>3. UniqueTabs(ts) => UniqueTabs(us) BY <1>1 DEF SameTabs, UniqueTabs
<1>4. ASSUME NEW owner, OwnedTabs(ts, owner) PROVE OwnedTabs(us, owner)
  <2>1. ASSUME NEW i \in 1 .. Len(ts), NEW n \in Sessions, us[i].id = Doc(n)
        PROVE  n \in DOMAIN owner /\ us[i].doc = owner[n]
    <3>1. ts[i].id = Doc(n) /\ us[i].doc = ts[i].doc BY <2>1 DEF SameTabs
    <3>. QED BY <1>1, <1>4, <3>1 DEF OwnedTabs, RangeOf
  <2>. QED BY <1>1, <2>1 DEF OwnedTabs, RangeOf
<1>. QED BY <1>2, <1>3, <1>4

LEMMA FlagsOnly ==
    ASSUME NEW ts \in Seq(Tab)
    PROVE  /\ \A id : \A dirty \in BOOLEAN : SameTabs(ts, UpdateTab(ts, id, dirty))
           /\ \A n : SameTabs(ts, SyncTab(ts, n)) /\ SameTabs(ts, ErrorTab(ts, n))
           /\ SameTabs(ts, ts)
<1>1. /\ Len(ts) \in Nat /\ DOMAIN ts = 1 .. Len(ts)
      /\ \A i \in 1 .. Len(ts) : ts[i] \in Tab
  OBVIOUS
<1>2. ASSUME NEW id, NEW dirty \in BOOLEAN PROVE SameTabs(ts, UpdateTab(ts, id, dirty))
  <2>. DEFINE t(i) == IF ts[i].id = id THEN [ts[i] EXCEPT !.dirty = dirty] ELSE ts[i]
  <2>1. ASSUME NEW i \in 1 .. Len(ts)
        PROVE  t(i) \in Tab /\ t(i).id = ts[i].id /\ t(i).doc = ts[i].doc
    BY <1>1 DEF Tab
  <2>2. UpdateTab(ts, id, dirty) = [i \in 1 .. Len(ts) |-> t(i)] BY <1>1 DEF UpdateTab
  <2>. HIDE DEF t
  <2>. QED BY <1>1, <2>1, <2>2 DEF SameTabs
<1>3. ASSUME NEW n PROVE SameTabs(ts, SyncTab(ts, n))
  <2>. DEFINE t(i) == IF ts[i].id = Doc(n)
                      THEN [ts[i] EXCEPT !.dirty = (n \in changed), !.ready = TRUE]
                      ELSE ts[i]
  <2>1. ASSUME NEW i \in 1 .. Len(ts)
        PROVE  t(i) \in Tab /\ t(i).id = ts[i].id /\ t(i).doc = ts[i].doc
    <3>1. (n \in changed) \in BOOLEAN OBVIOUS
    <3>. QED BY <1>1, <3>1 DEF Tab
  <2>2. SyncTab(ts, n) = [i \in 1 .. Len(ts) |-> t(i)] BY <1>1 DEF SyncTab
  <2>. HIDE DEF t
  <2>. QED BY <1>1, <2>1, <2>2 DEF SameTabs
<1>4. ASSUME NEW n PROVE SameTabs(ts, ErrorTab(ts, n))
  <2>. DEFINE t(i) == IF ts[i].id = Doc(n) THEN [ts[i] EXCEPT !.ready = FALSE] ELSE ts[i]
  <2>1. ASSUME NEW i \in 1 .. Len(ts)
        PROVE  t(i) \in Tab /\ t(i).id = ts[i].id /\ t(i).doc = ts[i].doc
    BY <1>1 DEF Tab
  <2>2. ErrorTab(ts, n) = [i \in 1 .. Len(ts) |-> t(i)] BY <1>1 DEF ErrorTab
  <2>. HIDE DEF t
  <2>. QED BY <1>1, <2>1, <2>2 DEF SameTabs
<1>5. SameTabs(ts, ts) BY <1>1 DEF SameTabs
<1>. QED BY <1>2, <1>3, <1>4, <1>5

-----------------------------------------------------------------------------
(* The stacks of the editor. *)

\* Applying an entry moves its object in or out; what becomes of recognised
\* text is not followed.
Toggled(i, here, now) ==
    /\ i[2] # 0 => (i \in now <=> i \notin here)
    /\ \A j : j # i => (j \in now <=> j \in here)

Top(s) == s[Len(s)]

LEMMA EntryTaken ==
    ASSUME NEW s \in Seq(Entry), s # <<>>, NEW op \in {"add", "delete"},
           NEW here, NEW now, Fits(s, op, here),
           Toggled(Top(s).object.id, here, now)
    PROVE  /\ Top(s) \in Entry /\ Top(s) \in RangeOf(s)
           /\ SubSeq(s, 1, Len(s) - 1) \in Seq(Entry)
           /\ RangeOf(SubSeq(s, 1, Len(s) - 1)) \subseteq RangeOf(s)
           /\ Top(s).object.id[2] # 0 => ((Top(s).op = op) <=> (Top(s).object.id \in here))
           /\ Fits(SubSeq(s, 1, Len(s) - 1), op, now)
<1>. DEFINE e == Top(s)
            n == Len(s)
            f == SubSeq(s, 1, n - 1)
<1>1. /\ n \in Nat \ {0} /\ DOMAIN s = 1 .. n /\ n \in 1 .. n
      /\ \A k \in 1 .. n : s[k] \in Entry
  OBVIOUS
<1>2. n - 1 \in Nat /\ \A k \in 1 .. n - 1 : k \in 1 .. n /\ k < n
  BY <1>1
<1>3. f \in Seq(Entry) /\ DOMAIN f = 1 .. n - 1 /\ \A k \in 1 .. n - 1 : f[k] = s[k]
  BY <1>1, <1>2
<1>0. e = s[n] BY DEF Top
<1>. HIDE DEF e, n, f
<1>4. e \in Entry /\ e \in RangeOf(s) /\ RangeOf(f) \subseteq RangeOf(s)
  BY <1>0, <1>1, <1>2, <1>3 DEF RangeOf
<1>5. e.object.id[2] # 0 => ((e.op = op) <=> (e.object.id \in here))
  <2>1. \A j \in 1 .. n : ~(j > n) BY <1>1
  <2>. QED BY <1>0, <1>1, <2>1 DEF Fits
<1>6. ASSUME NEW k \in 1 .. n - 1, s[k].object.id[2] # 0,
             \A j \in 1 .. n - 1 : j > k => s[j].object.id # s[k].object.id
      PROVE  (s[k].op = op) <=> (s[k].object.id \in now)
  <2>1. CASE s[k].object.id = e.object.id
    <3>1. \A m \in 1 .. n : k < m /\ m < n => m \in 1 .. n - 1 /\ m > k
      BY <1>1
    <3>2. s[k].op # e.op
      BY <1>0, <1>1, <1>2, <1>6, <2>1, <3>1 DEF Fits
    <3>3. s[k].op \in {"add", "delete"} /\ e.op \in {"add", "delete"}
      BY <1>1, <1>2, <1>4 DEF Entry
    <3>4. (s[k].op = op) <=> ~(e.op = op) BY <3>2, <3>3
    <3>. QED BY <1>5, <1>6, <2>1, <3>4 DEF Toggled, e
  <2>2. CASE s[k].object.id # e.object.id
    <3>1. \A j \in 1 .. n : j > k => j \in 1 .. n - 1 \/ j = n
      BY <1>1
    <3>2. \A j \in 1 .. n : j > k => s[j].object.id # s[k].object.id
      BY <1>0, <1>6, <2>2, <3>1
    <3>4. k \in 1 .. n BY <1>2
    <3>3. (s[k].op = op) <=> (s[k].object.id \in here) BY <1>1, <1>6, <3>4, <3>2 DEF Fits
    <3>. QED BY <2>2, <3>3 DEF Toggled, e
  <2>. QED BY <2>1, <2>2
<1>7. ASSUME NEW j \in 1 .. n - 1, NEW k \in 1 .. n - 1, j < k,
             s[j].object.id = s[k].object.id, s[k].object.id[2] # 0,
             \A m \in 1 .. n - 1 : j < m /\ m < k => s[m].object.id # s[k].object.id
      PROVE  s[j].op # s[k].op
  <2>1. \A m \in 1 .. n : m < k => m \in 1 .. n - 1 BY <1>1
  <2>. QED BY <1>1, <1>2, <1>7, <2>1 DEF Fits
<1>8. Fits(f, op, now)
  <2>1. DOMAIN f = 1 .. n - 1 BY <1>3
  <2>2. \A k \in 1 .. n - 1 : f[k] = s[k] BY <1>3
  <2>3. ASSUME NEW k \in 1 .. n - 1, f[k].object.id[2] # 0,
               \A j \in 1 .. n - 1 : j > k => f[j].object.id # f[k].object.id
        PROVE  (f[k].op = op) <=> (f[k].object.id \in now)
    BY <1>6, <2>2, <2>3
  <2>4. ASSUME NEW j \in 1 .. n - 1, NEW k \in 1 .. n - 1, j < k,
               f[j].object.id = f[k].object.id, f[k].object.id[2] # 0,
               \A m \in 1 .. n - 1 : j < m /\ m < k => f[m].object.id # f[k].object.id
        PROVE  f[j].op # f[k].op
    BY <1>7, <2>2, <2>4
  <2>. QED BY <2>1, <2>3, <2>4 DEF Fits
<1>. QED BY <1>3, <1>4, <1>5, <1>8 DEF e, n, f

LEMMA EntryPushed ==
    ASSUME NEW s \in Seq(Entry), NEW op \in {"add", "delete"},
           NEW here, NEW now, Fits(s, op, here), NEW e \in Entry,
           e.object.id[2] # 0 => ((e.op = op) <=> (e.object.id \notin here)),
           Toggled(e.object.id, here, now)
    PROVE  /\ Append(s, e) \in Seq(Entry)
           /\ RangeOf(Append(s, e)) = RangeOf(s) \cup {e}
           /\ Fits(Append(s, e), op, now)
<1>. DEFINE n == Len(s)
            t == Append(s, e)
<1>1. /\ n \in Nat /\ DOMAIN s = 1 .. n /\ DOMAIN t = 1 .. n + 1 /\ t \in Seq(Entry)
      /\ t[n + 1] = e /\ \A k \in 1 .. n : t[k] = s[k] /\ s[k] \in Entry
      /\ RangeOf(t) = RangeOf(s) \cup {e}
  BY TabAppended
<1>. HIDE DEF n, t
<1>2. \A k \in 1 .. n + 1 : k = n + 1 \/ (k \in 1 .. n /\ k # n + 1 /\ k < n + 1)
  BY <1>1
<1>3. n + 1 \in 1 .. n + 1 /\ \A k \in 1 .. n : k \in 1 .. n + 1 BY <1>1
<1>4. ASSUME NEW k \in 1 .. n + 1, t[k].object.id[2] # 0,
             \A j \in 1 .. n + 1 : j > k => t[j].object.id # t[k].object.id
      PROVE  (t[k].op = op) <=> (t[k].object.id \in now)
  <2>1. CASE k = n + 1 BY <1>1, <1>4, <2>1 DEF Toggled
  <2>2. CASE k # n + 1
    <3>1. k \in 1 .. n /\ n + 1 > k BY <1>1, <2>2
    <3>2. t[k].object.id # e.object.id BY <1>1, <1>3, <1>4, <3>1
    <3>3. \A j \in 1 .. n : j > k => s[j].object.id # s[k].object.id
      BY <1>1, <1>3, <1>4, <3>1
    <3>4. (s[k].op = op) <=> (s[k].object.id \in here) BY <1>1, <1>4, <3>1, <3>3 DEF Fits
    <3>. QED BY <1>1, <3>1, <3>2, <3>4 DEF Toggled
  <2>. QED BY <2>1, <2>2
<1>5. ASSUME NEW j \in 1 .. n + 1, NEW k \in 1 .. n + 1, j < k,
             t[j].object.id = t[k].object.id, t[k].object.id[2] # 0,
             \A m \in 1 .. n + 1 : j < m /\ m < k => t[m].object.id # t[k].object.id
      PROVE  t[j].op # t[k].op
  <2>1. j \in 1 .. n BY <1>1, <1>5
  <2>2. CASE k = n + 1
    <3>1. \A m \in 1 .. n : m > j => s[m].object.id # s[j].object.id
      BY <1>1, <1>2, <1>3, <1>5, <2>1, <2>2
    <3>2. (s[j].op = op) <=> (s[j].object.id \in here)
      BY <1>1, <1>5, <2>1, <3>1 DEF Fits
    <3>. QED BY <1>1, <1>5, <2>1, <2>2, <3>2
  <2>3. CASE k # n + 1
    <3>1. k \in 1 .. n BY <1>2, <2>3
    <3>2. \A m \in 1 .. n : j < m /\ m < k => s[m].object.id # s[k].object.id
      BY <1>1, <1>3, <1>5, <3>1
    <3>. QED BY <1>1, <1>5, <2>1, <3>1, <3>2 DEF Fits
  <2>. QED BY <2>2, <2>3
<1>6. Fits(t, op, now)
  <2>1. DOMAIN t = 1 .. n + 1 BY <1>1
  <2>2. \A k \in 1 .. n + 1 :
           (t[k].object.id[2] # 0 /\ \A j \in 1 .. n + 1 : j > k => t[j].object.id # t[k].object.id)
              => ((t[k].op = op) <=> (t[k].object.id \in now))
    BY <1>4
  <2>3. \A j, k \in 1 .. n + 1 :
           (/\ j < k /\ t[j].object.id = t[k].object.id /\ t[k].object.id[2] # 0
            /\ \A m \in 1 .. n + 1 : j < m /\ m < k => t[m].object.id # t[k].object.id)
              => t[j].op # t[k].op
    BY <1>5
  <2>. QED BY <2>1, <2>2, <2>3 DEF Fits
<1>. QED BY <1>1, <1>6 DEF t

-----------------------------------------------------------------------------
(* The records of the tasks. *)

OpenTask == [pc : {"open", "state", "failed", "project", "record"}, doc : Docs,
             session : Sessions, restore : BOOLEAN]
SaveTask == [pc : {"pdf", "project", "library"}, session : Sessions, doc : Docs,
             ids : SUBSET ObjectIds, added : SUBSET Object, auto : BOOLEAN]
AcceptTask == [pc : {"overlays"}, session : Sessions, doc : Docs, ids : SUBSET ObjectIds,
               known : BOOLEAN]
CloseTask == [pc : {"session", "index"}, tab : TabIds, seen : Seq(Tab)]

LEMMA TasksUnderWay ==
    ASSUME TypeOK
    PROVE  /\ opening # Idle \/ opening.pc # "idle" => opening \in OpenTask /\ opening # Idle
           /\ saving # Idle \/ saving.pc # "idle" => saving \in SaveTask /\ saving # Idle
           /\ closing # Idle \/ closing.pc # "idle" => closing \in CloseTask /\ closing # Idle
           /\ accepting # Idle => accepting \in AcceptTask
<1>1. Idle.pc = "idle" BY DEF Idle
<1>2. \A t \in OpenTask : t # Idle
  <2>. SUFFICES ASSUME NEW t \in OpenTask PROVE t.pc # "idle" BY <1>1
  <2>. QED BY DEF OpenTask
<1>3. \A t \in SaveTask : t # Idle
  <2>. SUFFICES ASSUME NEW t \in SaveTask PROVE t.pc # "idle" BY <1>1
  <2>. QED BY DEF SaveTask
<1>4. \A t \in CloseTask : t # Idle
  <2>. SUFFICES ASSUME NEW t \in CloseTask PROVE t.pc # "idle" BY <1>1
  <2>. QED BY DEF CloseTask
<1>5. /\ opening = Idle \/ opening \in OpenTask
      /\ saving = Idle \/ saving \in SaveTask
      /\ closing = Idle \/ closing \in CloseTask
      /\ accepting = Idle \/ accepting \in AcceptTask
  BY DEF TypeOK, OpenTask, SaveTask, CloseTask, AcceptTask
<1>. QED BY <1>1, <1>2, <1>3, <1>4, <1>5

LEMMA OpenMovesOn ==
    ASSUME NEW t \in OpenTask, NEW pc \in {"state", "failed", "project", "record"}
    PROVE  LET u == [t EXCEPT !.pc = pc]
           IN  /\ u \in OpenTask /\ u.pc = pc /\ u.doc = t.doc
               /\ u.session = t.session /\ u.restore = t.restore
BY DEF OpenTask

LEMMA SaveMovesOn ==
    ASSUME NEW t \in SaveTask, NEW pc \in {"project", "library"}
    PROVE  LET u == [t EXCEPT !.pc = pc]
           IN  u \in SaveTask /\ u.pc = pc /\ u.doc = t.doc /\ u.ids = t.ids
BY DEF SaveTask

LEMMA CloseMovesOn ==
    ASSUME NEW t \in CloseTask
    PROVE  LET u == [t EXCEPT !.pc = "index"]
           IN  u \in CloseTask /\ u.pc = "index" /\ u.tab = t.tab /\ u.seen = t.seen
BY DEF CloseTask

\* The tab and the session that are active.
LEMMA ActiveTab ==
    ASSUME TypeOK, HasSession
    PROVE  /\ active \in Ids(tabs) /\ ActiveSession \in Sessions
           /\ active = Doc(ActiveSession)
           /\ TabOf(active) \in RangeOf(tabs) /\ TabOf(active).id = active
           /\ TabOf(active) \in Tab
<1>1. \E n \in Sessions : active = Doc(n) BY DEF HasSession
<1>2. ActiveSession \in Sessions /\ active = Doc(ActiveSession)
  BY <1>1 DEF ActiveSession
<1>3. active \in Ids(tabs) BY DEF HasSession
<1>4. \E t \in RangeOf(tabs) : t.id = active BY <1>3 DEF Ids
<1>5. TabOf(active) \in RangeOf(tabs) /\ TabOf(active).id = active
  BY <1>4 DEF TabOf
<1>6. TabOf(active) \in Tab BY <1>5 DEF TypeOK, RangeOf
<1>. QED BY <1>2, <1>3, <1>5, <1>6

LEMMA TypesOfBounds ==
    ASSUME TypeOK
    PROVE  /\ MaxOpens \in Nat /\ MaxObjects \in Nat /\ MaxLaunches \in Nat \ {0}
           /\ opened \in Nat /\ opened <= MaxOpens
           /\ created \in Nat /\ created <= MaxObjects
           /\ launches \in Nat
<1>1. MaxOpens \in Nat /\ MaxObjects \in Nat /\ MaxLaunches \in Nat \ {0}
  BY BoundsAssumption
<1>2. opened \in 0 .. MaxOpens /\ created \in 0 .. MaxObjects /\ launches \in 1 .. MaxLaunches
  BY DEF TypeOK
<1>. QED BY <1>1, <1>2

-----------------------------------------------------------------------------
(* Every step keeps the invariant.  First what most steps leave alone. *)

EditorSound == SavesAreOwned /\ OnlyAcceptanceStrays /\ ObjectsAreNumbered /\ StacksFit

LEMMA EditorStays ==
    ASSUME EditorSound, UNCHANGED <<editor, sidecar, saving, acceptance>>
    PROVE  EditorSound'
<1>1. SavesAreOwned' /\ OnlyAcceptanceStrays'
  BY DEF EditorSound, SavesAreOwned, AtHome, OnlyAcceptanceStrays, acceptance
<1>2. ObjectsAreNumbered' BY DEF EditorSound, ObjectsAreNumbered, editor, acceptance
<1>3. StacksFit' BY DEF EditorSound, StacksFit, Fits, Here, editor
<1>. QED BY <1>1, <1>2, <1>3 DEF EditorSound

LEMMA TabsStaySound ==
    ASSUME ShellInvariant, SameTabs(tabs, tabs'),
           UNCHANGED <<active, opening, closing, restoring, launches, opened>>
    PROVE  /\ TasksAreSound' /\ tabs' \in Seq(Tab) /\ Ids(tabs') = Ids(tabs)
           /\ \A owner : OwnedTabs(tabs, owner) => OwnedTabs(tabs', owner)
<1>1. tabs \in Seq(Tab) /\ TasksAreSound BY DEF ShellInvariant, TypeOK
<1>2. /\ Ids(tabs') = Ids(tabs)
      /\ UniqueTabs(tabs) => UniqueTabs(tabs')
      /\ \A owner : OwnedTabs(tabs, owner) => OwnedTabs(tabs', owner)
  BY <1>1, SameTabsAreAsGood
<1>3. tabs' \in Seq(Tab) /\ Len(tabs') = Len(tabs) BY DEF SameTabs
<1>4. UniqueTabs(tabs') /\ Len(tabs') <= opened
  BY <1>1, <1>2, <1>3 DEF TasksAreSound
<1>5. Ids(tabs') = Ids(tabs) BY <1>2
<1>6. TasksAreSound' BY <1>1, <1>4, <1>5 DEF TasksAreSound
<1>. QED BY <1>2, <1>3, <1>6

\* Steps that change nothing but flags of tabs keep every session's owner.
LEMMA OwnersStay ==
    ASSUME SessionsAreOwned,
           \A owner : OwnedTabs(tabs, owner) => OwnedTabs(tabs', owner),
           UNCHANGED <<editor, opening, closing, opened, acceptance>>
    PROVE  SessionsAreOwned'
<1>1. PICK owner \in [1 .. opened -> Docs] : Owns(owner) BY DEF SessionsAreOwned
<1>2. Owns(owner)' BY <1>1 DEF Owns, Owned, AtHome, OwnedTabs, editor, acceptance
<1>3. owner \in [1 .. opened' -> Docs] OBVIOUS
<1>. QED BY <1>2, <1>3 DEF SessionsAreOwned

LEMMA StutterIsSound ==
    ASSUME ShellInvariant, UNCHANGED vars
    PROVE  ShellInvariant'
<1>1. UNCHANGED <<editor, sidecar, saving, acceptance>>
  BY DEF vars, tasks, backend
<1>2. EditorSound' BY <1>1, EditorStays DEF ShellInvariant, EditorSound
<1>3. TypeOK' BY DEF ShellInvariant, TypeOK, vars, shell, editor, tasks, backend, acceptance
<1>4. TasksAreSound' BY DEF ShellInvariant, TasksAreSound, vars, shell, tasks, backend
<1>5. SessionsAreOwned'
  BY OwnersStay DEF ShellInvariant, vars, shell, editor, tasks, backend
<1>. QED BY <1>2, <1>3, <1>4, <1>5 DEF ShellInvariant, EditorSound

LEMMA ShellInitIsSound ==
    ASSUME Init
    PROVE  ShellInvariant
<1>1. TypeOK
  <2>1. <<>> \in Seq(Tab) /\ <<>> \in Seq(Entry) OBVIOUS
  <2>2. [d \in Docs |-> NoProject] \in [Docs -> Projects] BY DEF Projects
  <2>3. 0 \in 0 .. MaxOpens /\ 0 \in 0 .. MaxObjects /\ 1 \in 1 .. MaxLaunches
    BY BoundsAssumption
  <2>. QED BY <2>1, <2>2, <2>3 DEF Init, TypeOK
<1>2. TasksAreSound
  BY DEF Init, TasksAreSound, UniqueTabs
<1>3. SessionsAreOwned
  <2>. DEFINE none == [n \in 1 .. opened |-> CHOOSE d : d \in Docs]
  <2>1. 1 .. opened = {} BY DEF Init
  <2>2. none \in [1 .. opened -> Docs] BY <2>1
  <2>3. Owns(none)
    BY DEF Init, Owns, OwnedTabs, RangeOf
  <2>. QED BY <2>2, <2>3 DEF SessionsAreOwned
<1>4. OnlyAcceptanceStrays /\ SavesAreOwned
  BY DEF Init, OnlyAcceptanceStrays, SavesAreOwned, AtHome, NoProject
<1>5. ObjectsAreNumbered
  BY DEF Init, ObjectsAreNumbered, NoProject, RangeOf
<1>6. StacksFit BY DEF Init, StacksFit, Fits
<1>. QED BY <1>1, <1>2, <1>3, <1>4, <1>5, <1>6 DEF ShellInvariant

-----------------------------------------------------------------------------
(* Opening. *)

LEMMA StartingAnOpenIsSound ==
    ASSUME ShellInvariant, StartReopen \/ \E d \in Docs : StartOpen(d)
    PROVE  ShellInvariant'
<1>1. PICK d \in Docs, again \in BOOLEAN :
          /\ opening' = [pc |-> "open", doc |-> d, session |-> opened + 1, restore |-> again]
          /\ again => restoring # <<>>
          /\ opened < MaxOpens
          /\ UNCHANGED <<shell, editor, saving, closing, restoring, backend, acceptance, launches>>
  <2>1. CASE StartReopen
    <3>1. restoring # <<>> /\ restoring \in Seq(Tab) BY <2>1 DEF StartReopen, ShellInvariant, TypeOK
    <3>2. Head(restoring) \in Tab BY <3>1
    <3>3. Head(restoring).doc \in Docs BY <3>2 DEF Tab
    <3>. QED BY <2>1, <3>1, <3>3 DEF StartReopen
  <2>2. CASE \E d \in Docs : StartOpen(d) BY <2>2 DEF StartOpen
  <2>. QED BY <2>1, <2>2
<1>2. opening'.pc = "open" /\ opening'.session = opened + 1 /\ opening'.restore = again
  BY <1>1
<1>3. opening' \in OpenTask
  <2>1. opened + 1 \in Sessions
    BY <1>1, TypesOfBounds DEF ShellInvariant, Sessions
  <2>. QED BY <1>1, <2>1 DEF OpenTask
<1>4. TypeOK'
  BY <1>1, <1>3 DEF ShellInvariant, TypeOK, OpenTask, shell, editor, backend, acceptance
<1>5. TasksAreSound'
  BY <1>1, <1>2 DEF ShellInvariant, TasksAreSound, shell, backend
<1>6. SessionsAreOwned'
  <2>1. PICK owner \in [1 .. opened -> Docs] : Owns(owner)
    BY DEF ShellInvariant, SessionsAreOwned
  <2>2. Owns(owner)'
    BY <1>1, <1>2, <2>1 DEF Owns, Owned, AtHome, OwnedTabs, shell, editor, acceptance
  <2>3. owner \in [1 .. opened' -> Docs] BY <1>1 DEF backend
  <2>. QED BY <2>2, <2>3 DEF SessionsAreOwned
<1>7. EditorSound'
  BY <1>1, EditorStays DEF ShellInvariant, EditorSound, backend
<1>. QED BY <1>4, <1>5, <1>6, <1>7 DEF ShellInvariant, EditorSound

LEMMA OpenFailsIsSound ==
    ASSUME ShellInvariant, OpenFails
    PROVE  ShellInvariant'
<1>1. /\ opening' = Idle /\ opening # Idle
      /\ restoring' = IF opening.restore THEN Tail(restoring) ELSE restoring
      /\ UNCHANGED <<shell, editor, saving, closing, backend, acceptance, launches>>
  <2>1. opening.pc # "idle" BY DEF OpenFails
  <2>. QED BY <2>1, TasksUnderWay DEF OpenFails, OpenReturnsNull, ShellInvariant
<1>2. opening.restore => restoring # <<>>
  BY <1>1 DEF ShellInvariant, TasksAreSound
<1>3. restoring' \in Seq(Tab)
  BY <1>1, <1>2 DEF ShellInvariant, TypeOK
<1>4. TypeOK'
  BY <1>1, <1>3 DEF ShellInvariant, TypeOK, shell, editor, backend, acceptance
<1>5. TasksAreSound'
  BY <1>1, <1>2 DEF ShellInvariant, TasksAreSound, shell, backend
<1>6. SessionsAreOwned'
  <2>1. PICK owner \in [1 .. opened -> Docs] : Owns(owner)
    BY DEF ShellInvariant, SessionsAreOwned
  <2>2. Owns(owner)'
    BY <1>1, <2>1 DEF Owns, Owned, AtHome, OwnedTabs, shell, editor, acceptance
  <2>3. owner \in [1 .. opened' -> Docs] BY <1>1 DEF backend
  <2>. QED BY <2>2, <2>3 DEF SessionsAreOwned
<1>7. EditorSound'
  BY <1>1, EditorStays DEF ShellInvariant, EditorSound, backend
<1>. QED BY <1>4, <1>5, <1>6, <1>7 DEF ShellInvariant, EditorSound

\* The session is new, and belongs to the document being opened from now on.
LEMMA OpenAnswersIsSound ==
    ASSUME ShellInvariant, OpenAnswers
    PROVE  ShellInvariant'
<1>. DEFINE n == opening.session
            d == opening.doc
            t == NewTab(Doc(n), d)
<1>1. /\ opening \in OpenTask /\ opening.pc = "open"
      /\ opened' = n /\ live' = live \cup {n}
      /\ tabs' = Append(tabs, t) /\ active' = Doc(n)
      /\ opening' = [opening EXCEPT !.pc = "state"]
      /\ UNCHANGED <<editor, saving, closing, restoring, changed, sidecar, acceptance, launches>>
  BY TasksUnderWay DEF OpenAnswers, ShellInvariant
<1>2. n \in Sessions /\ d \in Docs /\ n = opened + 1 /\ opened \in Nat /\ n \in Nat
  <2>1. opening # Idle BY <1>1, TasksUnderWay DEF ShellInvariant
  <2>. QED BY <1>1, <2>1, TypesOfBounds DEF OpenTask, ShellInvariant, TasksAreSound
<1>3. /\ opening' \in OpenTask /\ opening'.pc = "state" /\ opening'.session = n
      /\ opening'.doc = d /\ opening'.restore = opening.restore
  BY <1>1, OpenMovesOn
<1>4. t \in Tab /\ t.id = Doc(n) /\ t.doc = d
  BY <1>2 DEF NewTab, Tab, TabIds
<1>5. PICK owner \in [1 .. opened -> Docs] : Owns(owner)
  BY DEF ShellInvariant, SessionsAreOwned
<1>6. Doc(n) \notin Ids(tabs)
  <2>. SUFFICES ASSUME NEW u \in RangeOf(tabs), u.id = Doc(n) PROVE FALSE
    BY DEF Ids
  <2>1. n \in DOMAIN owner BY <1>2, <1>5 DEF Owns, OwnedTabs
  <2>. QED BY <1>2, <2>1
<1>. HIDE DEF n, d, t
<1>7. tabs \in Seq(Tab) BY DEF ShellInvariant, TypeOK
<1>8. /\ tabs' \in Seq(Tab) /\ Len(tabs') = Len(tabs) + 1
      /\ RangeOf(tabs') = RangeOf(tabs) \cup {t}
      /\ UniqueTabs(tabs')
  BY <1>1, <1>4, <1>6, <1>7, TabAppended DEF ShellInvariant, TasksAreSound
<1>9. active' \in Ids(tabs') BY <1>1, <1>4, <1>8 DEF Ids
<1>10. TypeOK'
  <2>1. opened' \in 0 .. MaxOpens BY <1>1, <1>2, TypesOfBounds DEF Sessions, ShellInvariant
  <2>2. Doc(n) \in TabIds BY <1>2 DEF TabIds
  <2>3. live' \subseteq Sessions /\ changed' \subseteq live'
    BY <1>1, <1>2 DEF ShellInvariant, TypeOK
  <2>. QED BY <1>1, <1>3, <1>8, <2>1, <2>2, <2>3 DEF ShellInvariant, TypeOK, OpenTask, editor, acceptance
<1>11. TasksAreSound'
  <2>1. Len(tabs') <= opened' BY <1>1, <1>2, <1>7, <1>8 DEF ShellInvariant, TasksAreSound
  <2>2. closing # Idle => Len(closing.seen) <= opened'
    <3>. SUFFICES ASSUME closing # Idle PROVE Len(closing.seen) <= opened'
      OBVIOUS
    <3>1. closing.seen \in Seq(Tab) BY TasksUnderWay DEF ShellInvariant, CloseTask
    <3>. QED BY <1>1, <1>2, <3>1 DEF ShellInvariant, TasksAreSound
  <2>3. opening # Idle BY <1>1, TasksUnderWay DEF ShellInvariant
  <2>. QED BY <1>1, <1>3, <1>8, <1>9, <2>1, <2>2, <2>3 DEF ShellInvariant, TasksAreSound
<1>12. SessionsAreOwned'
  <2>. DEFINE more == [k \in 1 .. n |-> IF k = n THEN d ELSE owner[k]]
  <2>1. more \in [1 .. opened' -> Docs] /\ DOMAIN more = 1 .. n /\ more[n] = d
    <3>1. \A k \in 1 .. n : k # n => k \in 1 .. opened BY <1>2
    <3>. QED BY <1>1, <1>2, <3>1 DEF d
  <2>2. \A k \in DOMAIN owner : k \in DOMAIN more /\ more[k] = owner[k]
    <3>1. \A k \in 1 .. opened : k \in 1 .. n /\ k # n BY <1>2
    <3>. QED BY <3>1
  <2>. HIDE DEF more
  <2>3. OwnedTabs(tabs', more)
    <3>1. ASSUME NEW u \in RangeOf(tabs'), NEW k \in Sessions, u.id = Doc(k)
          PROVE  k \in DOMAIN more /\ u.doc = more[k]
      <4>1. CASE u \in RangeOf(tabs)
        BY <1>5, <2>2, <3>1, <4>1 DEF Owns, OwnedTabs
      <4>2. CASE u = t
        <5>1. k = n BY <1>4, <3>1, <4>2 DEF Doc
        <5>. QED BY <1>2, <1>4, <2>1, <4>2, <5>1
      <4>. QED BY <1>8, <4>1, <4>2
    <3>. QED BY <3>1 DEF OwnedTabs
  <2>4. closing # Idle => OwnedTabs(closing.seen, more)
    BY <1>5, <2>2 DEF Owns, OwnedTabs
  <2>5. \A o : Owned(o, owner) => Owned(o, more) BY <2>2 DEF Owned, AtHome
  <2>6. PICK m : m = more OBVIOUS
  <2>7. Owns(m)'
    <3>1. opening'.session \in DOMAIN m /\ opening'.doc = m[opening'.session]
      <4>1. n \in 1 .. n BY <1>2
      <4>2. n \in DOMAIN m /\ m[n] = d BY <2>1, <2>6, <4>1
      <4>. QED BY <1>3, <4>2
    <3>2. /\ \A o \in objects' : Owned(o, m)
          /\ \A e \in RangeOf(undo') \cup RangeOf(redo') : Owned(e.object, m)
      BY <1>1, <1>5, <2>5, <2>6 DEF Owns, editor
    <3>3. accepting # Idle => accepting.session \in DOMAIN m /\ accepting.doc = m[accepting.session]
      BY <1>5, <2>2, <2>6 DEF Owns
    <3>4. \A o : Owned(o, m) => Owned(o, m)' BY <1>1 DEF Owned, AtHome, acceptance
    <3>5. opening' # Idle /\ opening'.pc # "open"
            => opening'.session \in DOMAIN m /\ opening'.doc = m[opening'.session]
      BY <3>1
    <3>6. OwnedTabs(tabs', m) /\ (closing' # Idle => OwnedTabs(closing'.seen, m))
      BY <1>1, <2>3, <2>4, <2>6
    <3>7. accepting' # Idle =>
             accepting'.session \in DOMAIN m /\ accepting'.doc = m[accepting'.session]
      BY <1>1, <3>3 DEF acceptance
    <3>. QED BY <3>2, <3>4, <3>5, <3>6, <3>7 DEF Owns
  <2>. QED BY <2>1, <2>6, <2>7 DEF SessionsAreOwned
<1>13. EditorSound'
  BY <1>1, EditorStays DEF ShellInvariant, EditorSound
<1>. QED BY <1>10, <1>11, <1>12, <1>13 DEF ShellInvariant, EditorSound

\* Two stages of one open, past the first.
SameOpen(t, u) ==
    /\ u.pc # "open" /\ t.pc # "open"
    /\ u.session = t.session /\ u.doc = t.doc /\ u.restore = t.restore

LEMMA OpenGoesOn ==
    ASSUME ShellInvariant, opening \in OpenTask, opening # Idle, opening' \in OpenTask,
           SameOpen(opening, opening'), SameTabs(tabs, tabs'),
           UNCHANGED <<active, editor, saving, closing, restoring, backend, acceptance, launches>>
    PROVE  ShellInvariant'
<1>1. tabs \in Seq(Tab) BY DEF ShellInvariant, TypeOK
<1>2. /\ tabs' \in Seq(Tab) /\ Len(tabs') = Len(tabs) /\ Ids(tabs') = Ids(tabs)
      /\ UniqueTabs(tabs')
      /\ \A owner : OwnedTabs(tabs, owner) => OwnedTabs(tabs', owner)
  BY <1>1, SameTabsAreAsGood DEF SameTabs, ShellInvariant, TasksAreSound
<1>3. TypeOK'
  BY <1>2 DEF ShellInvariant, TypeOK, OpenTask, editor, backend, acceptance
<1>4. TasksAreSound'
  <2>1. Len(tabs') <= opened BY <1>2 DEF ShellInvariant, TasksAreSound
  <2>2. Ids(tabs') = Ids(tabs) /\ UniqueTabs(tabs') BY <1>2
  <2>. QED BY <2>1, <2>2 DEF ShellInvariant, TasksAreSound, backend, SameOpen
<1>5. SessionsAreOwned'
  <2>1. PICK owner \in [1 .. opened -> Docs] : Owns(owner)
    BY DEF ShellInvariant, SessionsAreOwned
  <2>2. OwnedTabs(tabs', owner) BY <1>2, <2>1 DEF Owns
  <2>3. Owns(owner)' BY <2>1, <2>2 DEF Owns, Owned, AtHome, editor, acceptance, SameOpen
  <2>4. owner \in [1 .. opened' -> Docs] BY DEF backend
  <2>. QED BY <2>3, <2>4 DEF SessionsAreOwned
<1>6. EditorSound' BY EditorStays DEF ShellInvariant, EditorSound, backend
<1>. QED BY <1>3, <1>4, <1>5, <1>6 DEF ShellInvariant, EditorSound

LEMMA StateAnswersIsSound ==
    ASSUME ShellInvariant, StateAnswers
    PROVE  ShellInvariant'
<1>1. /\ opening \in OpenTask /\ opening # Idle /\ opening.pc = "state"
      /\ tabs' = SyncTab(tabs, opening.session)
      /\ opening' = [opening EXCEPT !.pc = "project"]
      /\ UNCHANGED <<active, editor, saving, closing, restoring, backend, acceptance, launches>>
  BY TasksUnderWay DEF StateAnswers, ShellInvariant
<1>2. opening' \in OpenTask /\ SameOpen(opening, opening')
  BY <1>1, OpenMovesOn DEF SameOpen
<1>3. tabs \in Seq(Tab) BY DEF ShellInvariant, TypeOK
<1>4. SameTabs(tabs, tabs') BY <1>1, <1>3, FlagsOnly
<1>. QED BY <1>1, <1>2, <1>4, OpenGoesOn

LEMMA StateFailsIsSound ==
    ASSUME ShellInvariant, StateFails
    PROVE  ShellInvariant'
<1>1. /\ opening \in OpenTask /\ opening # Idle /\ opening.pc = "state"
      /\ tabs' = ErrorTab(tabs, opening.session)
      /\ opening' = [opening EXCEPT !.pc = "failed"]
      /\ UNCHANGED <<active, editor, saving, closing, restoring, backend, acceptance, launches>>
  BY TasksUnderWay DEF StateFails, ShellInvariant
<1>2. opening' \in OpenTask /\ SameOpen(opening, opening')
  BY <1>1, OpenMovesOn DEF SameOpen
<1>3. tabs \in Seq(Tab) BY DEF ShellInvariant, TypeOK
<1>4. SameTabs(tabs, tabs') BY <1>1, <1>3, FlagsOnly
<1>. QED BY <1>1, <1>2, <1>4, OpenGoesOn

LEMMA FailedSessionClosedIsSound ==
    ASSUME ShellInvariant, FailedSessionClosed
    PROVE  ShellInvariant'
<1>1. /\ opening' = Idle /\ opening # Idle
      /\ restoring' = IF opening.restore THEN Tail(restoring) ELSE restoring
      /\ UNCHANGED <<shell, editor, saving, closing, sidecar, opened, acceptance, launches>>
  <2>1. opening.pc # "idle" BY DEF FailedSessionClosed
  <2>. QED BY <2>1, TasksUnderWay DEF FailedSessionClosed, OpenReturnsNull, ShellInvariant
<1>0. live' \subseteq live /\ changed' \subseteq live'
  BY DEF FailedSessionClosed, ShellInvariant, TypeOK
<1>2. opening.restore => restoring # <<>>
  BY <1>1 DEF ShellInvariant, TasksAreSound
<1>3. restoring' \in Seq(Tab)
  BY <1>1, <1>2 DEF ShellInvariant, TypeOK
<1>4. TypeOK'
  BY <1>0, <1>1, <1>3 DEF ShellInvariant, TypeOK, shell, editor, acceptance
<1>5. TasksAreSound'
  BY <1>1, <1>2 DEF ShellInvariant, TasksAreSound, shell
<1>6. SessionsAreOwned'
  <2>1. PICK owner \in [1 .. opened -> Docs] : Owns(owner)
    BY DEF ShellInvariant, SessionsAreOwned
  <2>2. Owns(owner)'
    BY <1>1, <2>1 DEF Owns, Owned, AtHome, OwnedTabs, shell, editor, acceptance
  <2>3. owner \in [1 .. opened' -> Docs] BY <1>1
  <2>. QED BY <2>2, <2>3 DEF SessionsAreOwned
<1>7. EditorSound'
  BY <1>1, EditorStays DEF ShellInvariant, EditorSound
<1>. QED BY <1>4, <1>5, <1>6, <1>7 DEF ShellInvariant, EditorSound

LEMMA OverlaysOfAProject ==
    ASSUME TypeOK, NEW d \in Docs
    PROVE  sidecar[d].ids \subseteq ObjectIds
<1>1. sidecar[d] \in Projects BY DEF TypeOK
<1>2. NoProject.ids = {} BY DEF NoProject
<1>3. \A p \in [stored : {TRUE}, ids : SUBSET ObjectIds] : p.ids \subseteq ObjectIds
  OBVIOUS
<1>. QED BY <1>1, <1>2, <1>3 DEF Projects

\* The overlays of a project are those of the document that is opened.
LEMMA ProjectAnswersIsSound ==
    ASSUME ShellInvariant, ProjectAnswers
    PROVE  ShellInvariant'
<1>1. /\ opening \in OpenTask /\ opening # Idle /\ opening.pc = "project"
      /\ objects' = Loaded /\ undo' = <<>> /\ redo' = <<>>
      /\ opening' = [opening EXCEPT !.pc = "record"]
      /\ UNCHANGED <<shell, created, saving, closing, restoring, backend, acceptance, launches>>
  BY TasksUnderWay DEF ProjectAnswers, ShellInvariant
<1>2. /\ opening' \in OpenTask /\ opening'.pc = "record"
      /\ opening'.session = opening.session
      /\ opening'.doc = opening.doc /\ opening'.restore = opening.restore
  BY <1>1, OpenMovesOn
<1>3. opening.session \in Sessions /\ opening.doc \in Docs BY <1>1 DEF OpenTask
<1>4. sidecar[opening.doc].ids \subseteq ObjectIds
  BY <1>3, OverlaysOfAProject DEF ShellInvariant
<1>5. \A o \in objects' : /\ o \in Object /\ o.session = opening.session
                          /\ o.id \in sidecar[opening.doc].ids
  BY <1>1, <1>3, <1>4 DEF Loaded, Object
<1>6. TypeOK'
  <2>1. objects' \subseteq Object /\ undo' \in Seq(Entry) /\ redo' \in Seq(Entry)
    BY <1>1, <1>5
  <2>. QED BY <1>1, <1>2, <2>1 DEF ShellInvariant, TypeOK, OpenTask, shell, backend, acceptance
<1>7. TasksAreSound'
  BY <1>1, <1>2 DEF ShellInvariant, TasksAreSound, shell, backend
<1>8. RangeOf(undo') = {} /\ RangeOf(redo') = {} BY <1>1 DEF RangeOf
<1>9. SessionsAreOwned'
  <2>1. PICK owner \in [1 .. opened -> Docs] : Owns(owner)
    BY DEF ShellInvariant, SessionsAreOwned
  <2>2. opening.session \in DOMAIN owner /\ opening.doc = owner[opening.session]
    BY <1>1, <2>1 DEF Owns
  <2>3. \A o \in objects' : Owned(o, owner)
    BY <1>3, <1>5, <2>2 DEF Owned, AtHome, ShellInvariant, OnlyAcceptanceStrays
  <2>4. OwnedTabs(tabs', owner) /\ (closing' # Idle => OwnedTabs(closing'.seen, owner))
    BY <1>1, <2>1 DEF Owns, shell
  <2>5. Owns(owner)'
    <3>1. accepting' # Idle =>
             accepting'.session \in DOMAIN owner /\ accepting'.doc = owner[accepting'.session]
      BY <1>1, <2>1 DEF Owns, acceptance
    <3>2. \A o \in objects' : Owned(o, owner)' BY <1>1, <2>3 DEF Owned, AtHome, acceptance
    <3>3. opening'.session \in DOMAIN owner /\ opening'.doc = owner[opening'.session]
      BY <1>2, <2>2
    <3>. QED BY <1>8, <2>4, <3>1, <3>2, <3>3 DEF Owns
  <2>6. owner \in [1 .. opened' -> Docs] BY <1>1 DEF backend
  <2>. QED BY <2>5, <2>6 DEF SessionsAreOwned
<1>10. SavesAreOwned' /\ OnlyAcceptanceStrays'
  BY <1>1 DEF ShellInvariant, SavesAreOwned, AtHome, OnlyAcceptanceStrays, backend, acceptance
<1>11. ObjectsAreNumbered'
  <2>1. \A o \in objects' : o.id[2] <= created
    BY <1>3, <1>5 DEF ShellInvariant, ObjectsAreNumbered
  <2>2. \A o, x \in objects' : o.id = x.id => o = x BY <1>1, <1>5 DEF Loaded
  <2>. QED BY <1>1, <1>8, <2>1, <2>2 DEF ShellInvariant, ObjectsAreNumbered, backend, acceptance
<1>12. StacksFit' BY <1>1 DEF StacksFit, Fits
<1>. QED BY <1>6, <1>7, <1>9, <1>10, <1>11, <1>12 DEF ShellInvariant

LEMMA OpenEndsIsSound ==
    ASSUME ShellInvariant, OpenEnds
    PROVE  ShellInvariant'
<1>1. /\ opening # Idle /\ opening' = Idle
      /\ UNCHANGED <<editor, saving, closing, backend, acceptance, launches>>
  <2>1. opening.pc # "idle" BY DEF OpenEnds
  <2>. QED BY <2>1, TasksUnderWay DEF OpenEnds, OpenReturns, ShellInvariant
<1>2. EditorSound'
  BY <1>1, EditorStays DEF ShellInvariant, EditorSound, backend
<1>3. PICK owner \in [1 .. opened -> Docs] : Owns(owner)
  BY DEF ShellInvariant, SessionsAreOwned
<1>4. owner \in [1 .. opened' -> Docs] BY <1>1 DEF backend
<1>5. CASE opening.restore
  <2>. DEFINE id == Head(restoring).id
  <2>1. restoring' = Tail(restoring) /\ CloseTab(TabsAtMount, NoTab, id)
    BY <1>5 DEF OpenEnds, OpenReturns
  <2>2. restoring # <<>> /\ restoring \in Seq(Tab)
    BY <1>1, <1>5 DEF ShellInvariant, TasksAreSound, TypeOK
  <2>3. restoring' \in Seq(Tab) /\ Head(restoring) \in Tab BY <2>1, <2>2
  <2>4. id \in TabIds BY <2>3 DEF Tab
  <2>5. NoTab # id BY <2>4 DEF NoTab, TabIds, Doc, Pending
  <2>. HIDE DEF id
  <2>6. active' = active BY <2>1, <2>5 DEF CloseTab
  <2>7. tabs' = <<>>
    <3>1. <<>> \in Seq(Tab) OBVIOUS
    <3>2. tabs' = WithoutTab(<<>>, id) BY <2>1 DEF CloseTab, TabsAtMount
    <3>3. tabs' \in Seq(Tab) /\ Len(tabs') <= Len(<<>>) BY <3>1, <3>2, TabIsTakenOut
    <3>. QED BY <3>3
  <2>8. tabs' \in Seq(Tab) /\ UniqueTabs(tabs') /\ Len(tabs') = 0 /\ RangeOf(tabs') = {}
    BY <2>7 DEF UniqueTabs, RangeOf
  <2>9. TypeOK'
    BY <1>1, <2>3, <2>6, <2>8 DEF ShellInvariant, TypeOK, editor, backend, acceptance
  <2>10. TasksAreSound'
    <3>1. launches # 1 BY <2>2 DEF ShellInvariant, TasksAreSound
    <3>2. Len(tabs') <= opened BY <2>8, TypesOfBounds DEF ShellInvariant
    <3>. QED BY <1>1, <2>8, <3>1, <3>2 DEF ShellInvariant, TasksAreSound, backend
  <2>11. Owns(owner)'
    BY <1>1, <1>3, <2>8 DEF Owns, Owned, AtHome, OwnedTabs, editor, acceptance
  <2>. QED BY <1>2, <1>4, <2>9, <2>10, <2>11 DEF ShellInvariant, EditorSound, SessionsAreOwned
<1>6. CASE ~opening.restore
  <2>1. UNCHANGED <<restoring, shell>> BY <1>6 DEF OpenEnds, OpenReturns
  <2>2. TypeOK' BY <1>1, <2>1 DEF ShellInvariant, TypeOK, shell, editor, backend, acceptance
  <2>3. TasksAreSound' BY <1>1, <2>1 DEF ShellInvariant, TasksAreSound, shell, backend
  <2>4. Owns(owner)' BY <1>1, <1>3, <2>1 DEF Owns, Owned, AtHome, OwnedTabs, shell, editor, acceptance
  <2>. QED BY <1>2, <1>4, <2>2, <2>3, <2>4 DEF ShellInvariant, EditorSound, SessionsAreOwned
<1>. QED BY <1>5, <1>6

-----------------------------------------------------------------------------
(* What a step may change of the overlays and of their saving. *)

\* Flags of tabs and sessions, the save and the sidecars may change.
LEMMA OverlaysStay ==
    ASSUME ShellInvariant, SameTabs(tabs, tabs'),
           UNCHANGED <<active, editor, opening, closing, restoring, live, opened, acceptance, launches>>,
           changed' \subseteq live, saving' = Idle \/ saving' \in SaveTask,
           sidecar' \in [Docs -> Projects],
           SavesAreOwned', OnlyAcceptanceStrays',
           \A d \in Docs : \A i \in sidecar'[d].ids : i[2] <= created,
           saving' # Idle => \A i \in saving'.ids : i[2] <= created
    PROVE  ShellInvariant'
<1>1. /\ TasksAreSound' /\ tabs' \in Seq(Tab)
      /\ \A owner : OwnedTabs(tabs, owner) => OwnedTabs(tabs', owner)
  BY TabsStaySound
<1>2. TypeOK' BY <1>1 DEF ShellInvariant, TypeOK, SaveTask, editor, acceptance
<1>3. SessionsAreOwned' BY <1>1, OwnersStay DEF ShellInvariant
<1>4. ObjectsAreNumbered' BY DEF ShellInvariant, ObjectsAreNumbered, editor, acceptance
<1>5. StacksFit' BY DEF ShellInvariant, StacksFit, Fits, Here, editor
<1>. QED BY <1>1, <1>2, <1>3, <1>4, <1>5 DEF ShellInvariant

LEMMA SavesAsBefore ==
    ASSUME ShellInvariant
    PROVE  /\ sidecar \in [Docs -> Projects]
           /\ saving = Idle \/ saving \in SaveTask
           /\ \A d \in Docs : \A i \in sidecar[d].ids : i[2] <= created
           /\ saving # Idle => \A i \in saving.ids : i[2] <= created
           /\ tabs \in Seq(Tab) /\ changed \subseteq live
           /\ SameTabs(tabs, tabs)
           /\ SavesAreOwned /\ OnlyAcceptanceStrays
<1>1. tabs \in Seq(Tab) BY DEF ShellInvariant, TypeOK
<1>2. SameTabs(tabs, tabs) BY <1>1, FlagsOnly
<1>3. saving = Idle \/ saving \in SaveTask BY TasksUnderWay DEF ShellInvariant
<1>. QED BY <1>1, <1>2, <1>3 DEF ShellInvariant, TypeOK, ObjectsAreNumbered

\* What the editor holds after a step is owned and numbered, and the stacks
\* fit it.
Changed(owner) ==
    /\ objects' \subseteq Object /\ undo' \in Seq(Entry) /\ redo' \in Seq(Entry)
    /\ \A x \in objects' : Owned(x, owner) /\ x.id[2] <= created'
    /\ \A x, y \in objects' : x.id = y.id => x = y
    /\ \A e \in RangeOf(undo') \cup RangeOf(redo') :
          Owned(e.object, owner) /\ e.object.id[2] <= created'
    /\ StacksFit'

\* The overlays, the save and the acceptance may change; the tabs keep all
\* but flags.
LEMMA OverlaysChange ==
    ASSUME ShellInvariant, SameTabs(tabs, tabs'),
           UNCHANGED <<active, opening, closing, restoring, backend, launches>>,
           created' \in 0 .. MaxObjects, created <= created',
           NEW owner \in [1 .. opened -> Docs], Owns(owner), Changed(owner),
           saving' = Idle \/ saving' \in SaveTask,
           saving' # Idle => \A i \in saving'.ids : i[2] <= created',
           accepting' = Idle \/ accepting' \in AcceptTask,
           accepting' # Idle => /\ accepting'.session \in DOMAIN owner
                                /\ accepting'.doc = owner[accepting'.session]
                                /\ \A i \in accepting'.ids : i[2] <= created',
           strayed \subseteq strayed', strayed' \subseteq Docs,
           SavesAreOwned'
    PROVE  ShellInvariant'
<1>1. UNCHANGED <<live, changed, sidecar, opened>> BY DEF backend
<1>2. /\ TasksAreSound' /\ tabs' \in Seq(Tab)
      /\ \A other : OwnedTabs(tabs, other) => OwnedTabs(tabs', other)
  BY <1>1, TabsStaySound
<1>3. TypeOK'
  BY <1>1, <1>2 DEF ShellInvariant, TypeOK, SaveTask, AcceptTask, Changed
<1>4. SessionsAreOwned'
  <2>1. OwnedTabs(tabs', owner) BY <1>2 DEF Owns
  <2>2. \A o : Owned(o, owner) => Owned(o, owner)' BY DEF Owned, AtHome
  <2>3. Owns(owner)' BY <1>1, <2>1, <2>2 DEF Owns, Changed
  <2>. QED BY <1>1, <2>3 DEF SessionsAreOwned
<1>5. OnlyAcceptanceStrays' BY <1>1 DEF ShellInvariant, OnlyAcceptanceStrays
<1>6. ObjectsAreNumbered'
  <2>1. created \in Nat /\ created' \in Nat BY TypesOfBounds DEF ShellInvariant
  <2>2. ASSUME NEW d \in Docs, NEW i \in sidecar[d].ids PROVE i[2] <= created'
    <3>1. i \in ObjectIds BY <2>2, OverlaysOfAProject DEF ShellInvariant
    <3>2. i[2] \in Nat /\ i[2] <= created
      BY <2>2, <3>1, TypesOfBounds DEF ShellInvariant, ObjectsAreNumbered, ObjectIds
    <3>. QED BY <2>1, <3>2
  <2>. QED BY <1>1, <2>2 DEF ObjectsAreNumbered, Changed
<1>7. StacksFit' BY DEF Changed
<1>. QED BY <1>2, <1>3, <1>4, <1>5, <1>6, <1>7 DEF ShellInvariant

LEMMA NothingChanged ==
    ASSUME ShellInvariant, UNCHANGED <<objects, undo, redo>>,
           created' \in 0 .. MaxObjects, created <= created', NEW owner, Owns(owner)
    PROVE  Changed(owner)
<1>1. created \in Nat /\ created' \in Nat BY TypesOfBounds DEF ShellInvariant
<1>2. ASSUME NEW o \in Object, o.id[2] <= created PROVE o.id[2] <= created'
  <2>1. o.id[2] \in Nat BY TypesOfBounds DEF ShellInvariant, Object, ObjectIds
  <2>. QED BY <1>1, <1>2, <2>1
<1>3. \A x \in objects : x \in Object BY DEF ShellInvariant, TypeOK
<1>4. \A e \in RangeOf(undo) \cup RangeOf(redo) : e.object \in Object
  <2>1. \A e \in RangeOf(undo) \cup RangeOf(redo) : e \in Entry
    BY DEF ShellInvariant, TypeOK, RangeOf
  <2>. QED BY <2>1 DEF Entry
<1>5. StacksFit' BY DEF ShellInvariant, StacksFit, Fits, Here
<1>6. \A x \in objects' : Owned(x, owner) /\ x.id[2] <= created'
  BY <1>2, <1>3 DEF Owns, ShellInvariant, ObjectsAreNumbered
<1>7. \A e \in RangeOf(undo') \cup RangeOf(redo') :
         Owned(e.object, owner) /\ e.object.id[2] <= created'
  BY <1>2, <1>4 DEF Owns, ShellInvariant, ObjectsAreNumbered
<1>. QED BY <1>5, <1>6, <1>7 DEF Changed, ShellInvariant, TypeOK, ObjectsAreNumbered

\* The acceptance under way is of a known document.
AcceptingAsBefore(owner) ==
    /\ accepting = Idle \/ accepting \in AcceptTask
    /\ accepting # Idle => /\ accepting.session \in DOMAIN owner
                           /\ accepting.doc = owner[accepting.session]
                           /\ \A i \in accepting.ids : i[2] <= created

LEMMA AcceptanceAsBefore ==
    ASSUME ShellInvariant, NEW owner, Owns(owner)
    PROVE  AcceptingAsBefore(owner)
BY TasksUnderWay DEF AcceptingAsBefore, ShellInvariant, Owns, ObjectsAreNumbered

\* A step that is about one object: the others, and the entries about them,
\* were there before.
ChangedBy(o) ==
    /\ undo' \in Seq(Entry) /\ redo' \in Seq(Entry)
    /\ \A x \in objects' : x \in objects \/ x = o
    /\ \A x, y \in objects' : x.id = y.id => x = y
    /\ \A e \in RangeOf(undo') \cup RangeOf(redo') :
          e \in RangeOf(undo) \cup RangeOf(redo) \/ e.object = o
    /\ StacksFit'

LEMMA ChangeIsSound ==
    ASSUME ShellInvariant, NEW o \in Object, ChangedBy(o), o.id[2] <= created',
           created' \in 0 .. MaxObjects, created <= created',
           NEW owner, Owns(owner), Owned(o, owner)
    PROVE  Changed(owner)
<1>1. created \in Nat /\ created' \in Nat BY TypesOfBounds DEF ShellInvariant
<1>2. ASSUME NEW x \in Object, x.id[2] <= created PROVE x.id[2] <= created'
  <2>1. x.id[2] \in Nat BY TypesOfBounds DEF ShellInvariant, Object, ObjectIds
  <2>. QED BY <1>1, <1>2, <2>1
<1>3. \A x \in objects : x \in Object BY DEF ShellInvariant, TypeOK
<1>4. \A e \in RangeOf(undo) \cup RangeOf(redo) : e.object \in Object
  <2>1. \A e \in RangeOf(undo) \cup RangeOf(redo) : e \in Entry
    BY DEF ShellInvariant, TypeOK, RangeOf
  <2>. QED BY <2>1 DEF Entry
<1>5. objects' \subseteq Object BY <1>3 DEF ChangedBy
<1>6. \A x \in objects' : Owned(x, owner) /\ x.id[2] <= created'
  BY <1>2, <1>3 DEF Owns, ShellInvariant, ObjectsAreNumbered, ChangedBy
<1>7. \A e \in RangeOf(undo') \cup RangeOf(redo') :
         Owned(e.object, owner) /\ e.object.id[2] <= created'
  BY <1>2, <1>4 DEF Owns, ShellInvariant, ObjectsAreNumbered, ChangedBy
<1>. QED BY <1>5, <1>6, <1>7 DEF Changed, ChangedBy

-----------------------------------------------------------------------------
(* The ways an object comes and goes. *)

\* What is pushed on the undo stack empties the other.
LEMMA EntryIsPushed ==
    ASSUME ShellInvariant, NEW op \in {"add", "delete"}, NEW o \in Object,
           undo' = Append(undo, [op |-> op, object |-> o]), redo' = <<>>,
           o.id[2] # 0 => ((op = "add") <=> (o.id \notin Here)),
           Toggled(o.id, Here, Here'),
           \A x \in objects' : x \in objects \/ x = o,
           \A x, y \in objects' : x.id = y.id => x = y
    PROVE  ChangedBy(o)
<1>. DEFINE e == [op |-> op, object |-> o]
<1>1. e \in Entry /\ e.op = op /\ e.object = o BY DEF Entry
<1>2. undo' = Append(undo, e) OBVIOUS
<1>. HIDE DEF e
<1>3. undo \in Seq(Entry) /\ Fits(undo, "add", Here)
  BY DEF ShellInvariant, TypeOK, StacksFit
<1>4. /\ undo' \in Seq(Entry) /\ RangeOf(undo') = RangeOf(undo) \cup {e}
      /\ Fits(undo', "add", Here')
  <2>1. e.object.id[2] # 0 => ((e.op = "add") <=> (e.object.id \notin Here)) BY <1>1
  <2>2. Toggled(e.object.id, Here, Here') BY <1>1
  <2>3. "add" \in {"add", "delete"} OBVIOUS
  <2>4. /\ Append(undo, e) \in Seq(Entry)
        /\ RangeOf(Append(undo, e)) = RangeOf(undo) \cup {e}
        /\ Fits(Append(undo, e), "add", Here')
    BY <1>1, <1>3, <2>1, <2>2, <2>3, EntryPushed
  <2>. QED BY <1>2, <2>4
<1>5. redo' \in Seq(Entry) /\ RangeOf(redo') = {} /\ Fits(redo', "delete", Here')
  BY DEF RangeOf, Fits
<1>6. StacksFit' BY <1>4, <1>5 DEF StacksFit
<1>. QED BY <1>1, <1>4, <1>5, <1>6 DEF ChangedBy

LEMMA ObjectIsAdded ==
    ASSUME ShellInvariant, NEW o \in Object, objects' = Put(o), PushUndo("add", o),
           o.id[2] # 0 => o.id \notin Here
    PROVE  ChangedBy(o)
<1>1. Here' = Here \cup {o.id} BY DEF Here, Put
<1>2. Toggled(o.id, Here, Here') BY <1>1 DEF Toggled
<1>3. /\ \A x \in objects' : x \in objects \/ x = o
      /\ \A x, y \in objects' : x.id = y.id => x = y
  BY DEF Put, ShellInvariant, ObjectsAreNumbered
<1>4. "add" \in {"add", "delete"} /\ (o.id[2] # 0 => (("add" = "add") <=> (o.id \notin Here)))
  OBVIOUS
<1>. QED BY <1>2, <1>3, <1>4, EntryIsPushed DEF PushUndo

LEMMA ObjectIsDeleted ==
    ASSUME ShellInvariant, NEW o \in objects, objects' = objects \ {o},
           PushUndo("delete", o)
    PROVE  ChangedBy(o)
<1>1. o \in Object BY DEF ShellInvariant, TypeOK
<1>2. o.id \in Here BY DEF Here
<1>3. Here' = Here \ {o.id} BY DEF Here, ShellInvariant, ObjectsAreNumbered
<1>4. Toggled(o.id, Here, Here') BY <1>2, <1>3 DEF Toggled
<1>5. /\ \A x \in objects' : x \in objects \/ x = o
      /\ \A x, y \in objects' : x.id = y.id => x = y
  BY DEF ShellInvariant, ObjectsAreNumbered
<1>6. "delete" \in {"add", "delete"} /\ (("delete" = "add") <=> (o.id \notin Here)) BY <1>2
<1>. QED BY <1>1, <1>4, <1>5, <1>6, EntryIsPushed DEF PushUndo

\* Adding and deleting leaves two entries.
LEMMA ObjectIsAddedInVain ==
    ASSUME ShellInvariant, NEW o \in Object, o.id[2] # 0 => o.id \notin Here,
           objects' = Drop(o), redo' = <<>>,
           undo' = undo \o <<[op |-> "add", object |-> o], [op |-> "delete", object |-> o]>>
    PROVE  ChangedBy(o)
<1>. DEFINE a == [op |-> "add", object |-> o]
            d == [op |-> "delete", object |-> o]
            with == Here \cup {o.id}
            s == Append(undo, a)
<1>1. /\ a \in Entry /\ a.op = "add" /\ a.object = o
      /\ d \in Entry /\ d.op = "delete" /\ d.object = o
  BY DEF Entry
<1>2. undo \in Seq(Entry) /\ Fits(undo, "add", Here)
  BY DEF ShellInvariant, TypeOK, StacksFit
<1>3. undo' = Append(s, d)
  <2>1. \A p, q : undo \o <<p, q>> = Append(Append(undo, p), q) BY <1>2
  <2>2. undo' = undo \o <<a, d>> OBVIOUS
  <2>. HIDE DEF a, d
  <2>. QED BY <2>1, <2>2
<1>. HIDE DEF a, d
<1>4. Here' = Here \ {o.id} BY DEF Here, Drop
<1>5. Toggled(o.id, Here, with) /\ Toggled(o.id, with, Here') /\ o.id \in with
  BY <1>4 DEF Toggled
<1>6. "add" \in {"add", "delete"} OBVIOUS
<1>. HIDE DEF with
<1>7. s \in Seq(Entry) /\ RangeOf(s) = RangeOf(undo) \cup {a} /\ Fits(s, "add", with)
  <2>1. a.object.id[2] # 0 => ((a.op = "add") <=> (a.object.id \notin Here)) BY <1>1
  <2>2. Toggled(a.object.id, Here, with) BY <1>1, <1>5
  <2>3. a \in Entry BY <1>1
  <2>4. /\ Append(undo, a) \in Seq(Entry)
        /\ RangeOf(Append(undo, a)) = RangeOf(undo) \cup {a}
        /\ Fits(Append(undo, a), "add", with)
    BY <1>2, <1>6, <2>1, <2>2, <2>3, EntryPushed
  <2>. QED BY <2>4
<1>. HIDE DEF s
<1>8. /\ undo' \in Seq(Entry) /\ RangeOf(undo') = RangeOf(s) \cup {d}
      /\ Fits(undo', "add", Here')
  <2>1. d.object.id[2] # 0 => ((d.op = "add") <=> (d.object.id \notin with)) BY <1>1, <1>5
  <2>2. Toggled(d.object.id, with, Here') BY <1>1, <1>5
  <2>3. d \in Entry BY <1>1
  <2>4. s \in Seq(Entry) /\ Fits(s, "add", with) BY <1>7
  <2>5. /\ Append(s, d) \in Seq(Entry)
        /\ RangeOf(Append(s, d)) = RangeOf(s) \cup {d}
        /\ Fits(Append(s, d), "add", Here')
    BY <1>6, <2>1, <2>2, <2>3, <2>4, EntryPushed
  <2>. QED BY <1>3, <2>5
<1>9. redo' \in Seq(Entry) /\ RangeOf(redo') = {} /\ Fits(redo', "delete", Here')
  BY DEF RangeOf, Fits
<1>10. StacksFit' BY <1>8, <1>9 DEF StacksFit
<1>11. /\ \A x \in objects' : x \in objects \/ x = o
       /\ \A x, y \in objects' : x.id = y.id => x = y
  BY DEF Drop, ShellInvariant, ObjectsAreNumbered
<1>12. \A e \in RangeOf(undo') \cup RangeOf(redo') :
          e \in RangeOf(undo) \cup RangeOf(redo) \/ e.object = o
  BY <1>1, <1>7, <1>8, <1>9
<1>. QED BY <1>8, <1>9, <1>10, <1>11, <1>12 DEF ChangedBy

\* The top entry of one stack is applied and goes to the other.
LEMMA EntryMoves ==
    ASSUME ShellInvariant, NEW s \in Seq(Entry), NEW t \in Seq(Entry), s # <<>>,
           NEW a \in {"add", "delete"}, NEW b \in {"add", "delete"}, a # b,
           Fits(s, a, Here), Fits(t, b, Here), NEW e, e = Top(s),
           objects' = IF e.op = a THEN Drop(e.object) ELSE Put(e.object)
    PROVE  /\ e \in Entry /\ e \in RangeOf(s)
           /\ SubSeq(s, 1, Len(s) - 1) \in Seq(Entry)
           /\ RangeOf(SubSeq(s, 1, Len(s) - 1)) \subseteq RangeOf(s)
           /\ Fits(SubSeq(s, 1, Len(s) - 1), a, Here')
           /\ Append(t, e) \in Seq(Entry) /\ RangeOf(Append(t, e)) = RangeOf(t) \cup {e}
           /\ Fits(Append(t, e), b, Here')
           /\ \A x \in objects' : x \in objects \/ x = e.object
           /\ \A x, y \in objects' : x.id = y.id => x = y
<1>. DEFINE i == e.object.id
            other == (Here \ {i}) \cup ({i} \ Here)
            f == SubSeq(s, 1, Len(s) - 1)
<1>1. e \in Entry /\ (i[2] # 0 => (e.op = a <=> i \in Here))
  <2>1. Toggled(Top(s).object.id, Here, other) BY DEF Toggled
  <2>. HIDE DEF other
  <2>2. /\ Top(s) \in Entry
        /\ Top(s).object.id[2] # 0 => ((Top(s).op = a) <=> (Top(s).object.id \in Here))
    BY <2>1, EntryTaken
  <2>. QED BY <2>2
<1>2. Toggled(i, Here, Here')
  <2>1. CASE e.op = a
    <3>1. objects' = {x \in objects : x.id # i} BY <2>1 DEF Drop
    <3>2. Here' = Here \ {i} BY <3>1 DEF Here
    <3>. QED BY <1>1, <2>1, <3>2 DEF Toggled
  <2>2. CASE e.op # a
    <3>1. objects' = {x \in objects : x.id # i} \cup {e.object} BY <2>2 DEF Put
    <3>2. Here' = Here \cup {i} BY <3>1 DEF Here
    <3>. QED BY <1>1, <2>2, <3>2 DEF Toggled
  <2>. QED BY <2>1, <2>2
<1>. HIDE DEF i
<1>3. /\ e \in RangeOf(s) /\ f \in Seq(Entry) /\ RangeOf(f) \subseteq RangeOf(s)
      /\ Fits(f, a, Here')
  <2>1. Toggled(Top(s).object.id, Here, Here') BY <1>2 DEF i
  <2>2. /\ Top(s) \in RangeOf(s) /\ SubSeq(s, 1, Len(s) - 1) \in Seq(Entry)
        /\ RangeOf(SubSeq(s, 1, Len(s) - 1)) \subseteq RangeOf(s)
        /\ Fits(SubSeq(s, 1, Len(s) - 1), a, Here')
    BY <2>1, EntryTaken
  <2>. QED BY <2>2
<1>4. i[2] # 0 => ((e.op = b) <=> (i \notin Here))
  <2>1. e.op \in {"add", "delete"} BY <1>1 DEF Entry
  <2>2. (e.op = b) <=> ~(e.op = a) BY <2>1
  <2>. QED BY <1>1, <2>2
<1>5. /\ Append(t, e) \in Seq(Entry) /\ RangeOf(Append(t, e)) = RangeOf(t) \cup {e}
      /\ Fits(Append(t, e), b, Here')
  <2>1. e \in Entry BY <1>1
  <2>2. e.object.id[2] # 0 => ((e.op = b) <=> (e.object.id \notin Here)) BY <1>4 DEF i
  <2>3. Toggled(e.object.id, Here, Here') BY <1>2 DEF i
  <2>. HIDE DEF f, other
  <2>4. Fits(Append(t, e), b, Here') BY <2>1, <2>2, <2>3, EntryPushed
  <2>. QED BY <2>1, <2>4, TabAppended
<1>6. /\ \A x \in objects' : x \in objects \/ x = e.object
      /\ \A x, y \in objects' : x.id = y.id => x = y
  BY DEF Drop, Put, ShellInvariant, ObjectsAreNumbered
<1>. QED BY <1>1, <1>3, <1>5, <1>6

LEMMA UndoChanges ==
    ASSUME ShellInvariant, undo # <<>>, NEW e, e = Top(undo),
           objects' = IF e.op = "add" THEN Drop(e.object) ELSE Put(e.object),
           redo' = Append(redo, e), undo' = SubSeq(undo, 1, Len(undo) - 1)
    PROVE  e \in RangeOf(undo) /\ e.object \in Object /\ ChangedBy(e.object)
<1>1. /\ undo \in Seq(Entry) /\ redo \in Seq(Entry)
      /\ Fits(undo, "add", Here) /\ Fits(redo, "delete", Here)
      /\ "add" \in {"add", "delete"} /\ "delete" \in {"add", "delete"} /\ "add" # "delete"
  BY DEF ShellInvariant, TypeOK, StacksFit
<1>2. /\ e \in Entry /\ e \in RangeOf(undo)
      /\ undo' \in Seq(Entry) /\ RangeOf(undo') \subseteq RangeOf(undo)
      /\ Fits(undo', "add", Here')
      /\ redo' \in Seq(Entry) /\ RangeOf(redo') = RangeOf(redo) \cup {e}
      /\ Fits(redo', "delete", Here')
      /\ \A x \in objects' : x \in objects \/ x = e.object
      /\ \A x, y \in objects' : x.id = y.id => x = y
  BY <1>1, EntryMoves
<1>3. StacksFit' BY <1>2 DEF StacksFit
<1>. QED BY <1>2, <1>3 DEF ChangedBy, Entry

LEMMA RedoChanges ==
    ASSUME ShellInvariant, redo # <<>>, NEW e, e = Top(redo),
           objects' = IF e.op = "add" THEN Put(e.object) ELSE Drop(e.object),
           undo' = Append(undo, e), redo' = SubSeq(redo, 1, Len(redo) - 1)
    PROVE  e \in RangeOf(redo) /\ e.object \in Object /\ ChangedBy(e.object)
<1>1. /\ undo \in Seq(Entry) /\ redo \in Seq(Entry)
      /\ Fits(undo, "add", Here) /\ Fits(redo, "delete", Here)
      /\ "add" \in {"add", "delete"} /\ "delete" \in {"add", "delete"} /\ "delete" # "add"
  BY DEF ShellInvariant, TypeOK, StacksFit
<1>2. e.op \in {"add", "delete"}
  <2>1. Len(redo) \in DOMAIN redo BY <1>1
  <2>2. e \in Entry BY <1>1, <2>1 DEF Top
  <2>. QED BY <2>2 DEF Entry
<1>3. objects' = IF e.op = "delete" THEN Drop(e.object) ELSE Put(e.object)
  BY <1>2
<1>4. /\ e \in Entry /\ e \in RangeOf(redo)
      /\ redo' \in Seq(Entry) /\ RangeOf(redo') \subseteq RangeOf(redo)
      /\ Fits(redo', "delete", Here')
      /\ undo' \in Seq(Entry) /\ RangeOf(undo') = RangeOf(undo) \cup {e}
      /\ Fits(undo', "add", Here')
      /\ \A x \in objects' : x \in objects \/ x = e.object
      /\ \A x, y \in objects' : x.id = y.id => x = y
  BY <1>1, <1>3, EntryMoves
<1>5. StacksFit' BY <1>4 DEF StacksFit
<1>. QED BY <1>4, <1>5 DEF ChangedBy, Entry

-----------------------------------------------------------------------------
(* Editing. *)

LEMMA MarkedTabsAreTheSame ==
    ASSUME ShellInvariant, MarkEditorDirty
    PROVE  SameTabs(tabs, tabs')
<1>1. tabs \in Seq(Tab) BY DEF ShellInvariant, TypeOK
<1>2. SameTabs(tabs, UpdateTab(tabs, active, TRUE)) /\ SameTabs(tabs, tabs)
  BY <1>1, FlagsOnly
<1>. QED BY <1>2 DEF MarkEditorDirty

\* A change of overlays: the tabs keep all but a flag, no task moves.
LEMMA ChangeOfOverlays ==
    ASSUME ShellInvariant, MarkEditorDirty,
           UNCHANGED <<active, tasks, backend, acceptance, launches>>,
           created' \in 0 .. MaxObjects, created <= created',
           NEW owner \in [1 .. opened -> Docs], Owns(owner), Changed(owner)
    PROVE  ShellInvariant'
<1>1. SameTabs(tabs, tabs') BY MarkedTabsAreTheSame
<1>2. UNCHANGED <<opening, saving, closing, restoring, accepting, strayed>>
  BY DEF tasks, acceptance
<1>3. created \in Nat /\ created' \in Nat BY TypesOfBounds DEF ShellInvariant
<1>4. ASSUME NEW i \in ObjectIds, i[2] <= created PROVE i[2] <= created'
  <2>1. i[2] \in Nat BY TypesOfBounds DEF ShellInvariant, ObjectIds
  <2>. QED BY <1>3, <1>4, <2>1
<1>5. saving # Idle => saving.ids \subseteq ObjectIds /\ \A i \in saving.ids : i[2] <= created
  BY TasksUnderWay DEF SaveTask, ShellInvariant, ObjectsAreNumbered
<1>6. accepting # Idle =>
         accepting.ids \subseteq ObjectIds /\ \A i \in accepting.ids : i[2] <= created
  BY TasksUnderWay DEF AcceptTask, ShellInvariant, ObjectsAreNumbered
<1>7. saving' # Idle => \A i \in saving'.ids : i[2] <= created' BY <1>2, <1>4, <1>5
<1>8. accepting' # Idle => /\ accepting'.session \in DOMAIN owner
                           /\ accepting'.doc = owner[accepting'.session]
                           /\ \A i \in accepting'.ids : i[2] <= created'
  BY <1>2, <1>4, <1>6 DEF Owns
<1>9. SavesAreOwned' BY <1>2 DEF ShellInvariant, SavesAreOwned, AtHome
<1>10. /\ saving' = Idle \/ saving' \in SaveTask
       /\ accepting' = Idle \/ accepting' \in AcceptTask
  BY <1>2, TasksUnderWay DEF ShellInvariant
<1>11. strayed \subseteq strayed' /\ strayed' \subseteq Docs
  BY <1>2 DEF ShellInvariant, TypeOK
<1>. QED BY <1>1, <1>2, <1>7, <1>8, <1>9, <1>10, <1>11, OverlaysChange

\* The next object has an id that was never used, and is of the active tab's
\* document.
LEMMA NewObjectIsNew ==
    ASSUME ShellInvariant, HasSession, created < MaxObjects
    PROVE  /\ NewObject \in Object /\ NewObject.id[2] = created + 1
           /\ NewObject.id \notin Here
           /\ \A owner : Owns(owner) => Owned(NewObject, owner)
           /\ created + 1 \in 0 .. MaxObjects /\ created <= created + 1
<1>. DEFINE o == NewObject
            d == TabOf(active).doc
<1>1. created \in Nat /\ MaxObjects \in Nat BY TypesOfBounds DEF ShellInvariant
<1>2. /\ ActiveSession \in Sessions /\ active = Doc(ActiveSession)
      /\ TabOf(active) \in RangeOf(tabs) /\ TabOf(active).id = active /\ d \in Docs
  BY ActiveTab DEF ShellInvariant, Tab
<1>3. o.id = <<d, created + 1>> /\ o.session = ActiveSession BY DEF NewObject
<1>4. o \in Object /\ o.id[1] = d /\ o.id[2] = created + 1
  <2>1. <<d, created + 1>> \in ObjectIds BY <1>1, <1>2 DEF ObjectIds
  <2>. QED BY <1>2, <1>3, <2>1 DEF NewObject, Object
<1>5. \A x \in objects : x.id[2] \in Nat /\ x.id[2] <= created
  BY <1>1 DEF ShellInvariant, TypeOK, ObjectsAreNumbered, Object, ObjectIds
<1>6. o.id \notin Here BY <1>1, <1>4, <1>5 DEF Here
<1>7. ASSUME NEW owner, Owns(owner) PROVE Owned(o, owner)
  <2>1. ActiveSession \in DOMAIN owner /\ d = owner[ActiveSession]
    BY <1>2, <1>7 DEF Owns, OwnedTabs
  <2>. QED BY <1>3, <1>4, <2>1 DEF Owned, AtHome
<1>. QED BY <1>1, <1>4, <1>6, <1>7

LEMMA AddObjectIsSound ==
    ASSUME ShellInvariant, AddObject
    PROVE  ShellInvariant'
<1>1. /\ HasSession /\ created < MaxObjects /\ created' = created + 1
      /\ objects' = objects \cup {NewObject} /\ PushUndo("add", NewObject)
      /\ MarkEditorDirty /\ UNCHANGED <<active, tasks, backend, acceptance, launches>>
  BY DEF AddObject, CanDraw
<1>2. /\ NewObject \in Object /\ NewObject.id \notin Here /\ NewObject.id[2] = created'
      /\ created' \in 0 .. MaxObjects /\ created <= created'
      /\ \A owner : Owns(owner) => Owned(NewObject, owner)
  BY <1>1, NewObjectIsNew
<1>3. objects' = Put(NewObject) BY <1>1, <1>2 DEF Put, Here
<1>4. ChangedBy(NewObject) BY <1>1, <1>2, <1>3, ObjectIsAdded
<1>5. PICK owner \in [1 .. opened -> Docs] : Owns(owner)
  BY DEF ShellInvariant, SessionsAreOwned
<1>6. NewObject.id[2] <= created' BY <1>2
<1>7. Changed(owner) BY <1>2, <1>4, <1>5, <1>6, ChangeIsSound
<1>. QED BY <1>1, <1>2, <1>5, <1>7, ChangeOfOverlays

\* An object that was there, or on a stack, is owned and has a number.
LEMMA KnownObject ==
    ASSUME ShellInvariant, NEW owner, Owns(owner),
           NEW o, (o \in objects) \/ (\E e \in RangeOf(undo) \cup RangeOf(redo) : o = e.object)
    PROVE  o \in Object /\ Owned(o, owner) /\ o.id[2] <= created
<1>1. CASE o \in objects
  BY <1>1 DEF ShellInvariant, TypeOK, ObjectsAreNumbered, Owns
<1>2. CASE \E e \in RangeOf(undo) \cup RangeOf(redo) : o = e.object
  <2>1. PICK e \in RangeOf(undo) \cup RangeOf(redo) : o = e.object BY <1>2
  <2>2. e \in Entry BY DEF ShellInvariant, TypeOK, RangeOf
  <2>. QED BY <2>1, <2>2 DEF ShellInvariant, ObjectsAreNumbered, Owns, Entry
<1>. QED BY <1>1, <1>2

LEMMA DeleteObjectIsSound ==
    ASSUME ShellInvariant, NEW o \in objects, DeleteObject(o)
    PROVE  ShellInvariant'
<1>1. /\ created' = created /\ objects' = objects \ {o} /\ PushUndo("delete", o)
      /\ MarkEditorDirty /\ UNCHANGED <<active, tasks, backend, acceptance, launches>>
  BY DEF DeleteObject
<1>2. created' \in 0 .. MaxObjects /\ created <= created'
  BY <1>1, TypesOfBounds DEF ShellInvariant
<1>3. ChangedBy(o) BY <1>1, ObjectIsDeleted
<1>4. PICK owner \in [1 .. opened -> Docs] : Owns(owner)
  BY DEF ShellInvariant, SessionsAreOwned
<1>5. o \in Object /\ Owned(o, owner) /\ o.id[2] <= created' BY <1>1, <1>4, KnownObject
<1>6. Changed(owner) BY <1>2, <1>3, <1>4, <1>5, ChangeIsSound
<1>. QED BY <1>1, <1>2, <1>4, <1>6, ChangeOfOverlays

\* Also when there is nothing on the stack.
LEMMA UndoRedoIsSound ==
    ASSUME ShellInvariant, Undo \/ Redo
    PROVE  ShellInvariant'
<1>1. created' = created /\ MarkEditorDirty /\ UNCHANGED <<active, tasks, backend, acceptance, launches>>
  BY DEF Undo, Redo
<1>2. created' \in 0 .. MaxObjects /\ created <= created'
  BY <1>1, TypesOfBounds DEF ShellInvariant
<1>3. PICK owner \in [1 .. opened -> Docs] : Owns(owner)
  BY DEF ShellInvariant, SessionsAreOwned
<1>4. CASE UNCHANGED <<objects, undo, redo>>
  <2>1. Changed(owner) BY <1>2, <1>3, <1>4, NothingChanged
  <2>. QED BY <1>1, <1>2, <1>3, <2>1, ChangeOfOverlays
<1>5. ASSUME NEW o, ChangedBy(o),
             \E e \in RangeOf(undo) \cup RangeOf(redo) : o = e.object
      PROVE  ShellInvariant'
  <2>1. o \in Object /\ Owned(o, owner) /\ o.id[2] <= created' BY <1>1, <1>3, <1>5, KnownObject
  <2>2. Changed(owner) BY <1>2, <1>3, <1>5, <2>1, ChangeIsSound
  <2>. QED BY <1>1, <1>2, <1>3, <2>2, ChangeOfOverlays
<1>6. CASE Undo /\ undo # <<>>
  <2>. DEFINE e == Top(undo)
  <2>1. /\ objects' = IF e.op = "add" THEN Drop(e.object) ELSE Put(e.object)
        /\ redo' = Append(redo, e) /\ undo' = SubSeq(undo, 1, Len(undo) - 1)
    BY <1>6 DEF Undo, Top
  <2>. HIDE DEF e
  <2>2. e \in RangeOf(undo) /\ ChangedBy(e.object)
    BY <1>6, <2>1, UndoChanges DEF e
  <2>. QED BY <1>5, <2>2
<1>7. CASE Redo /\ redo # <<>>
  <2>. DEFINE e == Top(redo)
  <2>1. /\ objects' = IF e.op = "add" THEN Put(e.object) ELSE Drop(e.object)
        /\ undo' = Append(undo, e) /\ redo' = SubSeq(redo, 1, Len(redo) - 1)
    BY <1>7 DEF Redo, Top
  <2>. HIDE DEF e
  <2>2. e \in RangeOf(redo) /\ ChangedBy(e.object)
    BY <1>7, <2>1, RedoChanges DEF e
  <2>. QED BY <1>5, <2>2
<1>8. (Undo /\ undo = <<>>) \/ (Redo /\ redo = <<>>) => UNCHANGED <<objects, undo, redo>>
  BY DEF Undo, Redo
<1>. QED BY <1>4, <1>6, <1>7, <1>8

-----------------------------------------------------------------------------
(* Saving, and what else leaves the overlays alone. *)

LEMMA EditContentIsSound ==
    ASSUME ShellInvariant, EditContent
    PROVE  ShellInvariant'
<1>1. /\ changed' = changed \cup {ActiveSession} /\ ActiveSession \in live
      /\ UNCHANGED <<tabs, active, editor, opening, closing, restoring, live, opened, acceptance, launches>>
      /\ UNCHANGED <<sidecar, saving>>
  BY DEF EditContent, shell, tasks
<1>2. changed' \subseteq live BY <1>1, SavesAsBefore
<1>3. SavesAreOwned' /\ OnlyAcceptanceStrays'
  BY <1>1, SavesAsBefore DEF SavesAreOwned, AtHome, OnlyAcceptanceStrays, acceptance
<1>4. SameTabs(tabs, tabs') BY <1>1, SavesAsBefore
<1>. QED BY <1>1, <1>2, <1>3, <1>4, SavesAsBefore, OverlaysStay

LEMMA TurnPageIsSound ==
    ASSUME ShellInvariant, TurnPage
    PROVE  ShellInvariant'
<1>1. /\ tabs' = SyncTab(tabs, ActiveSession)
      /\ UNCHANGED <<active, editor, opening, closing, restoring, live, opened, acceptance, launches>>
      /\ UNCHANGED <<sidecar, saving, changed>>
  BY DEF TurnPage, backend, tasks
<1>2. SavesAreOwned' /\ OnlyAcceptanceStrays'
  BY <1>1, SavesAsBefore DEF SavesAreOwned, AtHome, OnlyAcceptanceStrays, acceptance
<1>3. SameTabs(tabs, tabs') BY <1>1, SavesAsBefore, FlagsOnly
<1>. QED BY <1>1, <1>2, <1>3, SavesAsBefore, OverlaysStay

\* Another tab becomes active.
LEMMA SelectTabIsSound ==
    ASSUME ShellInvariant, NEW id \in TabIds, SelectTab(id)
    PROVE  ShellInvariant'
<1>1. id \in Ids(tabs) /\ active' = id
      /\ UNCHANGED <<tabs, editor, tasks, backend, acceptance, launches>>
  BY DEF SelectTab
<1>2. UNCHANGED <<opening, saving, closing, restoring, live, changed, sidecar, opened>>
  BY <1>1 DEF tasks, backend
<1>3. TypeOK' BY <1>1, <1>2 DEF ShellInvariant, TypeOK, editor, acceptance
<1>4. TasksAreSound' BY <1>1, <1>2 DEF ShellInvariant, TasksAreSound
<1>5. SessionsAreOwned' BY <1>1, <1>2, OwnersStay DEF ShellInvariant
<1>6. EditorSound' BY <1>1, <1>2, EditorStays DEF ShellInvariant, EditorSound
<1>. QED BY <1>3, <1>4, <1>5, <1>6 DEF ShellInvariant, EditorSound

\* The overlays of the active session are those of the active document.
LEMMA ActiveOverlays ==
    ASSUME ShellInvariant, HasSession
    PROVE  LET ids == ObjectsOf(ActiveSession)
           IN  /\ ids \subseteq ObjectIds /\ AtHome(ids, TabOf(active).doc)
               /\ \A i \in ids : i[2] <= created
<1>. DEFINE ids == ObjectsOf(ActiveSession)
            d == TabOf(active).doc
<1>1. /\ ActiveSession \in Sessions /\ active = Doc(ActiveSession)
      /\ TabOf(active) \in RangeOf(tabs) /\ TabOf(active).id = active
  BY ActiveTab DEF ShellInvariant
<1>2. PICK owner \in [1 .. opened -> Docs] : Owns(owner)
  BY DEF ShellInvariant, SessionsAreOwned
<1>3. d = owner[ActiveSession] BY <1>1, <1>2 DEF Owns, OwnedTabs
<1>4. ASSUME NEW i \in ids PROVE i \in ObjectIds /\ (i[1] = d \/ d \in strayed) /\ i[2] <= created
  <2>1. PICK o \in objects : o.session = ActiveSession /\ i = o.id
    BY DEF ObjectsOf
  <2>2. i \in ObjectIds BY <2>1 DEF ShellInvariant, TypeOK, Object
  <2>3. i[1] = d \/ d \in strayed BY <1>2, <1>3, <2>1 DEF Owns, Owned, AtHome
  <2>4. i[2] <= created BY <2>1 DEF ShellInvariant, ObjectsAreNumbered
  <2>. QED BY <2>2, <2>3, <2>4
<1>. QED BY <1>4 DEF AtHome

\* A save takes the overlays it is given, for the document that is active.
LEMMA SaveIsTaken ==
    ASSUME TypeOK, NEW ids \in SUBSET ObjectIds, NEW added \in SUBSET Object,
           NEW auto \in BOOLEAN, TakeSave(ids, added, auto)
    PROVE  /\ saving = Idle /\ saving' # Idle /\ saving' # saving /\ HasSession
           /\ saving' \in SaveTask
           /\ saving'.ids = ids /\ saving'.doc = TabOf(active).doc /\ saving'.doc \in Docs
<1>1. /\ saving = Idle /\ HasSession
      /\ saving' = [pc |-> "pdf", session |-> ActiveSession, doc |-> TabOf(active).doc,
                    ids |-> ids, added |-> added, auto |-> auto]
  BY DEF TakeSave
<1>2. ActiveSession \in Sessions /\ TabOf(active).doc \in Docs
  BY <1>1, ActiveTab DEF Tab
<1>3. saving' \in SaveTask BY <1>1, <1>2 DEF SaveTask
<1>4. saving'.pc # Idle.pc BY <1>1 DEF Idle
<1>. QED BY <1>1, <1>2, <1>3, <1>4

LEMMA StartSaveIsSound ==
    ASSUME ShellInvariant, NEW auto \in BOOLEAN, StartSave(auto)
    PROVE  ShellInvariant'
<1>. DEFINE ids == ObjectsOf(ActiveSession)
            none == {}
<1>1. /\ TakeSave(ids, none, auto) /\ HasSession
      /\ UNCHANGED <<tabs, active, editor, opening, closing, restoring, live, opened, acceptance, launches>>
      /\ UNCHANGED <<sidecar, changed>>
  BY DEF StartSave, TakeSave, shell, backend
<1>2. /\ ids \subseteq ObjectIds /\ AtHome(ids, TabOf(active).doc)
      /\ \A i \in ids : i[2] <= created
  BY <1>1, ActiveOverlays
<1>3. none \in SUBSET Object OBVIOUS
<1>. HIDE DEF ids, none
<1>4. /\ saving' # Idle /\ saving' \in SaveTask /\ saving'.ids = ids
      /\ saving'.doc = TabOf(active).doc
  BY <1>1, <1>2, <1>3, SaveIsTaken DEF ShellInvariant
<1>5. SavesAreOwned' BY <1>1, <1>2, <1>4, SavesAsBefore DEF SavesAreOwned, AtHome, acceptance
<1>6. OnlyAcceptanceStrays' BY <1>1, SavesAsBefore DEF OnlyAcceptanceStrays, acceptance
<1>7. SameTabs(tabs, tabs') BY <1>1, SavesAsBefore
<1>. QED BY <1>1, <1>2, <1>4, <1>5, <1>6, <1>7, SavesAsBefore, OverlaysStay

LEMMA PdfSavedIsSound ==
    ASSUME ShellInvariant, PdfSaved
    PROVE  ShellInvariant'
<1>1. /\ saving \in SaveTask /\ saving # Idle
      /\ changed' = changed \ {saving.session}
      /\ saving' = [saving EXCEPT !.pc = "project"]
      /\ UNCHANGED <<tabs, active, editor, opening, closing, restoring, live, opened, acceptance, launches>>
      /\ UNCHANGED sidecar
  BY TasksUnderWay DEF PdfSaved, ShellInvariant, shell
<1>2. /\ saving' \in SaveTask /\ saving'.ids = saving.ids /\ saving'.doc = saving.doc
  BY <1>1, SaveMovesOn
<1>3. SavesAreOwned' /\ OnlyAcceptanceStrays'
  BY <1>1, <1>2, SavesAsBefore DEF SavesAreOwned, AtHome, OnlyAcceptanceStrays, acceptance
<1>4. SameTabs(tabs, tabs') /\ changed' \subseteq live BY <1>1, SavesAsBefore
<1>. QED BY <1>1, <1>2, <1>3, <1>4, SavesAsBefore, OverlaysStay

\* A save that fails takes back what an acceptance added for it.
LEMMA SaveFailsIsSound ==
    ASSUME ShellInvariant, PdfSaveFails \/ ProjectSaveFails
    PROVE  ShellInvariant'
<1>1. /\ saving' = Idle /\ WithdrawAdded /\ created' = created
      /\ UNCHANGED <<active, opening, closing, restoring, backend, acceptance, launches>>
  BY DEF PdfSaveFails, ProjectSaveFails
<1>2. SameTabs(tabs, tabs')
  <2>1. \A ts \in Seq(Tab) : SameTabs(ts, MarkWithdrawn(ts)) BY FlagsOnly DEF MarkWithdrawn
  <2>2. tabs \in Seq(Tab) /\ SameTabs(tabs, tabs) BY SavesAsBefore
  <2>3. PICK us : SameTabs(tabs, us) /\ tabs' = MarkWithdrawn(us)
    <3>1. SameTabs(tabs, UpdateTab(tabs, Doc(saving.session), TRUE)) BY <2>2, FlagsOnly
    <3>. QED BY <2>2, <3>1 DEF PdfSaveFails, ProjectSaveFails
  <2>4. us \in Seq(Tab) BY <2>3 DEF SameTabs
  <2>5. SameTabs(us, tabs') BY <2>1, <2>3, <2>4
  <2>. QED BY <2>3, <2>5 DEF SameTabs
<1>3. created' \in 0 .. MaxObjects /\ created <= created'
  BY <1>1, TypesOfBounds DEF ShellInvariant
<1>4. PICK owner \in [1 .. opened -> Docs] : Owns(owner)
  BY DEF ShellInvariant, SessionsAreOwned
<1>5. Changed(owner)
  <2>1. CASE UNCHANGED <<objects, undo, redo>> BY <1>3, <1>4, <2>1, NothingChanged
  <2>2. CASE \E o \in objects : objects' = objects \ {o} /\ PushUndo("delete", o)
    <3>1. PICK o \in objects : objects' = objects \ {o} /\ PushUndo("delete", o) BY <2>2
    <3>2. ChangedBy(o) BY <3>1, ObjectIsDeleted
    <3>3. o \in Object /\ Owned(o, owner) /\ o.id[2] <= created' BY <1>1, <1>4, KnownObject
    <3>. QED BY <1>3, <1>4, <3>2, <3>3, ChangeIsSound
  <2>. QED BY <1>1, <2>1, <2>2 DEF WithdrawAdded
<1>6. SavesAreOwned' BY <1>1, SavesAsBefore DEF SavesAreOwned, AtHome, acceptance
<1>7. AcceptingAsBefore(owner)' BY <1>1, <1>4, AcceptanceAsBefore DEF AcceptingAsBefore, acceptance
<1>8. strayed \subseteq strayed' /\ strayed' \subseteq Docs
  BY <1>1 DEF acceptance, ShellInvariant, TypeOK
<1>. QED BY <1>1, <1>2, <1>3, <1>4, <1>5, <1>6, <1>7, <1>8, OverlaysChange DEF AcceptingAsBefore

LEMMA LibraryRecordedIsSound ==
    ASSUME ShellInvariant, LibraryRecorded
    PROVE  ShellInvariant'
<1>1. /\ saving' = Idle
      /\ UNCHANGED <<active, editor, opening, closing, restoring, live, changed, sidecar, opened,
                     acceptance, launches>>
  BY DEF LibraryRecorded, backend
<1>2. SameTabs(tabs, tabs')
  <2>1. tabs \in Seq(Tab) BY SavesAsBefore
  <2>. QED BY <2>1, FlagsOnly DEF LibraryRecorded, AutosaveSucceeds
<1>3. SavesAreOwned' /\ OnlyAcceptanceStrays'
  BY <1>1, SavesAsBefore DEF SavesAreOwned, AtHome, OnlyAcceptanceStrays, acceptance
<1>. QED BY <1>1, <1>2, <1>3, SavesAsBefore, OverlaysStay

LEMMA ProjectSavedIsSound ==
    ASSUME ShellInvariant, ProjectSaved
    PROVE  ShellInvariant'
<1>. DEFINE p == [stored |-> TRUE, ids |-> saving.ids]
<1>1. /\ saving \in SaveTask /\ saving # Idle
      /\ sidecar' = [sidecar EXCEPT ![saving.doc] = p]
      /\ tabs' = UpdateTab(tabs, Doc(saving.session), FALSE)
      /\ saving' = [saving EXCEPT !.pc = "library"]
      /\ UNCHANGED <<active, editor, opening, closing, restoring, live, opened, acceptance, launches>>
      /\ UNCHANGED changed
  BY TasksUnderWay DEF ProjectSaved, ShellInvariant
<1>2. /\ saving' \in SaveTask /\ saving'.ids = saving.ids /\ saving'.doc = saving.doc
  BY <1>1, SaveMovesOn
<1>3. SameTabs(tabs, tabs') BY <1>1, SavesAsBefore, FlagsOnly
<1>4. p \in Projects /\ p.ids = saving.ids /\ saving.doc \in Docs
  BY <1>1 DEF Projects, SaveTask
<1>. HIDE DEF p
<1>5. sidecar' \in [Docs -> Projects] BY <1>1, <1>4, SavesAsBefore
<1>6. \A d \in Docs : sidecar'[d] = IF d = saving.doc THEN p ELSE sidecar[d]
  BY <1>1, SavesAsBefore
<1>7. SavesAreOwned' BY <1>1, <1>2, SavesAsBefore DEF SavesAreOwned, AtHome, acceptance
<1>8. OnlyAcceptanceStrays'
  BY <1>1, <1>4, <1>6, SavesAsBefore DEF SavesAreOwned, AtHome, OnlyAcceptanceStrays, acceptance
<1>9. \A d \in Docs : \A i \in sidecar'[d].ids : i[2] <= created
  BY <1>1, <1>4, <1>6, SavesAsBefore
<1>. QED BY <1>1, <1>2, <1>3, <1>5, <1>7, <1>8, <1>9, SavesAsBefore, OverlaysStay

-----------------------------------------------------------------------------
(* Accepting recognised and generated text. *)

LEMMA StartAcceptIsSound ==
    ASSUME ShellInvariant, StartAccept
    PROVE  ShellInvariant'
<1>. DEFINE ids == ObjectsOf(ActiveSession)
            d == TabOf(active).doc
            known == Recognised(d) \in Here
<1>1. /\ HasSession /\ created < MaxObjects /\ created' = created + 1
      /\ accepting' = [pc |-> "overlays", session |-> ActiveSession, doc |-> d,
                       ids |-> ids, known |-> known]
      /\ UNCHANGED <<shell, objects, undo, redo, tasks, backend, strayed, launches>>
  BY DEF StartAccept
<1>2. /\ ids \subseteq ObjectIds /\ AtHome(ids, d) /\ \A i \in ids : i[2] <= created
  BY <1>1, ActiveOverlays
<1>3. /\ ActiveSession \in Sessions /\ active = Doc(ActiveSession)
      /\ TabOf(active) \in RangeOf(tabs) /\ TabOf(active).id = active /\ d \in Docs
  BY <1>1, ActiveTab DEF ShellInvariant, Tab
<1>4. PICK owner \in [1 .. opened -> Docs] : Owns(owner)
  BY DEF ShellInvariant, SessionsAreOwned
<1>5. ActiveSession \in DOMAIN owner /\ d = owner[ActiveSession]
  BY <1>3, <1>4 DEF Owns, OwnedTabs
<1>6. /\ created' \in 0 .. MaxObjects /\ created <= created'
      /\ created \in Nat /\ created' \in Nat
  BY <1>1, TypesOfBounds DEF ShellInvariant
<1>7. ASSUME NEW i \in ObjectIds, i[2] <= created PROVE i[2] <= created'
  <2>1. i[2] \in Nat BY TypesOfBounds DEF ShellInvariant, ObjectIds
  <2>. QED BY <1>6, <1>7, <2>1
<1>8. known \in BOOLEAN OBVIOUS
<1>. HIDE DEF ids, d, known
<1>9. /\ accepting' \in AcceptTask /\ accepting'.session = ActiveSession
      /\ accepting'.doc = d /\ accepting'.ids = ids
  <2>1. ids \in SUBSET ObjectIds BY <1>2
  <2>. QED BY <1>1, <1>3, <1>8, <2>1 DEF AcceptTask
<1>10. \A i \in accepting'.ids : i[2] <= created' BY <1>2, <1>7, <1>9
<1>11. UNCHANGED <<active, opening, saving, closing, restoring>> BY <1>1 DEF shell, tasks
<1>12. SavesAreOwned'
  BY <1>1, <1>2, <1>9, <1>11 DEF ShellInvariant, SavesAreOwned, AtHome
<1>13. SameTabs(tabs, tabs') BY <1>1, SavesAsBefore DEF shell
<1>14. saving' = Idle \/ saving' \in SaveTask BY <1>11, SavesAsBefore
<1>15. saving' # Idle => \A i \in saving'.ids : i[2] <= created'
  <2>1. saving # Idle => saving.ids \subseteq ObjectIds BY SavesAsBefore DEF SaveTask
  <2>. QED BY <1>7, <1>11, <2>1, SavesAsBefore
<1>16. Changed(owner) BY <1>1, <1>4, <1>6, NothingChanged
<1>17. strayed \subseteq strayed' /\ strayed' \subseteq Docs
  BY <1>1 DEF ShellInvariant, TypeOK
<1>. QED BY <1>1, <1>4, <1>5, <1>6, <1>9, <1>10, <1>11, <1>12, <1>13, <1>14, <1>15, <1>16, <1>17,
            OverlaysChange

\* How an acceptance ends: with a save of its overlays, or with none.
Accepted(o, ids) ==
    \/ AddAndSave(o, ids)
    \/ AddInVain(o)
    \/ TakeSave(ids, {}, FALSE) /\ UNCHANGED <<tabs, objects, undo, redo>>
    \/ UNCHANGED <<tabs, objects, undo, redo, saving>>

\* That the save it starts is of the overlays' own document, or of one that
\* was noted, is for each acceptance to show.
LEMMA AcceptedIsSound ==
    ASSUME ShellInvariant, NEW o \in Object, o.id[2] # 0 => o.id \notin Here,
           NEW ids \in SUBSET ObjectIds, Accepted(o, ids),
           UNCHANGED <<active, opening, closing, restoring, backend, launches>>,
           created' \in 0 .. MaxObjects, created <= created', o.id[2] <= created',
           \A i \in ids : i[2] <= created,
           NEW owner \in [1 .. opened -> Docs], Owns(owner), Owned(o, owner),
           accepting' = Idle \/ accepting' = accepting,
           strayed \subseteq strayed', strayed' \subseteq Docs,
           saving' # saving =>
              \A i \in ids \cup {o.id} : i[1] = saving'.doc \/ saving'.doc \in strayed'
    PROVE  ShellInvariant'
<1>1. created \in Nat /\ created' \in Nat BY TypesOfBounds DEF ShellInvariant
<1>2. ASSUME NEW i \in ObjectIds, i[2] <= created PROVE i[2] <= created'
  <2>1. i[2] \in Nat BY TypesOfBounds DEF ShellInvariant, ObjectIds
  <2>. QED BY <1>1, <1>2, <2>1
<1>3. SameTabs(tabs, tabs')
  <2>1. tabs \in Seq(Tab) /\ SameTabs(tabs, tabs) BY SavesAsBefore
  <2>2. SameTabs(tabs, UpdateTab(tabs, Doc(o.session), TRUE)) BY <2>1, FlagsOnly
  <2>. QED BY <2>1, <2>2 DEF Accepted, AddAndSave, AddInVain
<1>4. Changed(owner)
  <2>1. CASE UNCHANGED <<objects, undo, redo>> BY <2>1, NothingChanged
  <2>2. CASE AddAndSave(o, ids)
    <3>1. ChangedBy(o) BY <2>2, ObjectIsAdded DEF AddAndSave
    <3>. QED BY <3>1, ChangeIsSound
  <2>3. CASE AddInVain(o)
    <3>1. ChangedBy(o) BY <2>3, ObjectIsAddedInVain DEF AddInVain
    <3>. QED BY <3>1, ChangeIsSound
  <2>. QED BY <2>1, <2>2, <2>3 DEF Accepted
<1>5. \/ saving' = saving
      \/ /\ saving' # Idle /\ saving' # saving /\ saving' \in SaveTask
         /\ saving'.ids \subseteq ids \cup {o.id}
  <2>1. ASSUME NEW all \in SUBSET (ids \cup {o.id}), NEW added \in SUBSET Object,
               TakeSave(all, added, FALSE)
        PROVE  /\ saving' # Idle /\ saving' # saving /\ saving' \in SaveTask
               /\ saving'.ids \subseteq ids \cup {o.id}
    <3>1. all \in SUBSET ObjectIds BY DEF Object
    <3>2. PICK no \in BOOLEAN : no = FALSE OBVIOUS
    <3>3. TakeSave(all, added, no) BY <2>1, <3>2
    <3>4. saving' # Idle /\ saving' # saving /\ saving' \in SaveTask /\ saving'.ids = all
      BY <3>1, <3>3, SaveIsTaken DEF ShellInvariant
    <3>. QED BY <3>4
  <2>2. CASE AddAndSave(o, ids)
    <3>1. ids \cup {o.id} \in SUBSET (ids \cup {o.id}) /\ {o} \in SUBSET Object OBVIOUS
    <3>. QED BY <2>1, <2>2, <3>1 DEF AddAndSave
  <2>3. CASE TakeSave(ids, {}, FALSE)
    <3>1. ids \in SUBSET (ids \cup {o.id}) /\ {} \in SUBSET Object OBVIOUS
    <3>. QED BY <2>1, <2>3, <3>1
  <2>. QED BY <2>2, <2>3 DEF Accepted, AddInVain
<1>6. saving' = Idle \/ saving' \in SaveTask BY <1>5, SavesAsBefore
<1>7. saving' # Idle => \A i \in saving'.ids : i[2] <= created'
  <2>1. saving # Idle => saving.ids \subseteq ObjectIds BY SavesAsBefore DEF SaveTask
  <2>2. CASE saving' = saving BY <1>2, <2>1, <2>2, SavesAsBefore
  <2>3. CASE saving' # saving BY <1>2, <1>5, <2>3
  <2>. QED BY <2>2, <2>3
<1>8. AcceptingAsBefore(owner) BY AcceptanceAsBefore
<1>9. accepting # Idle => accepting.ids \subseteq ObjectIds BY <1>8 DEF AcceptingAsBefore, AcceptTask
<1>10. /\ accepting' = Idle \/ accepting' \in AcceptTask
       /\ accepting' # Idle => /\ accepting'.session \in DOMAIN owner
                               /\ accepting'.doc = owner[accepting'.session]
                               /\ \A i \in accepting'.ids : i[2] <= created'
  BY <1>2, <1>8, <1>9 DEF AcceptingAsBefore
<1>11. SavesAreOwned'
  <2>1. saving' # Idle => AtHome(saving.ids, saving.doc)'
    <3>1. CASE saving' = saving BY <3>1 DEF ShellInvariant, SavesAreOwned, AtHome
    <3>2. CASE saving' # saving BY <1>5, <3>2 DEF AtHome
    <3>. QED BY <3>1, <3>2
  <2>2. accepting' # Idle => AtHome(accepting.ids, accepting.doc)'
    BY DEF ShellInvariant, SavesAreOwned, AtHome
  <2>. QED BY <2>1, <2>2 DEF SavesAreOwned
<1>. QED BY <1>3, <1>4, <1>6, <1>7, <1>10, <1>11, OverlaysChange

\* Whatever document is active by now, it is noted unless it is the one the
\* text was found in.
LEMMA AcceptRecognisedIsSound ==
    ASSUME ShellInvariant, AcceptRecognised \/ AcceptNothing
    PROVE  ShellInvariant'
<1>. DEFINE d == accepting.doc
            ids == accepting.ids
            o == [id |-> Recognised(d), session |-> accepting.session]
<1>1. /\ accepting # Idle /\ accepting' = Idle /\ accepting \in AcceptTask
      /\ UNCHANGED <<active, created, opening, closing, restoring, backend, launches>>
      /\ Accepted(o, ids)
      /\ strayed' = IF saving' = saving THEN strayed
                    ELSE strayed \cup ({saving'.doc} \ {d})
  <2>1. accepting # Idle /\ accepting \in AcceptTask
    BY TasksUnderWay DEF AcceptRecognised, AcceptNothing, ShellInvariant
  <2>. QED BY <2>1 DEF AcceptRecognised, AcceptNothing, Accepted, shell, editor, tasks
<1>2. d \in Docs /\ ids \in SUBSET ObjectIds /\ accepting.session \in Sessions
  BY <1>1 DEF AcceptTask
<1>3. o \in Object /\ o.id = <<d, 0>> /\ o.id[1] = d /\ o.id[2] = 0 /\ o.session = accepting.session
  <2>1. 0 \in 0 .. MaxObjects BY BoundsAssumption
  <2>. QED BY <1>2, <2>1 DEF Recognised, Object, ObjectIds
<1>4. /\ created' \in 0 .. MaxObjects /\ created <= created' /\ o.id[2] <= created'
      /\ created' = created
  BY <1>1, <1>3, TypesOfBounds DEF ShellInvariant
<1>5. PICK owner \in [1 .. opened -> Docs] : Owns(owner)
  BY DEF ShellInvariant, SessionsAreOwned
<1>6. Owned(o, owner) BY <1>1, <1>3, <1>5 DEF Owns, Owned, AtHome
<1>7. AtHome(ids, d) /\ \A i \in ids : i[2] <= created
  BY <1>1 DEF ShellInvariant, SavesAreOwned, ObjectsAreNumbered
<1>. HIDE DEF d, ids, o
<1>8. ids \cup {o.id} \subseteq ObjectIds BY <1>2, <1>3 DEF Object
<1>9. saving' # saving =>
         saving' \in SaveTask /\ saving'.doc \in Docs
  <2>1. ASSUME NEW all \in SUBSET ObjectIds, NEW added \in SUBSET Object,
               TakeSave(all, added, FALSE)
        PROVE  saving' \in SaveTask /\ saving'.doc \in Docs
    <3>1. PICK no \in BOOLEAN : no = FALSE OBVIOUS
    <3>2. TakeSave(all, added, no) BY <2>1, <3>1
    <3>. QED BY <3>2, SaveIsTaken DEF ShellInvariant
  <2>2. {o} \in SUBSET Object /\ {} \in SUBSET Object /\ ids \cup {o.id} \in SUBSET ObjectIds
    BY <1>3, <1>8
  <2>. QED BY <1>1, <1>2, <2>1, <2>2 DEF Accepted, AddAndSave, AddInVain
<1>10. strayed \subseteq strayed' /\ strayed' \subseteq Docs
  BY <1>1, <1>9 DEF ShellInvariant, TypeOK
<1>11. saving' # saving =>
          \A i \in ids \cup {o.id} : i[1] = saving'.doc \/ saving'.doc \in strayed'
  <2>1. ASSUME saving' # saving, NEW i \in ids \cup {o.id}
        PROVE  i[1] = saving'.doc \/ saving'.doc \in strayed'
    <3>1. CASE saving'.doc = d
      <4>1. i[1] = d \/ d \in strayed BY <1>3, <1>7 DEF AtHome
      <4>. QED BY <1>10, <3>1, <4>1
    <3>2. CASE saving'.doc # d BY <1>1, <2>1, <3>2
    <3>. QED BY <3>1, <3>2
  <2>. QED BY <2>1
<1>12. UNCHANGED <<active, opening, closing, restoring, backend, launches>> BY <1>1
<1>. QED BY <1>1, <1>2, <1>3, <1>4, <1>5, <1>6, <1>7, <1>10, <1>11, <1>12, AcceptedIsSound

LEMMA AcceptGeneratedIsSound ==
    ASSUME ShellInvariant, AcceptGenerated
    PROVE  ShellInvariant'
<1>. DEFINE o == NewObject
            d == TabOf(active).doc
            ids == ObjectsOf(ActiveSession)
<1>1. /\ HasSession /\ created < MaxObjects /\ created' = created + 1
      /\ Accepted(o, ids)
      /\ UNCHANGED <<active, opening, closing, restoring, backend, accepting, strayed, launches>>
  BY DEF AcceptGenerated, Accepted, acceptance
<1>2. /\ o \in Object /\ o.id \notin Here /\ o.id[2] = created'
      /\ created' \in 0 .. MaxObjects /\ created <= created'
      /\ \A owner : Owns(owner) => Owned(o, owner)
  BY <1>1, NewObjectIsNew
<1>3. ids \in SUBSET ObjectIds /\ AtHome(ids, d) /\ \A i \in ids : i[2] <= created
  BY <1>1, ActiveOverlays
<1>4. PICK owner \in [1 .. opened -> Docs] : Owns(owner)
  BY DEF ShellInvariant, SessionsAreOwned
<1>5. o.id[1] = d BY DEF NewObject
<1>. HIDE DEF o, d, ids
<1>6. saving' # saving => saving'.doc = d
  <2>1. ASSUME NEW all, NEW added, TakeSave(all, added, FALSE) PROVE saving'.doc = d
    BY <2>1 DEF TakeSave, d
  <2>. QED BY <1>1, <2>1 DEF Accepted, AddAndSave, AddInVain
<1>7. saving' # saving =>
         \A i \in ids \cup {o.id} : i[1] = saving'.doc \/ saving'.doc \in strayed'
  BY <1>1, <1>3, <1>5, <1>6 DEF AtHome
<1>8. strayed \subseteq strayed' /\ strayed' \subseteq Docs
  BY <1>1 DEF ShellInvariant, TypeOK
<1>9. o.id[2] <= created' /\ Owned(o, owner) BY <1>2, <1>4
<1>10. UNCHANGED <<active, opening, closing, restoring, backend, launches>> BY <1>1
<1>. QED BY <1>1, <1>2, <1>3, <1>4, <1>7, <1>8, <1>9, <1>10, AcceptedIsSound

-----------------------------------------------------------------------------
(* Closing, and leaving the application. *)

LEMMA StartCloseIsSound ==
    ASSUME ShellInvariant, StartClose
    PROVE  ShellInvariant'
<1>1. /\ HasSession /\ closing' = [pc |-> "session", tab |-> active, seen |-> tabs]
      /\ UNCHANGED <<shell, editor, opening, saving, restoring, backend, acceptance, launches>>
  BY DEF StartClose
<1>2. /\ active \in Ids(tabs) /\ tabs \in Seq(Tab) /\ active \in TabIds
  <2>1. active \in Ids(tabs) /\ tabs \in Seq(Tab)
    BY <1>1, ActiveTab DEF ShellInvariant, TypeOK
  <2>. QED BY <2>1, IdsOfTabs
<1>3. closing' \in CloseTask /\ closing'.tab = active /\ closing'.seen = tabs
  BY <1>1, <1>2 DEF CloseTask
<1>4. TypeOK' BY <1>1, <1>3 DEF ShellInvariant, TypeOK, CloseTask, shell, editor, backend, acceptance
<1>5. TasksAreSound'
  BY <1>1, <1>2, <1>3 DEF ShellInvariant, TasksAreSound, shell, backend
<1>6. SessionsAreOwned'
  <2>1. PICK owner \in [1 .. opened -> Docs] : Owns(owner)
    BY DEF ShellInvariant, SessionsAreOwned
  <2>2. OwnedTabs(closing'.seen, owner) BY <1>3, <2>1 DEF Owns
  <2>3. Owns(owner)' BY <1>1, <2>1, <2>2 DEF Owns, Owned, AtHome, OwnedTabs, shell, editor, acceptance
  <2>4. owner \in [1 .. opened' -> Docs] BY <1>1 DEF backend
  <2>. QED BY <2>3, <2>4 DEF SessionsAreOwned
<1>7. EditorSound' BY <1>1, EditorStays DEF ShellInvariant, EditorSound, backend
<1>. QED BY <1>4, <1>5, <1>6, <1>7 DEF ShellInvariant, EditorSound

\* A list of tabs that was sound is put in place of the present one, without
\* the tab that is closed.
LEMMA TabsAreReplaced ==
    ASSUME ShellInvariant, NEW ts \in Seq(Tab), NEW id \in Ids(ts),
           UniqueTabs(ts), Len(ts) <= opened,
           \A owner : Owns(owner) => OwnedTabs(ts, owner),
           tabs' = WithoutTab(ts, id), active' = Fallback(ts, id),
           closing' = closing \/ closing' = Idle,
           UNCHANGED <<editor, opening, saving, restoring, backend, acceptance, launches>>
    PROVE  ShellInvariant'
<1>1. /\ tabs' \in Seq(Tab) /\ Len(tabs') <= Len(ts) /\ UniqueTabs(tabs')
      /\ RangeOf(tabs') = {t \in RangeOf(ts) : t.id # id}
  BY TabIsTakenOut
<1>2. active' \in Ids(tabs') \cup {NoTab} BY FallbackIsATab
<1>3. active' \in TabIds \cup {NoTab} BY <1>1, <1>2, IdsOfTabs
<1>4. TypeOK' BY <1>1, <1>3 DEF ShellInvariant, TypeOK, editor, backend, acceptance
<1>5. TasksAreSound'
  <2>1. Len(tabs') <= opened BY <1>1, TypesOfBounds DEF ShellInvariant
  <2>. QED BY <1>1, <1>2, <2>1 DEF ShellInvariant, TasksAreSound, backend
<1>6. SessionsAreOwned'
  <2>1. PICK owner \in [1 .. opened -> Docs] : Owns(owner)
    BY DEF ShellInvariant, SessionsAreOwned
  <2>2. OwnedTabs(tabs', owner) BY <1>1, <2>1 DEF OwnedTabs
  <2>3. closing' # Idle => OwnedTabs(closing'.seen, owner) BY <2>1 DEF Owns
  <2>4. Owns(owner)' BY <2>1, <2>2, <2>3 DEF Owns, Owned, AtHome, editor, acceptance
  <2>5. owner \in [1 .. opened' -> Docs] BY DEF backend
  <2>. QED BY <2>4, <2>5 DEF SessionsAreOwned
<1>7. EditorSound' BY EditorStays DEF ShellInvariant, EditorSound, backend
<1>. QED BY <1>4, <1>5, <1>6, <1>7 DEF ShellInvariant, EditorSound

LEMMA ClosePlaceholderIsSound ==
    ASSUME ShellInvariant, ClosePlaceholder
    PROVE  ShellInvariant'
<1>1. /\ active \in Ids(tabs) /\ tabs' = WithoutTab(tabs, active)
      /\ active' = Fallback(tabs, active)
      /\ UNCHANGED <<editor, opening, saving, closing, restoring, backend, acceptance, launches>>
  BY DEF ClosePlaceholder, CloseTab, tasks
<1>2. tabs \in Seq(Tab) /\ UniqueTabs(tabs) /\ Len(tabs) <= opened
  BY DEF ShellInvariant, TypeOK, TasksAreSound
<1>3. \A owner : Owns(owner) => OwnedTabs(tabs, owner) BY DEF Owns
<1>. QED BY <1>1, <1>2, <1>3, TabsAreReplaced

LEMMA FinishCloseIsSound ==
    ASSUME ShellInvariant, FinishClose
    PROVE  ShellInvariant'
<1>. DEFINE ts == closing.seen
            id == closing.tab
<1>1. /\ closing \in CloseTask /\ closing # Idle
      /\ tabs' = WithoutTab(ts, id) /\ active' = Fallback(ts, id) /\ closing' = Idle
      /\ UNCHANGED <<editor, opening, saving, restoring, backend, acceptance, launches>>
  BY TasksUnderWay DEF FinishClose, CloseTab, ShellInvariant
<1>2. ts \in Seq(Tab) /\ UniqueTabs(ts) /\ Len(ts) <= opened /\ id \in Ids(ts)
  BY <1>1 DEF ShellInvariant, CloseTask, TasksAreSound
<1>3. \A owner : Owns(owner) => OwnedTabs(ts, owner) BY <1>1 DEF Owns
<1>. HIDE DEF ts, id
<1>. QED BY <1>1, <1>2, <1>3, TabsAreReplaced

LEMMA SessionClosedIsSound ==
    ASSUME ShellInvariant, SessionClosed
    PROVE  ShellInvariant'
<1>1. /\ closing \in CloseTask /\ closing # Idle
      /\ closing' = [closing EXCEPT !.pc = "index"]
      /\ UNCHANGED <<shell, editor, opening, saving, restoring, sidecar, opened, acceptance, launches>>
  BY TasksUnderWay DEF SessionClosed, ShellInvariant
<1>2. /\ closing' \in CloseTask /\ closing'.tab = closing.tab /\ closing'.seen = closing.seen
  BY <1>1, CloseMovesOn
<1>3. live' \subseteq Sessions /\ changed' \subseteq live'
  BY DEF SessionClosed, ShellInvariant, TypeOK
<1>4. TypeOK' BY <1>1, <1>2, <1>3 DEF ShellInvariant, TypeOK, CloseTask, shell, editor, acceptance
<1>5. TasksAreSound' BY <1>1, <1>2 DEF ShellInvariant, TasksAreSound, shell
<1>6. SessionsAreOwned'
  <2>1. PICK owner \in [1 .. opened -> Docs] : Owns(owner)
    BY DEF ShellInvariant, SessionsAreOwned
  <2>2. OwnedTabs(closing'.seen, owner) BY <1>1, <1>2, <2>1 DEF Owns
  <2>3. Owns(owner)' BY <1>1, <2>1, <2>2 DEF Owns, Owned, AtHome, OwnedTabs, shell, editor, acceptance
  <2>4. owner \in [1 .. opened' -> Docs] BY <1>1
  <2>. QED BY <2>3, <2>4 DEF SessionsAreOwned
<1>7. EditorSound' BY <1>1, EditorStays DEF ShellInvariant, EditorSound
<1>. QED BY <1>4, <1>5, <1>6, <1>7 DEF ShellInvariant, EditorSound

\* Placeholders have the ids of their positions, and no session.
LEMMA RelaunchIsSound ==
    ASSUME ShellInvariant, Relaunch
    PROVE  ShellInvariant'
<1>. DEFINE places == [i \in DOMAIN tabs |-> NewTab(Pending(i), tabs[i].doc)]
<1>1. /\ tabs' = places /\ restoring' = places
      /\ active' = IF active \in Ids(tabs) THEN Pending(PositionOf(tabs, active))
                   ELSE IF tabs = <<>> THEN NoTab ELSE Pending(1)
      /\ objects' = {} /\ undo' = <<>> /\ redo' = <<>>
      /\ opening' = Idle /\ saving' = Idle /\ closing' = Idle
      /\ live' = {} /\ changed' = {}
      /\ launches < MaxLaunches /\ launches' = launches + 1
      /\ accepting' = Idle
      /\ UNCHANGED <<created, sidecar, opened, strayed>>
  BY DEF Relaunch
<1>2. /\ opened \in Nat /\ MaxOpens \in Nat /\ opened <= MaxOpens
      /\ launches \in Nat \ {0} /\ MaxLaunches \in Nat
  BY TypesOfBounds DEF ShellInvariant, TypeOK
<1>3. /\ tabs \in Seq(Tab) /\ Len(tabs) \in Nat /\ Len(tabs) <= opened
      /\ DOMAIN tabs = 1 .. Len(tabs) /\ DOMAIN tabs \subseteq Sessions
  BY <1>2 DEF ShellInvariant, TypeOK, TasksAreSound, Sessions
<1>4. \A i \in DOMAIN tabs : /\ places[i] \in Tab /\ places[i].id = Pending(i)
                            /\ Pending(i) \in TabIds
  <2>1. SUFFICES ASSUME NEW i \in DOMAIN tabs
                 PROVE  /\ places[i] \in Tab /\ places[i].id = Pending(i)
                        /\ Pending(i) \in TabIds
    OBVIOUS
  <2>2. Pending(i) \in TabIds BY <1>3 DEF TabIds
  <2>3. tabs[i] \in Tab BY <1>3
  <2>4. tabs[i].doc \in Docs BY <2>3 DEF Tab
  <2>5. places[i] = NewTab(Pending(i), tabs[i].doc) OBVIOUS
  <2>. HIDE DEF places
  <2>. QED BY <2>2, <2>4, <2>5 DEF NewTab, Tab
<1>5. places \in Seq(Tab) /\ DOMAIN places = DOMAIN tabs /\ Len(places) = Len(tabs)
  <2>. DEFINE p(i) == NewTab(Pending(i), tabs[i].doc)
  <2>1. \A i \in 1 .. Len(tabs) : p(i) \in Tab BY <1>3, <1>4
  <2>2. places = [i \in 1 .. Len(tabs) |-> p(i)] BY <1>3
  <2>. HIDE DEF p, places
  <2>. QED BY <1>3, <2>1, <2>2
<1>. HIDE DEF places
<1>6. \A i, j : Pending(i) = Pending(j) => i = j BY DEF Pending
<1>7. UniqueTabs(places) BY <1>4, <1>5, <1>6 DEF UniqueTabs
<1>8. active' \in TabIds \cup {NoTab}
  <2>1. active \in Ids(tabs) => PositionOf(tabs, active) \in DOMAIN tabs
    BY DEF Ids, RangeOf, PositionOf
  <2>2. tabs # <<>> => 1 \in DOMAIN tabs BY <1>3
  <2>. QED BY <1>1, <1>4, <2>1, <2>2
<1>9. TypeOK'
  <2>1. launches' \in 1 .. MaxLaunches BY <1>1, <1>2
  <2>. QED BY <1>1, <1>5, <1>8, <2>1 DEF ShellInvariant, TypeOK
<1>10. TasksAreSound'
  <2>1. launches' # 1 BY <1>1, <1>2
  <2>2. Len(tabs') <= opened' BY <1>1, <1>3, <1>5
  <2>. QED BY <1>1, <1>7, <2>1, <2>2 DEF TasksAreSound
<1>11. SessionsAreOwned'
  <2>1. PICK owner \in [1 .. opened -> Docs] : Owns(owner)
    BY DEF ShellInvariant, SessionsAreOwned
  <2>2. \A i, n : Pending(i) # Doc(n) BY DEF Pending, Doc
  <2>3. OwnedTabs(tabs', owner)
    BY <1>1, <1>4, <1>5, <2>2 DEF OwnedTabs, RangeOf
  <2>4. RangeOf(undo') = {} /\ RangeOf(redo') = {} BY <1>1 DEF RangeOf
  <2>5. Owns(owner)' BY <1>1, <2>3, <2>4 DEF Owns
  <2>. QED BY <1>1, <2>5 DEF SessionsAreOwned
<1>12. SavesAreOwned' /\ OnlyAcceptanceStrays'
  BY <1>1 DEF ShellInvariant, SavesAreOwned, AtHome, OnlyAcceptanceStrays
<1>13. ObjectsAreNumbered'
  BY <1>1 DEF ShellInvariant, ObjectsAreNumbered, RangeOf
<1>14. StacksFit' BY <1>1 DEF StacksFit, Fits
<1>. QED BY <1>9, <1>10, <1>11, <1>12, <1>13, <1>14 DEF ShellInvariant

-----------------------------------------------------------------------------
(* The theorems. *)

\* Whatever of the modelled actions the user takes and the backend answers,
\* and in whatever order the answers of one open, one save, one close and one
\* acceptance come, the shell's invariant holds: every session has one
\* document, what is saved is at home there or was noted as accepted for
\* another, objects are told apart, and the stacks fit the objects.
THEOREM ShellIsSound == Spec => []ShellInvariant
<1>1. Init => ShellInvariant BY ShellInitIsSound
<1>2. ShellInvariant /\ [Next]_vars => ShellInvariant'
  <2>. SUFFICES ASSUME ShellInvariant, [Next]_vars PROVE ShellInvariant'
    OBVIOUS
  <2>1. CASE UNCHANGED vars BY <2>1, StutterIsSound
  <2>2. CASE Open
    BY <2>2, StartingAnOpenIsSound, OpenFailsIsSound, OpenAnswersIsSound,
       StateAnswersIsSound, StateFailsIsSound, FailedSessionClosedIsSound,
       ProjectAnswersIsSound, OpenEndsIsSound DEF Open
  <2>3. CASE Edit
    BY <2>3, AddObjectIsSound, UndoRedoIsSound, EditContentIsSound,
       TurnPageIsSound, DeleteObjectIsSound DEF Edit
  <2>4. CASE Save
    BY <2>4, PdfSavedIsSound, SaveFailsIsSound, LibraryRecordedIsSound,
       ProjectSavedIsSound, StartSaveIsSound DEF Save
  <2>5. CASE Close
    BY <2>5, StartCloseIsSound, ClosePlaceholderIsSound, SessionClosedIsSound,
       FinishCloseIsSound DEF Close
  <2>8. CASE Accept
    BY <2>8, StartAcceptIsSound, AcceptRecognisedIsSound, AcceptGeneratedIsSound DEF Accept
  <2>6. CASE Relaunch BY <2>6, RelaunchIsSound
  <2>7. CASE \E id \in TabIds : SelectTab(id) BY <2>7, SelectTabIsSound
  <2>. QED BY <2>1, <2>2, <2>3, <2>4, <2>5, <2>6, <2>7, <2>8 DEF Next
<1>. QED BY <1>1, <1>2, PTL DEF Spec

\* Tabs, tasks, overlays, stacks and sidecars keep their types.
THEOREM ShellIsWellTyped == Spec => []TypeOK
<1>1. ShellInvariant => TypeOK BY DEF ShellInvariant
<1>. QED BY <1>1, ShellIsSound, PTL

\* With one open, one save, one close and one acceptance under way at a time,
\* the sidecar of a document holds foreign overlays only if an acceptance of
\* recognised text for another document was saved with it (acceptOcrOverlays
\* gives runSave the overlays of the click, App.tsx:432).  Choosing a tab,
\* opening, closing and the saves of the menu, of the timer and of generated
\* text do not do it.
THEOREM OnlyAcceptanceEverStrays == Spec => []OnlyAcceptanceStrays
<1>1. ShellInvariant => OnlyAcceptanceStrays BY DEF ShellInvariant
<1>. QED BY <1>1, ShellIsSound, PTL

\* The last entry of either stack can always be applied, unless it is about
\* recognised text.
THEOREM StacksAlwaysFit == Spec => []StacksFitObjects
<1>1. ShellInvariant => StacksFitObjects
  <2>. SUFFICES ASSUME ShellInvariant PROVE StacksFitObjects
    OBVIOUS
  <2>1. ASSUME NEW s \in Seq(Entry), NEW op, Fits(s, op, Here), s # <<>>,
               Top(s).object.id[2] # 0
        PROVE  (Top(s).op = op) = (Top(s).object.id \in Here)
    <3>1. Len(s) \in DOMAIN s /\ \A j \in DOMAIN s : ~(j > Len(s)) BY <2>1
    <3>2. (s[Len(s)].op = op) <=> (s[Len(s)].object.id \in Here)
      BY <2>1, <3>1 DEF Fits, Top
    <3>. QED BY <3>2 DEF Top
  <2>2. /\ undo \in Seq(Entry) /\ Fits(undo, "add", Here)
        /\ redo \in Seq(Entry) /\ Fits(redo, "delete", Here)
    BY DEF ShellInvariant, TypeOK, StacksFit
  <2>3. undo # <<>> /\ Top(undo).object.id[2] # 0 =>
           (Top(undo).op = "add") = (Top(undo).object.id \in Here)
    BY <2>1, <2>2
  <2>4. redo # <<>> /\ Top(redo).object.id[2] # 0 =>
           (Top(redo).op = "delete") = (Top(redo).object.id \in Here)
    BY <2>1, <2>2
  <2>. QED BY <2>3, <2>4 DEF StacksFitObjects, Top
<1>. QED BY <1>1, ShellIsSound, PTL

\* Tabs have ids of their own, and until a session is restored the active
\* tab is one of them.
THEOREM TabsAlwaysSound == Spec => []TabsAreSound
<1>1. ShellInvariant => TabsAreSound
  <2>. SUFFICES ASSUME ShellInvariant PROVE TabsAreSound
    OBVIOUS
  <2>. DEFINE n == Len(tabs)
              f == [i \in 1 .. n |-> tabs[i].id]
  <2>1. tabs \in Seq(Tab) /\ n \in Nat /\ DOMAIN tabs = 1 .. n /\ UniqueTabs(tabs)
    BY DEF ShellInvariant, TypeOK, TasksAreSound
  <2>2. f \in Bijection(1 .. n, Ids(tabs))
    BY <2>1 DEF Bijection, Injection, Surjection, IsInjective, Ids, RangeOf, UniqueTabs
  <2>3. Cardinality(Ids(tabs)) = n
    <3>. HIDE DEF f
    <3>. HIDE DEF n
    <3>1. IsFiniteSet(1 .. n) /\ Cardinality(1 .. n) = n BY <2>1, FS_Interval
    <3>2. ExistsBijection(1 .. n, Ids(tabs)) BY <2>2 DEF ExistsBijection
    <3>. QED BY <3>1, <3>2, FS_Bijection
  <2>4. launches = 1 => active \in Ids(tabs) \cup {NoTab}
    BY DEF ShellInvariant, TasksAreSound
  <2>. QED BY <2>3, <2>4 DEF TabsAreSound
<1>. QED BY <1>1, ShellIsSound, PTL
=============================================================================
