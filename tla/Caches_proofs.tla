--------------------------- MODULE Caches_proofs ---------------------------
(***************************************************************************)
(* The caches, for any keys, sizes and limits: the records that are kept   *)
(* by hand agree.                                                          *)
(***************************************************************************)
EXTENDS Caches, CommonLemmas, TLAPS

-----------------------------------------------------------------------------
(* The operators of the page cache are those of the lemmas.                *)

LEMMA PagesOperators ==
    /\ \A s, K : Pages!Without(s, K) = Without(s, K)
    /\ \A s, K : Pages!Within(s, K) = Without(s, Range(s) \ K)
    /\ \A S : Pages!Cardinality(S) = Cardinality(S)
    /\ \A S : Pages!Min(S) = Min(S)
    /\ \A f : Pages!Range(f) = Range(f)
    /\ \A m, K : Pages!TotalOf(m, K) = Total(m, K \cap DOMAIN m)
<1>1. \A s, K : Pages!Without(s, K) = Without(s, K) BY DEF Pages!Without, Without
<1>2. \A f : Pages!Range(f) = Range(f) BY DEF Pages!Range, Range
<1>3. \A s, K : Pages!Within(s, K) = Without(s, Range(s) \ K) BY <1>1, <1>2 DEF Pages!Within
<1>4. \A S : Pages!Cardinality(S) = Cardinality(S) BY DEF Pages!Cardinality, Cardinality
<1>5. \A S : Pages!Min(S) = Min(S) BY DEF Pages!Min, Min
<1>6. \A m, K : Pages!TotalOf(m, K) = Total(m, K \cap DOMAIN m)
  BY DEF Pages!TotalOf, Pages!MapThenSumSet, Pages!MapThenFoldSet,
         Total, SumFunctionOnSet, FoldFunctionOnSet, MapThenFoldSet
<1>. QED BY <1>1, <1>2, <1>3, <1>4, <1>5, <1>6

-----------------------------------------------------------------------------
(* Pages.                                                                  *)

\* Map, queue, counter and history fit together.
Agreeing(m, q, b, u) ==
    /\ DOMAIN m \subseteq PageKeys /\ m \in [DOMAIN m -> Sizes]
    /\ q \in Seq(PageKeys) /\ Distinct(q) /\ Range(q) = DOMAIN m
    /\ u \in Seq(PageKeys) /\ Distinct(u)
    /\ q = Without(u, PageKeys \ DOMAIN m)
    /\ b = Total(m, DOMAIN m)

PagesInv ==
    /\ Agreeing(map, order, bytes, uses)
    /\ Cardinality(DOMAIN map) <= MaxEntries /\ bytes <= MaxBytes

LEMMA AgreeingTypes ==
    ASSUME NEW m, NEW q, NEW b, NEW u, Agreeing(m, q, b, u)
    PROVE  /\ IsFiniteSet(DOMAIN m) /\ Weights(m, DOMAIN m)
           /\ b \in Nat /\ Len(q) = Cardinality(DOMAIN m)
           /\ Cardinality(DOMAIN m) \in Nat
<1>1. IsFiniteSet(DOMAIN m) /\ Len(q) = Cardinality(DOMAIN m)
  BY DistinctLength DEF Agreeing
<1>2. Weights(m, DOMAIN m) BY PagesAssumption DEF Agreeing, Weights, Pages!SizesAssumption
<1>3. b \in Nat BY <1>1, <1>2, TotalType DEF Agreeing
<1>. QED BY <1>1, <1>2, <1>3, FS_CardinalityType

\* Entries are dropped.
LEMMA DroppedAgrees ==
    ASSUME NEW m, NEW q, NEW b, NEW u, Agreeing(m, q, b, u), NEW K
    PROVE  /\ Agreeing(Pages!Dropped(m, K), Without(q, K),
                       Pages!Minus(b, Pages!TotalOf(m, K)), u)
           /\ Pages!Minus(b, Pages!TotalOf(m, K)) = Total(m, DOMAIN m \ K)
<1>. DEFINE d == Pages!Dropped(m, K)  D == DOMAIN m  R == DOMAIN m \ K
<1>1. DOMAIN d = R /\ \A k \in R : d[k] = m[k] BY DEF Pages!Dropped
<1>2. d \in [R -> Sizes] BY DEF Pages!Dropped, Agreeing
<1>. HIDE DEF d
<1>3. IsFiniteSet(D) /\ Weights(m, D) /\ b = Total(m, D) /\ b \in Nat
  BY AgreeingTypes DEF Agreeing
<1>4. /\ Total(m, D \ (K \cap D)) = Total(m, D) - Total(m, K \cap D)
      /\ Total(m, K \cap D) \in Nat /\ Total(m, D \ (K \cap D)) \in Nat
  BY <1>3, TotalMinus
<1>5. D \ (K \cap D) = R OBVIOUS
<1>6. Pages!Minus(b, Pages!TotalOf(m, K)) = Total(m, R)
  <2>1. Pages!TotalOf(m, K) = Total(m, K \cap D) BY PagesOperators
  <2>. DEFINE x == Total(m, K \cap D)  y == Total(m, R)
  <2>2. x \in Nat /\ y \in Nat /\ y = b - x BY <1>3, <1>4, <1>5
  <2>. HIDE DEF x, y
  <2>3. Pages!Minus(b, x) = y BY <1>3, <2>2 DEF Pages!Minus
  <2>. QED BY <2>1, <2>3 DEF x, y
<1>7. Total(d, R) = Total(m, R)
  <2>1. IsFiniteSet(R) BY <1>3, FS_Subset
  <2>2. Weights(m, R) BY <1>3 DEF Weights
  <2>. QED BY <1>1, <2>1, <2>2, TotalSame
<1>8. /\ Without(q, K) \in Seq(PageKeys) /\ Range(Without(q, K)) = R
      /\ Distinct(Without(q, K))
  BY WithoutType, WithoutDistinct DEF Agreeing
<1>9. Without(q, K) = Without(u, PageKeys \ R)
  <2>1. Without(q, K) = Without(u, (PageKeys \ D) \cup K) BY WithoutTwice DEF Agreeing
  <2>2. Range(u) \subseteq PageKeys BY RangeOfSeq DEF Agreeing
  <2>3. Range(u) \cap ((PageKeys \ D) \cup K) = Range(u) \cap (PageKeys \ R) BY <2>2
  <2>4. Without(u, (PageKeys \ D) \cup K) = Without(u, PageKeys \ R)
    BY <2>3, WithoutSame DEF Agreeing
  <2>. QED BY <2>1, <2>4
<1>10. Agreeing(d, Without(q, K), Total(m, R), u)
  BY <1>1, <1>2, <1>7, <1>8, <1>9 DEF Agreeing
<1>. QED BY <1>6, <1>10 DEF d

\* A key that is not there is put at the end of the queue.
LEMMA PushedAgrees ==
    ASSUME NEW m, NEW q, NEW b, NEW u, Agreeing(m, q, b, u),
           NEW k \in PageKeys, k \notin DOMAIN m, NEW size \in Sizes
    PROVE  Agreeing([j \in DOMAIN m \cup {k} |-> IF j = k THEN size ELSE m[j]],
                    Append(q, k), b + size, Append(Without(u, {k}), k))
<1>. DEFINE f == [j \in DOMAIN m \cup {k} |-> IF j = k THEN size ELSE m[j]]
            D == DOMAIN m  E == DOMAIN m \cup {k}  p == Append(q, k)
            w == Append(Without(u, {k}), k)
<1>1. DOMAIN f = E /\ f \in [E -> Sizes] /\ f[k] = size /\ \A j \in D : f[j] = m[j]
  BY DEF Agreeing
<1>. HIDE DEF f
<1>2. p \in Seq(PageKeys) /\ Distinct(p) /\ Range(p) = E
  <2>1. q \in Seq(PageKeys) /\ Distinct(q) /\ Range(q) = D BY DEF Agreeing
  <2>2. Range(p) = E BY <2>1, AppendRange
  <2>3. Distinct(p) BY <2>1, DistinctAppend
  <2>. QED BY <2>1, <2>2, <2>3
<1>3. Without(u, {k}) \in Seq(PageKeys) /\ Distinct(Without(u, {k}))
      /\ k \notin Range(Without(u, {k}))
  BY WithoutType, WithoutDistinct DEF Agreeing
<1>4. w \in Seq(PageKeys) /\ Distinct(w) BY <1>3, DistinctAppend
<1>5. p = Without(w, PageKeys \ E)
  <2>1. k \notin PageKeys \ E OBVIOUS
  <2>2. Without(w, PageKeys \ E) = Append(Without(Without(u, {k}), PageKeys \ E), k)
    <3>. DEFINE v == Without(u, {k})  X == PageKeys \ E
    <3>. HIDE DEF v, X
    <3>1. v \in Seq(PageKeys) /\ k \notin X BY <1>3, <2>1 DEF v, X
    <3>2. Without(Append(v, k), X) = Append(Without(v, X), k) BY <3>1, WithoutAppend
    <3>. QED BY <3>2 DEF v, X
  <2>3. Without(Without(u, {k}), PageKeys \ E) = Without(u, {k} \cup (PageKeys \ E))
    BY WithoutTwice DEF Agreeing
  <2>4. {k} \cup (PageKeys \ E) = PageKeys \ D OBVIOUS
  <2>5. q = Without(u, PageKeys \ D) BY DEF Agreeing
  <2>. QED BY <2>2, <2>3, <2>4, <2>5
<1>6. b + size = Total(f, E)
  <2>1. IsFiniteSet(D) /\ Weights(m, D) /\ b = Total(m, D) /\ b \in Nat
    BY AgreeingTypes DEF Agreeing
  <2>2. size \in Nat BY PagesAssumption DEF Pages!SizesAssumption
  <2>3. Weights(f, E) BY <1>1, <2>1, <2>2 DEF Weights
  <2>4. Total(f, D) = Total(m, D)
    <3>1. \A j \in D : m[j] = f[j] BY <1>1
    <3>. QED BY <2>1, <3>1, TotalSame
  <2>5. Total(f, E) = f[k] + Total(f, D) BY <2>1, <2>3, TotalAdd
  <2>. QED BY <1>1, <2>1, <2>2, <2>4, <2>5
<1>7. Agreeing(f, p, b + size, w) BY <1>1, <1>2, <1>4, <1>5, <1>6 DEF Agreeing
<1>. QED BY <1>7 DEF f

\* The map, the queue and the counter after the first n entries are gone.
Evicted(m, q, u, n) ==
    LET gone == {q[j] : j \in 1 .. n}
    IN  /\ map' = Pages!Dropped(m, gone)
        /\ order' = SubSeq(q, n + 1, Len(q))
        /\ bytes' = Total(m, DOMAIN m \ gone)
        /\ Agreeing(map', order', bytes', u)

LEMMA EvictionAgrees ==
    ASSUME NEW m, NEW q, NEW b, NEW u, Agreeing(m, q, b, u),
           Pages!EvictToFit(m, q, b)
    PROVE  /\ Cardinality(DOMAIN map') <= MaxEntries /\ bytes' <= MaxBytes
           /\ \E n \in 0 .. Len(q) :
                 /\ Evicted(m, q, u, n)
                 /\ \A i \in 0 .. n - 1 :
                       LET left == DOMAIN m \ {q[j] : j \in 1 .. i}
                       IN  Cardinality(left) > MaxEntries \/ Total(m, left) > MaxBytes
<1>. DEFINE Oldest(n) == {q[j] : j \in 1 .. n}
            Left(n) == DOMAIN m \ Oldest(n)
            Fits(n) == Cardinality(Left(n)) <= MaxEntries /\ Total(m, Left(n)) <= MaxBytes
            fits == {n \in 0 .. Len(q) : Fits(n)}
            least == Min(fits)
<1>0. q \in Seq(PageKeys) /\ Len(q) \in Nat /\ Distinct(q) /\ Range(q) = DOMAIN m
  BY DEF Agreeing
<1>1. MaxEntries \in Nat /\ MaxBytes \in Nat BY PagesAssumption DEF Pages!LimitsAssumption
<1>2. \A K : Pages!Minus(b, Pages!TotalOf(m, K)) = Total(m, DOMAIN m \ K) BY DroppedAgrees
<1>3. Left(Len(q)) = {} BY <1>0 DEF Range
<1>4. Len(q) \in fits
  <2>1. Cardinality({}) = 0 /\ Total(m, {}) = 0 BY FS_EmptySet, TotalEmpty
  <2>2. Fits(Len(q))
    <3>. HIDE DEF Left
    <3>. QED BY <1>1, <1>3, <2>1
  <2>. QED BY <1>0, <2>2
<1>5. fits \in SUBSET Nat /\ fits # {}
  <2>. HIDE DEF Fits
  <2>1. fits \in SUBSET Nat BY <1>0
  <2>. HIDE DEF fits
  <2>. QED BY <1>4, <2>1
<1>6. least \in fits /\ \A i \in fits : least <= i
  <2>. HIDE DEF fits
  <2>. QED BY <1>5, MinIsLeast
<1>7. /\ map' = Pages!Dropped(m, Oldest(least))
      /\ order' = SubSeq(q, least + 1, Len(q))
      /\ bytes' = Total(m, Left(least))
  <2>. DEFINE f == {n \in 0 .. Len(q) :
                      /\ Pages!Cardinality(DOMAIN m \ Oldest(n)) <= MaxEntries
                      /\ Pages!Minus(b, Pages!TotalOf(m, Oldest(n))) <= MaxBytes}
              n == IF f = {} THEN Len(q) ELSE Pages!Min(f)
  <2>1. f = fits BY <1>2, PagesOperators
  <2>2. n = least
    <3>. HIDE DEF f, fits
    <3>. QED BY <1>5, <2>1, PagesOperators
  <2>3. /\ map' = Pages!Dropped(m, Oldest(n))
        /\ order' = SubSeq(q, n + 1, Len(q))
        /\ bytes' = Pages!Minus(b, Pages!TotalOf(m, Oldest(n)))
    BY DEF Pages!EvictToFit
  <2>. HIDE DEF n
  <2>. QED BY <1>2, <2>2, <2>3
<1>8. least \in 0 .. Len(q) /\ Fits(least) BY <1>6
<1>9. \A i \in 0 .. least - 1 : ~Fits(i)
  <2>. SUFFICES ASSUME NEW i \in 0 .. least - 1, Fits(i) PROVE FALSE OBVIOUS
  <2>. HIDE DEF least, Fits
  <2>1. i \in fits /\ ~(least <= i) BY <1>8
  <2>. QED BY <1>6, <2>1
<1>. HIDE DEF least
<1>10. Without(q, Oldest(least)) = SubSeq(q, least + 1, Len(q)) BY <1>0, <1>8, WithoutEnds
<1>11. Agreeing(map', order', bytes', u)
  <2>1. Agreeing(Pages!Dropped(m, Oldest(least)), Without(q, Oldest(least)),
                 Pages!Minus(b, Pages!TotalOf(m, Oldest(least))), u)
    BY DroppedAgrees
  <2>. QED BY <1>2, <1>7, <1>10, <2>1
<1>12. DOMAIN map' = Left(least) BY <1>7 DEF Pages!Dropped
<1>13. Cardinality(DOMAIN map') <= MaxEntries /\ bytes' <= MaxBytes BY <1>7, <1>8, <1>12
<1>14. Evicted(m, q, u, least) BY <1>7, <1>11 DEF Evicted
<1>15. \A i \in 0 .. least - 1 :
          Cardinality(Left(i)) > MaxEntries \/ Total(m, Left(i)) > MaxBytes
  <2>. SUFFICES ASSUME NEW i \in 0 .. least - 1
                PROVE  Cardinality(Left(i)) > MaxEntries \/ Total(m, Left(i)) > MaxBytes
    OBVIOUS
  <2>1. ~Fits(i) BY <1>9
  <2>2. IsFiniteSet(DOMAIN m) /\ Weights(m, DOMAIN m) BY AgreeingTypes
  <2>3. IsFiniteSet(Left(i)) /\ Weights(m, Left(i)) BY <2>2, FS_Subset DEF Weights
  <2>4. Cardinality(Left(i)) \in Nat /\ Total(m, Left(i)) \in Nat
    BY <2>3, FS_CardinalityType, TotalType
  <2>. HIDE DEF Left
  <2>. QED BY <1>1, <2>1, <2>4
<1>. QED BY <1>8, <1>13, <1>14, <1>15

\* A use moves a key to the end of the queue.
LEMMA TouchedAgrees ==
    ASSUME NEW m, NEW q, NEW b, NEW u, Agreeing(m, q, b, u), NEW k \in DOMAIN m
    PROVE  Agreeing(m, Append(Without(q, {k}), k), b, Append(Without(u, {k}), k))
<1>. DEFINE d == Pages!Dropped(m, {k})  D == DOMAIN m
            f == [j \in DOMAIN d \cup {k} |-> IF j = k THEN m[k] ELSE d[j]]
<1>1. Agreeing(d, Without(q, {k}), Total(m, D \ {k}), u)
  <2>1. Agreeing(d, Without(q, {k}), Pages!Minus(b, Pages!TotalOf(m, {k})), u)
    BY DroppedAgrees
  <2>2. Pages!Minus(b, Pages!TotalOf(m, {k})) = Total(m, D \ {k}) BY DroppedAgrees
  <2>. QED BY <2>1, <2>2
<1>2. DOMAIN d = D \ {k} /\ \A j \in D \ {k} : d[j] = m[j] BY DEF Pages!Dropped
<1>3. m \in [D -> Sizes] /\ k \in PageKeys BY DEF Agreeing
<1>4. m[k] \in Sizes BY <1>3
<1>. HIDE DEF d
<1>5. f = m
  <2>1. DOMAIN f = D BY <1>2
  <2>2. \A j \in D : f[j] = m[j] BY <1>2
  <2>3. f = [j \in D |-> f[j]] BY <2>1
  <2>4. m = [j \in D |-> m[j]] BY <1>3
  <2>. HIDE DEF f
  <2>. QED BY <2>2, <2>3, <2>4
<1>6. Agreeing(f, Append(Without(q, {k}), k), Total(m, D \ {k}) + m[k],
               Append(Without(u, {k}), k))
  BY <1>1, <1>2, <1>3, <1>4, PushedAgrees
<1>7. Total(m, D \ {k}) + m[k] = b
  <2>1. IsFiniteSet(D) /\ Weights(m, D) /\ b = Total(m, D) BY AgreeingTypes DEF Agreeing
  <2>2. Total(m, D) = m[k] + Total(m, D \ {k}) BY <2>1, TotalRemove
  <2>3. m[k] \in Nat BY <2>1 DEF Weights
  <2>4. IsFiniteSet(D \ {k}) /\ Weights(m, D \ {k}) BY <2>1, FS_Subset DEF Weights
  <2>5. Total(m, D \ {k}) \in Nat BY <2>4, TotalType
  <2>. QED BY <2>1, <2>2, <2>3, <2>5
<1>. QED BY <1>5, <1>6, <1>7

\* What an insertion evicts from.
Pushed(k, size) == [j \in DOMAIN map \cup {k} |-> IF j = k THEN size ELSE map[j]]

LEMMA InsertedAgrees ==
    ASSUME PagesInv, NEW k \in PageKeys, NEW size \in Sizes
    PROVE  Agreeing(Pushed(k, size), Append(Pages!Without(order, {k}), k),
                    Pages!Minus(bytes, Pages!TotalOf(map, {k})) + size,
                    Append(Pages!Without(uses, {k}), k))
<1>. DEFINE d == Pages!Dropped(map, {k})
            f == [j \in DOMAIN d \cup {k} |-> IF j = k THEN size ELSE d[j]]
            b == Pages!Minus(bytes, Pages!TotalOf(map, {k}))
<1>1. Agreeing(d, Without(order, {k}), b, uses) BY DroppedAgrees DEF PagesInv
<1>2. DOMAIN d = DOMAIN map \ {k} /\ \A j \in DOMAIN map \ {k} : d[j] = map[j]
  BY DEF Pages!Dropped
<1>. HIDE DEF d, b
<1>3. k \notin DOMAIN d BY <1>2
<1>4. Agreeing(f, Append(Without(order, {k}), k), b + size, Append(Without(uses, {k}), k))
  BY <1>1, <1>3, PushedAgrees
<1>5. f = Pushed(k, size)
  <2>1. DOMAIN d \cup {k} = DOMAIN map \cup {k} BY <1>2
  <2>2. \A j \in DOMAIN map \cup {k} :
           (IF j = k THEN size ELSE d[j]) = (IF j = k THEN size ELSE map[j])
    BY <1>2
  <2>. QED BY <2>1, <2>2 DEF Pushed
<1>. HIDE DEF f
<1>. QED BY <1>4, <1>5, PagesOperators DEF b

LEMMA PagesStep ==
    ASSUME PagesInv, Pages!Next
    PROVE  PagesInv'
<1>. USE DEF PagesInv
<1>1. ASSUME NEW k \in PageKeys, Pages!Get(k) PROVE PagesInv'
  <2>1. k \in DOMAIN map /\ order' = Append(Without(order, {k}), k)
        /\ uses' = Append(Without(uses, {k}), k) /\ UNCHANGED <<map, bytes>>
    BY <1>1, PagesOperators DEF Pages!Get, Pages!Touch
  <2>2. Agreeing(map, order', bytes, uses') BY <2>1, TouchedAgrees
  <2>. QED BY <2>1, <2>2
<1>2. ASSUME NEW k \in PageKeys, NEW size \in Sizes, Pages!Insert(k, size) PROVE PagesInv'
  <2>. DEFINE q == Append(Pages!Without(order, {k}), k)
              b == Pages!Minus(bytes, Pages!TotalOf(map, {k})) + size
              u == Append(Pages!Without(uses, {k}), k)
              m == Pushed(k, size)
  <2>1. Agreeing(m, q, b, u) BY InsertedAgrees
  <2>2. Pages!EvictToFit(m, q, b) /\ uses' = u BY <1>2 DEF Pages!Insert, Pushed
  <2>. HIDE DEF q, b, u, m
  <2>3. Cardinality(DOMAIN map') <= MaxEntries /\ bytes' <= MaxBytes
        /\ \E n \in 0 .. Len(q) : Evicted(m, q, u, n)
    BY <2>1, <2>2, EvictionAgrees
  <2>4. Agreeing(map', order', bytes', uses') BY <2>2, <2>3 DEF Evicted
  <2>. QED BY <2>3, <2>4
<1>3. ASSUME NEW p, Pages!InvalidatePage(p) PROVE PagesInv'
  <2>. DEFINE K == {k \in DOMAIN map : PageOf[k] = p}
  <2>1. /\ map' = Pages!Dropped(map, K) /\ uses' = uses
        /\ bytes' = Pages!Minus(bytes, Pages!TotalOf(map, K))
        /\ order' = Without(order, K)
    BY <1>3, PagesOperators DEF Pages!InvalidatePage
  <2>. HIDE DEF K
  <2>2. Agreeing(map', order', bytes', uses') BY <2>1, DroppedAgrees
  <2>3. IsFiniteSet(DOMAIN map) /\ Weights(map, DOMAIN map) /\ bytes = Total(map, DOMAIN map)
        /\ bytes \in Nat /\ Cardinality(DOMAIN map) \in Nat
    BY AgreeingTypes DEF Agreeing
  <2>4. DOMAIN map' = DOMAIN map \ K BY <2>1 DEF Pages!Dropped
  <2>5. Cardinality(DOMAIN map \ K) \in Nat
        /\ Cardinality(DOMAIN map \ K) <= Cardinality(DOMAIN map)
    BY <2>3, FS_Subset, FS_CardinalityType
  <2>6. bytes' = Total(map, DOMAIN map \ K) BY <2>1, DroppedAgrees
  <2>7. bytes' <= bytes /\ bytes' \in Nat
    <3>1. K \cap DOMAIN map \in SUBSET DOMAIN map OBVIOUS
    <3>2. DOMAIN map \ (K \cap DOMAIN map) = DOMAIN map \ K OBVIOUS
    <3>. DEFINE x == Total(map, DOMAIN map \ K)  y == Total(map, K \cap DOMAIN map)
    <3>3. x = bytes - y /\ x \in Nat /\ y \in Nat BY <2>3, <3>1, <3>2, TotalMinus
    <3>4. bytes' = x BY <2>6
    <3>. HIDE DEF x, y
    <3>. QED BY <2>3, <3>3, <3>4
  <2>8. MaxEntries \in Nat /\ MaxBytes \in Nat BY PagesAssumption DEF Pages!LimitsAssumption
  <2>9. Cardinality(DOMAIN map') <= MaxEntries BY <2>3, <2>4, <2>5, <2>8
  <2>10. bytes' <= MaxBytes BY <2>3, <2>7, <2>8
  <2>. QED BY <2>2, <2>9, <2>10
<1>4. ASSUME Pages!Clear PROVE PagesInv'
  <2>1. map' = <<>> /\ order' = <<>> /\ bytes' = 0 /\ uses' = uses BY <1>4 DEF Pages!Clear
  <2>. DEFINE e == <<>>
  <2>2. DOMAIN e = {} /\ e \in Seq(PageKeys) /\ e \in [{} -> Sizes] OBVIOUS
  <2>3. Distinct(e) /\ Range(e) = {} BY EmptyRange DEF Distinct
  <2>4. Total(e, {}) = 0 /\ Cardinality({}) = 0 BY TotalEmpty, FS_EmptySet
  <2>5. uses \in Seq(PageKeys) /\ Distinct(uses) BY DEF Agreeing
  <2>6. e = Without(uses, PageKeys \ DOMAIN e)
    <3>1. Range(uses) \subseteq PageKeys \ {} BY <2>5, RangeOfSeq
    <3>. QED BY <2>2, <2>5, <3>1, WithoutAll
  <2>. HIDE DEF e
  <2>7. Agreeing(e, e, 0, uses) BY <2>2, <2>3, <2>4, <2>5, <2>6 DEF Agreeing
  <2>8. 0 <= MaxEntries /\ 0 <= MaxBytes BY PagesAssumption DEF Pages!LimitsAssumption
  <2>9. Agreeing(map', order', bytes', uses') BY <2>1, <2>7 DEF e
  <2>10. Cardinality(DOMAIN map') <= MaxEntries /\ bytes' <= MaxBytes
    BY <2>1, <2>2, <2>4, <2>8 DEF e
  <2>. QED BY <2>9, <2>10
<1>. HIDE DEF PagesInv
<1>. QED BY <1>1, <1>2, <1>3, <1>4 DEF Pages!Next

LEMMA PagesInitially ==
    ASSUME Pages!Init
    PROVE  PagesInv
<1>. DEFINE e == <<>>
<1>1. map = e /\ order = e /\ bytes = 0 /\ uses = e BY DEF Pages!Init
<1>2. DOMAIN e = {} /\ e \in Seq(PageKeys) /\ e \in [{} -> Sizes] OBVIOUS
<1>3. Distinct(e) /\ Range(e) = {} BY EmptyRange DEF Distinct
<1>4. Total(e, {}) = 0 /\ Cardinality({}) = 0 BY TotalEmpty, FS_EmptySet
<1>5. Without(e, PageKeys \ {}) = e BY WithoutEmpty
<1>6. 0 <= MaxEntries /\ 0 <= MaxBytes BY PagesAssumption DEF Pages!LimitsAssumption
<1>. HIDE DEF e
<1>7. Agreeing(e, e, 0, e) BY <1>2, <1>3, <1>4, <1>5 DEF Agreeing
<1>. QED BY <1>1, <1>2, <1>4, <1>6, <1>7 DEF PagesInv

LEMMA PagesStutter ==
    ASSUME PagesInv, UNCHANGED pages
    PROVE  PagesInv'
<1>1. map' = map /\ order' = order /\ bytes' = bytes /\ uses' = uses BY DEF pages
<1>. QED BY <1>1 DEF PagesInv

\* What the properties of the page cache follow from.
THEOREM PagesFitTogether == Spec => []PagesInv
<1>1. Init => PagesInv BY PagesInitially DEF Init
<1>2. PagesInv /\ [Next]_vars => PagesInv'
  <2>. SUFFICES ASSUME PagesInv, [Next]_vars PROVE PagesInv' OBVIOUS
  <2>1. CASE Pages!Next BY <2>1, PagesStep
  <2>2. CASE UNCHANGED pages BY <2>2, PagesStutter
  <2>. QED BY <2>1, <2>2 DEF Next, vars
<1>. QED BY <1>1, <1>2, PTL DEF Spec

\* The records of the rendered pages agree between two calls, for any keys
\* and limits: no rendering is kept that could not be evicted, none is
\* counted that is not there, and the queue is the order of last use.
THEOREM PagesCoherent == Spec => []PagesAreCoherent
<1>1. PagesInv => PagesAreCoherent
  <2>. SUFFICES ASSUME PagesInv PROVE PagesAreCoherent OBVIOUS
  <2>1. Agreeing(map, order, bytes, uses) BY DEF PagesInv
  <2>2. Pages!Agreement
    <3>1. Range(order) = DOMAIN map /\ bytes = Total(map, DOMAIN map) BY <2>1 DEF Agreeing
    <3>2. Len(order) = Cardinality(DOMAIN map) BY <2>1, AgreeingTypes
    <3>3. DOMAIN map \cap DOMAIN map = DOMAIN map OBVIOUS
    <3>4. Pages!TotalOf(map, DOMAIN map) = Total(map, DOMAIN map)
      BY <3>3, PagesOperators
    <3>. QED BY <3>1, <3>2, <3>4, PagesOperators DEF Pages!Agreement
  <2>3. Pages!WithinLimits BY PagesOperators DEF PagesInv, Pages!WithinLimits
  <2>4. Pages!QueueIsRecency
    <3>1. order = Without(uses, PageKeys \ DOMAIN map) /\ uses \in Seq(PageKeys)
      BY <2>1 DEF Agreeing
    <3>2. Range(uses) \subseteq PageKeys BY <3>1, RangeOfSeq
    <3>3. Range(uses) \cap (PageKeys \ DOMAIN map)
             = Range(uses) \cap (Range(uses) \ DOMAIN map)
      BY <3>2
    <3>4. order = Without(uses, Range(uses) \ DOMAIN map) BY <3>1, <3>3, WithoutSame
    <3>. QED BY <3>4, PagesOperators DEF Pages!QueueIsRecency
  <2>. QED BY <2>2, <2>3, <2>4 DEF PagesAreCoherent
<1>. QED BY <1>1, PagesFitTogether, PTL

\* The place of a key in the queue and its place in the history.
LEMMA QueueOrder ==
    ASSUME PagesInv, NEW a \in 1 .. Len(order), NEW c \in 1 .. Len(order)
    PROVE  /\ Pages!LastUse(order[a]) \in Nat
           /\ a < c => Pages!LastUse(order[a]) < Pages!LastUse(order[c])
<1>1. /\ uses \in Seq(PageKeys) /\ Distinct(uses) /\ order \in Seq(PageKeys)
      /\ order = Without(uses, PageKeys \ DOMAIN map)
  BY DEF PagesInv, Agreeing
<1>2. \A j \in 1 .. Len(uses) : Pages!LastUse(uses[j]) = j
  <2>. SUFFICES ASSUME NEW j \in 1 .. Len(uses) PROVE Pages!LastUse(uses[j]) = j OBVIOUS
  <2>1. DOMAIN uses = 1 .. Len(uses) BY <1>1
  <2>2. \A i \in 1 .. Len(uses) : uses[i] = uses[j] => i = j BY <1>1 DEF Distinct
  <2>. QED BY <2>1, <2>2 DEF Pages!LastUse
<1>3. Pages!LastUse(order[a]) \in Nat
  <2>0. order \in Seq(PageKeys) BY <1>1
  <2>1. order[a] \in Range(order) BY <2>0 DEF Range
  <2>2. Range(order) = Range(uses) \ (PageKeys \ DOMAIN map) BY <1>1, WithoutType
  <2>3. PICK j \in DOMAIN uses : order[a] = uses[j] BY <2>1, <2>2 DEF Range
  <2>4. j \in 1 .. Len(uses) BY <1>1, <2>3
  <2>. QED BY <1>1, <1>2, <2>3, <2>4
<1>4. ASSUME a < c PROVE Pages!LastUse(order[a]) < Pages!LastUse(order[c])
  <2>1. PICK i \in 1 .. Len(uses), j \in 1 .. Len(uses) :
           i < j /\ uses[i] = order[a] /\ uses[j] = order[c]
    <3>. DEFINE r == Without(uses, PageKeys \ DOMAIN map)
    <3>0. order = r BY <1>1
    <3>1. a \in 1 .. Len(r) /\ c \in 1 .. Len(r) BY <3>0
    <3>2. \A x, y \in 1 .. Len(r) : x < y =>
             \E i, j \in 1 .. Len(uses) : i < j /\ uses[i] = r[x] /\ uses[j] = r[y]
      <4>. DEFINE K == PageKeys \ DOMAIN map
      <4>1. uses \in Seq(PageKeys) BY <1>1
      <4>. HIDE DEF K
      <4>2. \A s \in Seq(PageKeys) : \A x, y \in 1 .. Len(Without(s, K)) : x < y =>
               \E i, j \in 1 .. Len(s) :
                  i < j /\ s[i] = Without(s, K)[x] /\ s[j] = Without(s, K)[y]
        BY WithoutOrder
      <4>. QED BY <4>1, <4>2 DEF K
    <3>. HIDE DEF r
    <3>3. \E i, j \in 1 .. Len(uses) : i < j /\ uses[i] = r[a] /\ uses[j] = r[c]
      BY <1>4, <3>1, <3>2
    <3>. QED BY <3>0, <3>3
  <2>2. Pages!LastUse(order[a]) = i /\ Pages!LastUse(order[c]) = j BY <1>2, <2>1
  <2>. QED BY <2>1, <2>2
<1>. QED BY <1>3, <1>4


\* What an insertion evicts was last used before anything it leaves, and had
\* it stayed the limits would be exceeded.
LEMMA InsertionEvicts ==
    ASSUME PagesInv, NEW k \in PageKeys, NEW size \in Sizes, Pages!Insert(k, size),
           k \notin DOMAIN map, k \in DOMAIN map',
           NEW gone \in DOMAIN map, gone \notin DOMAIN map'
    PROVE  LET kept == DOMAIN map \cap DOMAIN map'
               room == kept \cup {j \in DOMAIN map : Pages!LastUse(j) >= Pages!LastUse(gone)}
           IN  /\ \A j \in kept : Pages!LastUse(gone) < Pages!LastUse(j)
               /\ \/ Cardinality(room) + 1 > MaxEntries
                  \/ Total(map, room) + map'[k] > MaxBytes
<1>. DEFINE D == DOMAIN map
            q == Append(order, k)
            m == Pushed(k, size)
            u == Append(Pages!Without(uses, {k}), k)
            b == Pages!Minus(bytes, Pages!TotalOf(map, {k})) + size
            kept == D \cap DOMAIN map'
            room == kept \cup {j \in D : Pages!LastUse(j) >= Pages!LastUse(gone)}
            Oldest(n) == {q[j] : j \in 1 .. n}
<1>1. /\ order \in Seq(PageKeys) /\ Distinct(order) /\ Range(order) = D
      /\ IsFiniteSet(D) /\ Weights(map, D)
  BY AgreeingTypes DEF PagesInv, Agreeing
<1>2. Append(Pages!Without(order, {k}), k) = q
  <2>1. Range(order) \cap {k} = {} BY <1>1
  <2>. QED BY <1>1, <2>1, WithoutNothing, PagesOperators
<1>3. Agreeing(m, q, b, u) BY <1>2, InsertedAgrees
<1>4. Pages!EvictToFit(m, q, b) BY <1>2 DEF Pages!Insert, Pushed
<1>5. Len(q) = Len(order) + 1 /\ q[Len(q)] = k /\ Len(order) \in Nat
      /\ \A j \in 1 .. Len(order) : q[j] = order[j]
  BY <1>1
<1>6. DOMAIN m = D \cup {k} /\ m[k] = size /\ \A j \in D : m[j] = map[j] BY DEF Pushed
<1>. HIDE DEF m, b, u, q
<1>7. PICK n \in 0 .. Len(q) :
         /\ Evicted(m, q, u, n)
         /\ \A i \in 0 .. n - 1 :
               LET left == DOMAIN m \ {q[j] : j \in 1 .. i}
               IN  Cardinality(left) > MaxEntries \/ Total(m, left) > MaxBytes
  BY <1>3, <1>4, EvictionAgrees
<1>8. map' = Pages!Dropped(m, Oldest(n)) BY <1>7 DEF Evicted
<1>9. DOMAIN map' = (D \cup {k}) \ Oldest(n) /\ map'[k] = size
  BY <1>6, <1>8 DEF Pages!Dropped
<1>10. PICK a \in 1 .. n : gone = q[a] BY <1>9
<1>11. n <= Len(order) /\ a \in 1 .. Len(order) /\ gone = order[a]
  <2>1. n # Len(q) BY <1>5, <1>9
  <2>2. n <= Len(order) BY <1>5, <1>7, <2>1
  <2>. QED BY <1>5, <1>7, <1>10, <2>2
<1>12. \A j \in kept : \E c \in 1 .. Len(order) : j = order[c] /\ a < c
  <2>. SUFFICES ASSUME NEW j \in kept
                PROVE  \E c \in 1 .. Len(order) : j = order[c] /\ a < c
    OBVIOUS
  <2>1. PICK c \in 1 .. Len(order) : j = order[c] BY <1>1 DEF Range
  <2>2. j \notin Oldest(n) BY <1>9
  <2>3. c \notin 1 .. n BY <1>5, <2>1, <2>2
  <2>. QED BY <1>5, <1>7, <2>1, <2>3
<1>13. \A j \in kept : Pages!LastUse(gone) < Pages!LastUse(j)
  BY <1>11, <1>12, QueueOrder
<1>14. room = D \ Oldest(a - 1)
  <2>1. ASSUME NEW j \in room PROVE j \in D \ Oldest(a - 1)
    <3>1. j \in D /\ ~(Pages!LastUse(j) < Pages!LastUse(gone))
      <4>1. CASE j \in kept
        <5>1. PICK c \in 1 .. Len(order) : j = order[c] /\ a < c BY <1>12, <4>1
        <5>2. Pages!LastUse(gone) \in Nat /\ Pages!LastUse(j) \in Nat
              /\ Pages!LastUse(gone) < Pages!LastUse(j)
          BY <1>11, <5>1, QueueOrder
        <5>. QED BY <4>1, <5>2
      <4>2. CASE j \in D /\ Pages!LastUse(j) >= Pages!LastUse(gone)
        <5>1. PICK c \in 1 .. Len(order) : j = order[c] BY <1>1, <4>2 DEF Range
        <5>2. Pages!LastUse(gone) \in Nat /\ Pages!LastUse(j) \in Nat
          BY <1>11, <5>1, QueueOrder
        <5>. QED BY <4>2, <5>2
      <4>. QED BY <2>1, <4>1, <4>2
    <3>2. ASSUME j \in Oldest(a - 1) PROVE FALSE
      <4>1. PICK c \in 1 .. a - 1 : j = q[c] BY <3>2
      <4>2. c \in 1 .. Len(order) /\ j = order[c] /\ c < a BY <1>5, <1>11, <4>1
      <4>3. Pages!LastUse(j) < Pages!LastUse(gone) BY <1>11, <4>2, QueueOrder
      <4>. QED BY <3>1, <4>3
    <3>. QED BY <3>1, <3>2
  <2>2. ASSUME NEW j \in D \ Oldest(a - 1) PROVE j \in room
    <3>1. PICK c \in 1 .. Len(order) : j = order[c] BY <1>1 DEF Range
    <3>2. c \notin 1 .. a - 1 BY <1>5, <2>2, <3>1
    <3>3. c = a \/ a < c BY <1>5, <1>11, <3>1, <3>2
    <3>4. Pages!LastUse(gone) \in Nat /\ Pages!LastUse(j) \in Nat
          /\ (a < c => Pages!LastUse(gone) < Pages!LastUse(j))
      BY <1>11, <3>1, QueueOrder
    <3>5. c = a => j = gone BY <1>11, <3>1
    <3>6. Pages!LastUse(j) >= Pages!LastUse(gone) BY <3>3, <3>4, <3>5
    <3>. QED BY <3>6
  <2>. QED BY <2>1, <2>2
<1>15. room \in SUBSET D /\ k \notin room BY <1>14
<1>16. DOMAIN m \ Oldest(a - 1) = room \cup {k}
  <2>1. k \notin Oldest(a - 1)
    <3>. SUFFICES ASSUME k \in Oldest(a - 1) PROVE FALSE OBVIOUS
    <3>1. PICK c \in 1 .. a - 1 : k = q[c] OBVIOUS
    <3>2. c \in 1 .. Len(order) /\ k = order[c] BY <1>5, <1>11, <3>1
    <3>3. k \in Range(order) BY <1>1, <3>2 DEF Range
    <3>. QED BY <1>1, <3>3
  <2>. QED BY <1>6, <1>14, <2>1
<1>. HIDE DEF room
<1>17. Cardinality(room \cup {k}) > MaxEntries \/ Total(m, room \cup {k}) > MaxBytes
  <2>1. a - 1 \in 0 .. n - 1 BY <1>7, <1>10
  <2>. QED BY <1>7, <1>16, <2>1
<1>18. Cardinality(room \cup {k}) = Cardinality(room) + 1
  <2>1. IsFiniteSet(room) BY <1>1, <1>15, FS_Subset
  <2>. QED BY <1>15, <2>1, FS_AddElement
<1>19. Total(m, room \cup {k}) = Total(map, room) + map'[k]
  <2>1. IsFiniteSet(room) BY <1>1, <1>15, FS_Subset
  <2>2. Weights(map, room) BY <1>1, <1>15 DEF Weights
  <2>3. size \in Nat BY PagesAssumption DEF Pages!SizesAssumption
  <2>4. Weights(m, room \cup {k}) BY <1>6, <1>15, <2>2, <2>3 DEF Weights
  <2>5. Total(m, room \cup {k}) = m[k] + Total(m, room) BY <1>15, <2>1, <2>4, TotalAdd
  <2>6. \A j \in room : map[j] = m[j] BY <1>6, <1>15
  <2>7. Total(map, room) = Total(m, room) BY <2>1, <2>2, <2>6, TotalSame
  <2>8. Total(map, room) \in Nat BY <2>1, <2>2, TotalType
  <2>. QED BY <1>6, <1>9, <2>3, <2>5, <2>7, <2>8
<1>20. Cardinality(room) + 1 > MaxEntries \/ Total(map, room) + map'[k] > MaxBytes
  BY <1>17, <1>18, <1>19
<1>. QED BY <1>13, <1>20 DEF room

\* An insertion into the page cache evicts those used longest ago, whatever
\* hits, replacements and invalidations there were since they came in, and
\* no more of them than the limits demand.
THEOREM PagesEvictOldest == Spec => PagesEvictLeastRecent
<1>1. PagesInv /\ [Next]_vars =>
         [\A k \in PageKeys : (k \notin DOMAIN map /\ k \in DOMAIN map') =>
            LET kept == DOMAIN map \cap DOMAIN map'
            IN  \A gone \in DOMAIN map \ kept :
                  /\ \A j \in kept : Pages!LastUse(gone) < Pages!LastUse(j)
                  /\ LET room == kept \cup {j \in DOMAIN map :
                                               Pages!LastUse(j) >= Pages!LastUse(gone)}
                     IN  \/ Pages!Cardinality(room) + 1 > MaxEntries
                         \/ Pages!TotalOf(map, room) + map'[k] > MaxBytes]_(Pages!vars)
  <2>. SUFFICES ASSUME PagesInv, [Next]_vars, ~UNCHANGED Pages!vars,
                       NEW k \in PageKeys, k \notin DOMAIN map, k \in DOMAIN map',
                       NEW gone \in DOMAIN map, gone \notin DOMAIN map'
                PROVE  LET kept == DOMAIN map \cap DOMAIN map'
                           room == kept \cup {j \in DOMAIN map :
                                                Pages!LastUse(j) >= Pages!LastUse(gone)}
                       IN  /\ \A j \in kept : Pages!LastUse(gone) < Pages!LastUse(j)
                           /\ \/ Pages!Cardinality(room) + 1 > MaxEntries
                              \/ Pages!TotalOf(map, room) + map'[k] > MaxBytes
    OBVIOUS
  <2>1. Pages!Next BY DEF Next, vars, pages, Pages!vars
  <2>2. \E size \in Sizes : Pages!Insert(k, size)
    <3>1. ASSUME NEW j \in PageKeys, Pages!Get(j) PROVE FALSE BY <3>1 DEF Pages!Get
    <3>2. ASSUME NEW j \in PageKeys, NEW size \in Sizes, Pages!Insert(j, size)
          PROVE  Pages!Insert(k, size)
      <4>1. DOMAIN map' \subseteq DOMAIN map \cup {j}
        BY <3>2 DEF Pages!Insert, Pages!EvictToFit, Pages!Dropped
      <4>2. j = k BY <4>1
      <4>. QED BY <3>2, <4>2
    <3>3. ASSUME NEW p, Pages!InvalidatePage(p) PROVE FALSE
      BY <3>3 DEF Pages!InvalidatePage, Pages!Dropped
    <3>4. ASSUME Pages!Clear PROVE FALSE BY <3>4 DEF Pages!Clear
    <3>. QED BY <2>1, <3>1, <3>2, <3>3, <3>4 DEF Pages!Next
  <2>3. PICK size \in Sizes : Pages!Insert(k, size) BY <2>2
  <2>. DEFINE kept == DOMAIN map \cap DOMAIN map'
              room == kept \cup {j \in DOMAIN map : Pages!LastUse(j) >= Pages!LastUse(gone)}
  <2>4. /\ \A j \in kept : Pages!LastUse(gone) < Pages!LastUse(j)
        /\ \/ Cardinality(room) + 1 > MaxEntries
           \/ Total(map, room) + map'[k] > MaxBytes
    BY <2>3, InsertionEvicts
  <2>5. room \cap DOMAIN map = room OBVIOUS
  <2>6. Pages!TotalOf(map, room) = Total(map, room)
    <3>. HIDE DEF room
    <3>. QED BY <2>5, PagesOperators
  <2>7. Pages!Cardinality(room) = Cardinality(room) BY PagesOperators
  <2>. QED BY <2>4, <2>6, <2>7
<1>. QED BY <1>1, PagesFitTogether, PTL DEF Spec, PagesEvictLeastRecent, Pages!EvictsLeastRecent


-----------------------------------------------------------------------------
(* Glyphs.                                                                 *)

LEMMA GlyphsOperators ==
    /\ \A s, K : Glyphs!Without(s, K) = Without(s, K)
    /\ \A f : Glyphs!Range(f) = Range(f)
    /\ \A S : Glyphs!Cardinality(S) = Cardinality(S)
    /\ \A S : Glyphs!Max(S) = Max(S)
    /\ \A G, of : Glyphs!BytesOf(G, of) = Total([g \in G |-> Bytes[of[g]]], G)
<1>1. \A s, K : Glyphs!Without(s, K) = Without(s, K) BY DEF Glyphs!Without, Without
<1>2. \A f : Glyphs!Range(f) = Range(f) BY DEF Glyphs!Range, Range
<1>3. \A S : Glyphs!Cardinality(S) = Cardinality(S) BY DEF Glyphs!Cardinality, Cardinality
<1>4. \A S : Glyphs!Max(S) = Max(S) BY DEF Glyphs!Max, Max
<1>5. \A G, of : Glyphs!BytesOf(G, of) = Total([g \in G |-> Bytes[of[g]]], G)
  BY DEF Glyphs!BytesOf, Glyphs!SumFunctionOnSet, Glyphs!FoldFunctionOnSet,
         Glyphs!MapThenFoldSet, Total, SumFunctionOnSet, FoldFunctionOnSet, MapThenFoldSet
<1>. QED BY <1>1, <1>2, <1>3, <1>4, <1>5

Weight(of) == [g \in Glyphs!Pool |-> Bytes[of[g]]]

\* The threads that have a reference to a glyph.
Holders(h, g) == {t \in Threads : g \in h[t]}

\* No glyph is listed twice, and no key.
Listed(of, l) ==
    /\ Distinct(l)
    /\ \A g \in Range(l) : of[g] \in GlyphKeys
    /\ \A g, h \in Range(l) : of[g] = of[h] => g = h

\* The chains hold what the list holds.
Chained(of, l, c) ==
    \A b \in Glyphs!Chains : Range(c[b]) = {g \in Range(l) : Bucket[of[g]] = b}

Counted(of, r, l, h) ==
    \A g \in Glyphs!Pool :
        /\ IsFiniteSet(Holders(h, g))
        /\ r[g] = Cardinality(Holders(h, g)) + (IF g \in Range(l) THEN 1 ELSE 0)
        /\ of[g] = NoKey <=> r[g] = 0

\* A thread draws what it does not have.
DrawsAnew == \A t \in Threads : drawing[t] # NoKey => \A g \in held[t] : glyphs[g] # drawing[t]

GlyphsInv ==
    /\ Glyphs!TypeOK
    /\ Listed(glyphs, lru) /\ Chained(glyphs, lru, chain)
    /\ total = Total(Weight(glyphs), Range(lru)) /\ total <= MaxTotal
    /\ Counted(glyphs, refs, lru, held)
    /\ DrawsAnew

LEMMA GlyphsTypes ==
    ASSUME GlyphsInv
    PROVE  /\ lru \in Seq(Glyphs!Pool) /\ Range(lru) \subseteq Glyphs!Pool
           /\ IsFiniteSet(Range(lru)) /\ Weights(Weight(glyphs), Range(lru))
           /\ \A b \in Glyphs!Chains : chain[b] \in Seq(Glyphs!Pool)
           /\ \A b \in Glyphs!Chains : Range(chain[b]) \subseteq Range(lru)
           /\ total \in Nat /\ MaxTotal \in Nat
           /\ NoKey \notin GlyphKeys /\ Type3 \subseteq GlyphKeys
           /\ \A k \in GlyphKeys : Bytes[k] \in Nat /\ Bucket[k] \in Glyphs!Chains
<1>1. /\ lru \in Seq(Glyphs!Pool) /\ total \in Nat
      /\ \A b \in Glyphs!Chains : chain[b] \in Seq(Glyphs!Pool)
  BY DEF GlyphsInv, Glyphs!TypeOK
<1>2. Range(lru) \subseteq Glyphs!Pool BY <1>1, RangeOfSeq
<1>3. IsFiniteSet(Range(lru)) BY <1>1, DistinctLength
<1>4. /\ MaxTotal \in Nat /\ NoKey \notin GlyphKeys /\ Type3 \subseteq GlyphKeys
      /\ \A k \in GlyphKeys : Bytes[k] \in Nat
  BY GlyphsAssumption DEF Glyphs!KeysAssumption
<1>5. \A g \in Range(lru) : glyphs[g] \in GlyphKeys BY DEF GlyphsInv, Listed
<1>6. Weights(Weight(glyphs), Range(lru)) BY <1>2, <1>4, <1>5 DEF Weights, Weight
<1>7. \A b \in Glyphs!Chains : Range(chain[b]) \subseteq Range(lru)
  BY DEF GlyphsInv, Chained
<1>8. \A k \in GlyphKeys : Bucket[k] \in Glyphs!Chains BY DEF Glyphs!Chains
<1>. QED BY <1>1, <1>2, <1>3, <1>4, <1>6, <1>7, <1>8

\* A search ends at the one glyph that is a rendering of the key.
LEMMA CachedAre ==
    ASSUME GlyphsInv, NEW k \in GlyphKeys
    PROVE  Glyphs!Cached(k) = {g \in Range(lru) : glyphs[g] = k}
<1>. DEFINE c == chain[Bucket[k]]
            first(j) == glyphs[c[j]] = k /\ \A h \in 1 .. j - 1 : glyphs[c[h]] # k
<1>1. /\ c \in Seq(Glyphs!Pool) /\ Len(c) \in Nat /\ DOMAIN c = 1 .. Len(c)
      /\ Bucket[k] \in Glyphs!Chains
  BY GlyphsTypes
<1>2. Range(c) = {g \in Range(lru) : Bucket[glyphs[g]] = Bucket[k]}
  BY <1>1 DEF GlyphsInv, Chained
<1>3. Glyphs!Cached(k) = {c[i] : i \in {j \in DOMAIN c : first(j)}} BY DEF Glyphs!Cached
<1>. HIDE DEF c
<1>4. ASSUME NEW i \in DOMAIN c, first(i) PROVE c[i] \in {g \in Range(lru) : glyphs[g] = k}
  <2>1. c[i] \in Range(c) BY DEF Range
  <2>. QED BY <1>2, <1>4, <2>1
<1>5. ASSUME NEW g \in Range(lru), glyphs[g] = k
      PROVE  \E i \in DOMAIN c : first(i) /\ g = c[i]
  <2>. DEFINE S == {j \in 1 .. Len(c) : glyphs[c[j]] = k}
  <2>1. g \in Range(c) BY <1>2, <1>5
  <2>2. PICK j \in DOMAIN c : g = c[j] BY <2>1 DEF Range
  <2>3. S \in SUBSET Nat /\ j \in S BY <1>1, <1>5, <2>2
  <2>. HIDE DEF S
  <2>4. PICK i \in S : \A y \in S : i <= y BY <2>3, LeastExists
  <2>. USE DEF S
  <2>5. i \in DOMAIN c /\ i \in 1 .. Len(c) /\ glyphs[c[i]] = k BY <1>1, <2>4
  <2>6. \A h \in 1 .. i - 1 : glyphs[c[h]] # k
    <3>. SUFFICES ASSUME NEW h \in 1 .. i - 1, glyphs[c[h]] = k PROVE FALSE OBVIOUS
    <3>1. h \in 1 .. Len(c) /\ ~(i <= h) BY <1>1, <2>5
    <3>. QED BY <2>4, <3>1
  <2>7. c[i] \in Range(lru) BY <1>2, <2>5 DEF Range
  <2>8. c[i] = g BY <1>5, <2>5, <2>7 DEF GlyphsInv, Listed
  <2>. QED BY <2>5, <2>6, <2>8
<1>. HIDE DEF first
<1>. QED BY <1>3, <1>4, <1>5


LEMMA HolderGained ==
    ASSUME NEW h \in [Threads -> SUBSET Glyphs!Pool], NEW t \in Threads, NEW g \in Glyphs!Pool
    PROVE  LET i == [h EXCEPT ![t] = @ \cup {g}]
           IN  /\ i \in [Threads -> SUBSET Glyphs!Pool]
               /\ Holders(i, g) = Holders(h, g) \cup {t}
               /\ \A x \in Glyphs!Pool \ {g} : Holders(i, x) = Holders(h, x)
               /\ \A s \in Threads \ {t} : i[s] = h[s]
BY DEF Holders

\* A thread gets another reference to a glyph that is listed.
LEMMA TookKeeps ==
    ASSUME GlyphsInv, NEW t \in Threads, NEW g \in Range(lru), g \notin held[t],
           Glyphs!Take(t, g), drawing' = [drawing EXCEPT ![t] = NoKey], ctxs' = ctxs
    PROVE  GlyphsInv'
<1>1. /\ lru \in Seq(Glyphs!Pool) /\ Distinct(lru) /\ g \in Glyphs!Pool
      /\ held \in [Threads -> SUBSET Glyphs!Pool] /\ refs \in [Glyphs!Pool -> Nat]
      /\ drawing \in [Threads -> Type3 \cup {NoKey}]
  BY GlyphsTypes DEF GlyphsInv, Glyphs!TypeOK, Listed
<1>2. /\ lru' = <<g>> \o Without(lru, {g})
      /\ refs' = [refs EXCEPT ![g] = @ + 1]
      /\ held' = [held EXCEPT ![t] = @ \cup {g}]
      /\ glyphs' = glyphs /\ chain' = chain /\ total' = total
  BY GlyphsOperators DEF Glyphs!Take
<1>3. lru' \in Seq(Glyphs!Pool) /\ Distinct(lru') /\ Range(lru') = Range(lru)
  <2>. DEFINE v == Without(lru, {g})
  <2>1. v \in Seq(Glyphs!Pool) /\ Range(v) = Range(lru) \ {g} /\ Distinct(v)
    BY <1>1, WithoutType, WithoutDistinct
  <2>. HIDE DEF v
  <2>2. <<g>> \o v \in Seq(Glyphs!Pool) /\ Distinct(<<g>> \o v)
        /\ Range(<<g>> \o v) = {g} \cup Range(v)
    BY <1>1, <2>1, FrontAdded
  <2>. QED BY <1>2, <2>1, <2>2 DEF v
<1>4. /\ held' \in [Threads -> SUBSET Glyphs!Pool]
      /\ Holders(held', g) = Holders(held, g) \cup {t} /\ t \notin Holders(held, g)
      /\ \A x \in Glyphs!Pool \ {g} : Holders(held', x) = Holders(held, x)
      /\ \A s \in Threads \ {t} : held'[s] = held[s]
  BY <1>1, <1>2, HolderGained DEF Holders
<1>5. Glyphs!TypeOK'
  <2>1. refs' \in [Glyphs!Pool -> Nat] BY <1>1, <1>2
  <2>2. drawing' \in [Threads -> Type3 \cup {NoKey}] BY <1>1
  <2>. QED BY <1>2, <1>3, <1>4, <2>1, <2>2 DEF GlyphsInv, Glyphs!TypeOK
<1>6. Listed(glyphs', lru') BY <1>2, <1>3 DEF GlyphsInv, Listed
<1>7. Chained(glyphs', lru', chain') BY <1>2, <1>3 DEF GlyphsInv, Chained
<1>8. total' = Total(Weight(glyphs'), Range(lru')) /\ total' <= MaxTotal
  BY <1>2, <1>3 DEF GlyphsInv
<1>9. Counted(glyphs', refs', lru', held')
  <2>. SUFFICES ASSUME NEW x \in Glyphs!Pool
                PROVE  /\ IsFiniteSet(Holders(held', x))
                       /\ refs'[x] = Cardinality(Holders(held', x))
                                     + (IF x \in Range(lru') THEN 1 ELSE 0)
                       /\ glyphs'[x] = NoKey <=> refs'[x] = 0
    BY DEF Counted
  <2>1. /\ IsFiniteSet(Holders(held, x))
        /\ refs[x] = Cardinality(Holders(held, x)) + (IF x \in Range(lru) THEN 1 ELSE 0)
        /\ glyphs[x] = NoKey <=> refs[x] = 0
    BY DEF GlyphsInv, Counted
  <2>2. Cardinality(Holders(held, x)) \in Nat BY <2>1, FS_CardinalityType
  <2>3. CASE x = g
    <3>1. /\ IsFiniteSet(Holders(held', x))
          /\ Cardinality(Holders(held', x)) = Cardinality(Holders(held, x)) + 1
      BY <1>4, <2>1, <2>3, FS_AddElement
    <3>2. refs'[x] = refs[x] + 1 BY <1>1, <1>2, <2>3
    <3>. QED BY <1>2, <1>3, <2>1, <2>2, <2>3, <3>1, <3>2
  <2>4. CASE x # g
    <3>1. refs'[x] = refs[x] /\ Holders(held', x) = Holders(held, x) BY <1>1, <1>2, <1>4, <2>4
    <3>. QED BY <1>2, <1>3, <2>1, <3>1
  <2>. QED BY <2>3, <2>4
<1>10. DrawsAnew'
  <2>1. \A s \in Threads : drawing'[s] # NoKey => s # t /\ drawing'[s] = drawing[s] BY <1>1
  <2>. QED BY <1>2, <1>4, <2>1 DEF GlyphsInv, DrawsAnew
<1>. QED BY <1>5, <1>6, <1>7, <1>8, <1>9, <1>10 DEF GlyphsInv

\* A new rendering is nobody's yet.
LEMMA FreshIsFree ==
    ASSUME GlyphsInv, NEW g \in Glyphs!Fresh
    PROVE  /\ g \in Glyphs!Pool /\ glyphs[g] = NoKey /\ refs[g] = 0
           /\ Holders(held, g) = {} /\ g \notin Range(lru)
<1>1. g \in Glyphs!Pool /\ glyphs[g] = NoKey BY DEF Glyphs!Fresh
<1>2. /\ IsFiniteSet(Holders(held, g)) /\ refs[g] = 0
      /\ refs[g] = Cardinality(Holders(held, g)) + (IF g \in Range(lru) THEN 1 ELSE 0)
  BY <1>1 DEF GlyphsInv, Counted
<1>3. Cardinality(Holders(held, g)) \in Nat BY <1>2, FS_CardinalityType
<1>4. Cardinality(Holders(held, g)) = 0 /\ g \notin Range(lru) BY <1>2, <1>3
<1>. QED BY <1>1, <1>2, <1>4, FS_EmptySet

\* What a glyph that a thread has just rendered means for what is counted.
LEMMA NewIsCounted ==
    ASSUME GlyphsInv, NEW t \in Threads, NEW g \in Glyphs!Fresh, NEW k \in GlyphKeys,
           held' = [held EXCEPT ![t] = @ \cup {g}]
    PROVE  /\ held' \in [Threads -> SUBSET Glyphs!Pool]
           /\ \A x \in Glyphs!Pool : IsFiniteSet(Holders(held', x))
           /\ Cardinality(Holders(held', g)) = 1
           /\ \A x \in Glyphs!Pool \ {g} : Holders(held', x) = Holders(held, x)
           /\ \A s \in Threads \ {t} : held'[s] = held[s] /\ g \notin held[s]
<1>1. g \in Glyphs!Pool /\ Holders(held, g) = {} BY FreshIsFree
<1>2. held \in [Threads -> SUBSET Glyphs!Pool] BY DEF GlyphsInv, Glyphs!TypeOK
<1>3. /\ held' \in [Threads -> SUBSET Glyphs!Pool]
      /\ Holders(held', g) = Holders(held, g) \cup {t}
      /\ \A x \in Glyphs!Pool \ {g} : Holders(held', x) = Holders(held, x)
      /\ \A s \in Threads \ {t} : held'[s] = held[s]
  BY <1>1, <1>2 DEF Holders
<1>4. Holders(held', g) = {t} BY <1>1, <1>3
<1>5. IsFiniteSet({t}) /\ Cardinality({t}) = 1 BY FS_Singleton
<1>6. \A x \in Glyphs!Pool : IsFiniteSet(Holders(held, x)) BY DEF GlyphsInv, Counted
<1>7. \A s \in Threads : g \notin held[s] BY <1>1 DEF Holders
<1>. QED BY <1>3, <1>4, <1>5, <1>6, <1>7

\* A rendering that is not cached.
LEMMA KeptKeeps ==
    ASSUME GlyphsInv, NEW t \in Threads, NEW g \in Glyphs!Fresh, NEW k \in GlyphKeys,
           Glyphs!Keep(t, g, k), drawing' = [drawing EXCEPT ![t] = NoKey], ctxs' = ctxs
    PROVE  GlyphsInv'
<1>1. /\ glyphs' = [glyphs EXCEPT ![g] = k] /\ refs' = [refs EXCEPT ![g] = 1]
      /\ held' = [held EXCEPT ![t] = @ \cup {g}]
      /\ lru' = lru /\ chain' = chain /\ total' = total
  BY DEF Glyphs!Keep, Glyphs!cache
<1>2. /\ g \in Glyphs!Pool /\ glyphs[g] = NoKey /\ g \notin Range(lru) BY FreshIsFree
<1>3. /\ held' \in [Threads -> SUBSET Glyphs!Pool]
      /\ \A x \in Glyphs!Pool : IsFiniteSet(Holders(held', x))
      /\ Cardinality(Holders(held', g)) = 1
      /\ \A x \in Glyphs!Pool \ {g} : Holders(held', x) = Holders(held, x)
      /\ \A s \in Threads \ {t} : held'[s] = held[s] /\ g \notin held[s]
  BY <1>1, NewIsCounted
<1>4. /\ glyphs \in [Glyphs!Pool -> GlyphKeys \cup {NoKey}]
      /\ refs \in [Glyphs!Pool -> Nat] /\ drawing \in [Threads -> Type3 \cup {NoKey}]
  BY DEF GlyphsInv, Glyphs!TypeOK
<1>5. /\ \A x \in Glyphs!Pool \ {g} : glyphs'[x] = glyphs[x] /\ refs'[x] = refs[x]
      /\ glyphs'[g] = k /\ refs'[g] = 1 /\ k # NoKey
  BY <1>1, <1>2, <1>4, GlyphsTypes
<1>6. \A x \in Range(lru) : glyphs'[x] = glyphs[x] BY <1>2, <1>5, GlyphsTypes
<1>7. Glyphs!TypeOK'
  <2>1. glyphs' \in [Glyphs!Pool -> GlyphKeys \cup {NoKey}] /\ refs' \in [Glyphs!Pool -> Nat]
    BY <1>1, <1>4
  <2>2. drawing' \in [Threads -> Type3 \cup {NoKey}] BY <1>4
  <2>. QED BY <1>1, <1>3, <2>1, <2>2 DEF GlyphsInv, Glyphs!TypeOK
<1>8. Listed(glyphs', lru') BY <1>1, <1>6 DEF GlyphsInv, Listed
<1>9. Chained(glyphs', lru', chain') BY <1>1, <1>6 DEF GlyphsInv, Chained
<1>10. total' = Total(Weight(glyphs'), Range(lru')) /\ total' <= MaxTotal
  <2>1. \A x \in Range(lru) : Weight(glyphs)[x] = Weight(glyphs')[x]
    BY <1>6, GlyphsTypes DEF Weight
  <2>2. IsFiniteSet(Range(lru)) /\ Weights(Weight(glyphs), Range(lru)) BY GlyphsTypes
  <2>3. Total(Weight(glyphs), Range(lru)) = Total(Weight(glyphs'), Range(lru))
    BY <2>1, <2>2, TotalSame
  <2>. QED BY <1>1, <2>3 DEF GlyphsInv
<1>11. Counted(glyphs', refs', lru', held')
  <2>. SUFFICES ASSUME NEW x \in Glyphs!Pool
                PROVE  /\ refs'[x] = Cardinality(Holders(held', x))
                                     + (IF x \in Range(lru) THEN 1 ELSE 0)
                       /\ glyphs'[x] = NoKey <=> refs'[x] = 0
    BY <1>1, <1>3 DEF Counted
  <2>1. CASE x = g BY <1>2, <1>3, <1>5, <2>1
  <2>2. CASE x # g BY <1>3, <1>5, <2>2 DEF GlyphsInv, Counted
  <2>. QED BY <2>1, <2>2
<1>12. DrawsAnew'
  <2>1. \A s \in Threads : drawing'[s] # NoKey => s # t /\ drawing'[s] = drawing[s] BY <1>4
  <2>2. held \in [Threads -> SUBSET Glyphs!Pool] BY DEF GlyphsInv, Glyphs!TypeOK
  <2>. QED BY <1>3, <1>5, <2>1, <2>2 DEF GlyphsInv, DrawsAnew
<1>. QED BY <1>7, <1>8, <1>9, <1>10, <1>11, <1>12 DEF GlyphsInv


\* What is left in the cache when a glyph was put into it and others went.
Encached(g, k, gone) ==
    LET of == [glyphs EXCEPT ![g] = k]
        count == [refs EXCEPT ![g] = 2]
    IN  /\ lru' \in Seq(Glyphs!Pool) /\ Distinct(lru')
        /\ Range(lru') = ({g} \cup Range(lru)) \ gone /\ gone \subseteq {g} \cup Range(lru)
        /\ total' = Total(Weight(of), Range(lru')) /\ total' \in Nat /\ total' <= MaxTotal
        /\ chain' = [b \in Glyphs!Chains |->
                        Without(IF b = Bucket[k] THEN <<g>> \o chain[b] ELSE chain[b], gone)]
        /\ refs' = [h \in Glyphs!Pool |-> IF h \in gone THEN count[h] - 1 ELSE count[h]]
        /\ glyphs' = [h \in Glyphs!Pool |-> IF h \in gone /\ count[h] = 1 THEN NoKey ELSE of[h]]

LEMMA EncacheMakesRoom ==
    ASSUME GlyphsInv, NEW t \in Threads, NEW g \in Glyphs!Fresh, NEW k \in GlyphKeys,
           Glyphs!Encache(t, g, k)
    PROVE  \E gone : Encached(g, k, gone)
<1>. DEFINE of == [glyphs EXCEPT ![g] = k]
            w == Weight(of)
            q == <<g>> \o lru
            Gone(n) == Range(SubSeq(q, n + 1, Len(q)))
            Fits(n) == total + Bytes[k] - Glyphs!BytesOf(Gone(n), of) <= MaxTotal
            S == {i \in 0 .. Len(q) : i = 0 \/ Fits(i)}
            n == Max(S)
            R == {g} \cup Range(lru)
<1>1. /\ g \in Glyphs!Pool /\ g \notin Range(lru)
      /\ lru \in Seq(Glyphs!Pool) /\ Distinct(lru)
      /\ glyphs \in [Glyphs!Pool -> GlyphKeys \cup {NoKey}]
  BY FreshIsFree, GlyphsTypes DEF GlyphsInv, Listed, Glyphs!TypeOK
<1>2. q \in Seq(Glyphs!Pool) /\ Distinct(q) /\ Range(q) = R /\ Len(q) \in Nat
  BY <1>1, FrontAdded
<1>3. /\ lru' = SubSeq(q, 1, n)
      /\ chain' = [b \in Glyphs!Chains |->
            Without(IF b = Bucket[k] THEN <<g>> \o chain[b] ELSE chain[b], Gone(n))]
      /\ total' = total + Bytes[k] - Glyphs!BytesOf(Gone(n), of)
      /\ refs' = [h \in Glyphs!Pool |-> IF h \in Gone(n) THEN [refs EXCEPT ![g] = 2][h] - 1
                                        ELSE [refs EXCEPT ![g] = 2][h]]
      /\ glyphs' = [h \in Glyphs!Pool |->
            IF h \in Gone(n) /\ [refs EXCEPT ![g] = 2][h] = 1 THEN NoKey ELSE of[h]]
  <2>. DEFINE gone(i) == Glyphs!Range(SubSeq(q, i + 1, Len(q)))
              fits(i) == total + Bytes[k] - Glyphs!BytesOf(gone(i), of) <= MaxTotal
              s == {i \in 0 .. Len(q) : i = 0 \/ fits(i)}
              m == Glyphs!Max(s)
  <2>1. \A i : gone(i) = Gone(i) BY GlyphsOperators
  <2>2. s = S
    <3>. HIDE DEF gone, Gone, q, of
    <3>. QED BY <2>1
  <2>3. m = n
    <3>. HIDE DEF s, S
    <3>. QED BY <2>2, GlyphsOperators
  <2>4. /\ lru' = SubSeq(q, 1, m)
        /\ chain' = [b \in Glyphs!Chains |->
              Glyphs!Without(IF b = Bucket[k] THEN <<g>> \o chain[b] ELSE chain[b], gone(m))]
        /\ total' = total + Bytes[k] - Glyphs!BytesOf(gone(m), of)
        /\ refs' = [h \in Glyphs!Pool |-> IF h \in gone(m) THEN [refs EXCEPT ![g] = 2][h] - 1
                                          ELSE [refs EXCEPT ![g] = 2][h]]
        /\ glyphs' = [h \in Glyphs!Pool |->
              IF h \in gone(m) /\ [refs EXCEPT ![g] = 2][h] = 1 THEN NoKey ELSE of[h]]
    BY DEF Glyphs!Encache
  <2>5. gone(m) = Gone(n)
    <3>. HIDE DEF m, n, gone, Gone
    <3>. QED BY <2>1, <2>3
  <2>. HIDE DEF m, n, gone, Gone, of, q
  <2>6. lru' = SubSeq(q, 1, n) BY <2>3, <2>4
  <2>7. total' = total + Bytes[k] - Glyphs!BytesOf(Gone(n), of) BY <2>4, <2>5
  <2>8. chain' = [b \in Glyphs!Chains |->
            Without(IF b = Bucket[k] THEN <<g>> \o chain[b] ELSE chain[b], Gone(n))]
    BY <2>4, <2>5, GlyphsOperators
  <2>9. refs' = [h \in Glyphs!Pool |-> IF h \in Gone(n) THEN [refs EXCEPT ![g] = 2][h] - 1
                                        ELSE [refs EXCEPT ![g] = 2][h]]
    BY <2>4, <2>5
  <2>10. glyphs' = [h \in Glyphs!Pool |->
            IF h \in Gone(n) /\ [refs EXCEPT ![g] = 2][h] = 1 THEN NoKey ELSE of[h]]
    BY <2>4, <2>5
  <2>. QED BY <2>6, <2>7, <2>8, <2>9, <2>10
<1>. HIDE DEF q
<1>4. n \in S
  <2>. HIDE DEF Fits
  <2>1. S \in SUBSET (0 .. Len(q)) /\ 0 \in S BY <1>2
  <2>. HIDE DEF S
  <2>. QED BY <1>2, <2>1, MaxIsGreatest
<1>5. n \in 0 .. Len(q) /\ (n = 0 \/ Fits(n)) BY <1>4
<1>. HIDE DEF n
<1>6. Gone(n) = {q[j] : j \in n + 1 .. Len(q)} BY <1>2, <1>5, TailRange
<1>7. Without(q, Gone(n)) = SubSeq(q, 1, n) BY <1>2, <1>5, <1>6, WithoutEnds
<1>8. lru' \in Seq(Glyphs!Pool) /\ Distinct(lru') /\ Range(lru') = R \ Gone(n)
  <2>1. lru' = Without(q, Gone(n)) BY <1>3, <1>7
  <2>. HIDE DEF Gone, R
  <2>2. /\ Without(q, Gone(n)) \in Seq(Glyphs!Pool)
        /\ Range(Without(q, Gone(n))) = Range(q) \ Gone(n)
    BY <1>2, WithoutType
  <2>3. Distinct(Without(q, Gone(n))) BY <1>2, WithoutDistinct
  <2>. QED BY <1>2, <2>1, <2>2, <2>3
<1>9. Gone(n) \subseteq R
  <2>1. ASSUME NEW j \in n + 1 .. Len(q) PROVE q[j] \in Range(q)
    <3>1. j \in DOMAIN q BY <1>2, <1>5
    <3>. QED BY <3>1 DEF Range
  <2>. QED BY <1>2, <1>6, <2>1
<1>10. IsFiniteSet(R) /\ Weights(w, R) /\ total + Bytes[k] = Total(w, R) /\ total + Bytes[k] \in Nat
  <2>1. /\ IsFiniteSet(Range(lru)) /\ Range(lru) \subseteq Glyphs!Pool
        /\ Weights(Weight(glyphs), Range(lru)) /\ total \in Nat
        /\ Bytes[k] \in Nat /\ total = Total(Weight(glyphs), Range(lru))
    BY GlyphsTypes DEF GlyphsInv
  <2>2. \A x \in Range(lru) : Weight(glyphs)[x] = w[x] BY <1>1, <2>1 DEF Weight
  <2>3. w[g] = Bytes[k] BY <1>1 DEF Weight
  <2>. HIDE DEF w
  <2>4. Total(Weight(glyphs), Range(lru)) = Total(w, Range(lru)) BY <2>1, <2>2, TotalSame
  <2>5. Weights(w, Range(lru) \cup {g}) BY <2>1, <2>2, <2>3 DEF Weights
  <2>6. Total(w, Range(lru) \cup {g}) = w[g] + Total(w, Range(lru))
    BY <1>1, <2>1, <2>5, TotalAdd
  <2>7. R = Range(lru) \cup {g} OBVIOUS
  <2>8. IsFiniteSet(R) BY <2>1, <2>7, FS_AddElement
  <2>. HIDE DEF R
  <2>9. Weights(w, R) BY <2>5, <2>7
  <2>10. Total(w, R) = Bytes[k] + total BY <2>1, <2>3, <2>4, <2>6, <2>7
  <2>11. total + Bytes[k] = Bytes[k] + total /\ total + Bytes[k] \in Nat BY <2>1
  <2>. QED BY <2>8, <2>9, <2>10, <2>11
<1>. DEFINE G == Gone(n)
<1>11. Glyphs!BytesOf(G, of) = Total(w, G)
  <2>. DEFINE v == [h \in G |-> Bytes[of[h]]]
  <2>1. Glyphs!BytesOf(G, of) = Total(v, G) BY GlyphsOperators
  <2>2. IsFiniteSet(G) /\ Weights(w, G) BY <1>9, <1>10, FS_Subset DEF Weights
  <2>3. \A x \in G : w[x] = v[x]
    <3>1. G \subseteq Glyphs!Pool BY <1>1, <1>9, GlyphsTypes
    <3>. HIDE DEF G, of
    <3>. QED BY <3>1 DEF Weight
  <2>. HIDE DEF v, w, G
  <2>4. Total(w, G) = Total(v, G) BY <2>2, <2>3, TotalSame
  <2>. QED BY <2>1, <2>4
<1>12. total' = Total(w, R \ G) /\ total' \in Nat
  <2>1. total' = Total(w, R) - Total(w, G)
    <3>. DEFINE x == Glyphs!BytesOf(G, of)
                y == Total(w, R)  z == Total(w, G)
    <3>1. total' = total + Bytes[k] - x BY <1>3
    <3>2. total + Bytes[k] = y BY <1>10
    <3>3. x = z BY <1>11
    <3>4. z \in Nat
      <4>1. G \in SUBSET R BY <1>9
      <4>. HIDE DEF G, w, R
      <4>. QED BY <1>10, <4>1, TotalMinus
    <3>5. total \in Nat /\ Bytes[k] \in Nat BY GlyphsTypes
    <3>. HIDE DEF x, y, z
    <3>6. total' = y - z BY <3>1, <3>2, <3>3, <3>4, <3>5
    <3>. QED BY <3>6 DEF y, z
  <2>2. G \in SUBSET R BY <1>9
  <2>. HIDE DEF G, w, R, of
  <2>3. Total(w, R \ G) = Total(w, R) - Total(w, G) /\ Total(w, R \ G) \in Nat
    BY <1>10, <2>2, TotalMinus
  <2>. QED BY <2>1, <2>3
<1>13. total' <= MaxTotal
  <2>1. CASE n = 0
    <3>1. G = R
      <4>1. DOMAIN q = 1 .. Len(q) BY <1>2
      <4>2. Range(q) = {q[j] : j \in 1 .. Len(q)} BY <4>1 DEF Range
      <4>. QED BY <1>2, <1>6, <2>1, <4>2
    <3>2. R \ G = {} BY <3>1
    <3>. HIDE DEF R, G, w
    <3>3. total' = 0 BY <1>12, <3>2, TotalEmpty
    <3>. QED BY <3>3, GlyphsTypes
  <2>2. CASE Fits(n) BY <1>3, <2>2
  <2>. QED BY <1>5, <2>1, <2>2
<1>14. Encached(g, k, G)
  <2>1. Range(lru') = R \ G BY <1>8
  <2>2. total' = Total(w, Range(lru')) BY <1>12, <2>1
  <2>3. G \subseteq R BY <1>9
  <2>4. /\ chain' = [b \in Glyphs!Chains |->
              Without(IF b = Bucket[k] THEN <<g>> \o chain[b] ELSE chain[b], G)]
        /\ refs' = [h \in Glyphs!Pool |-> IF h \in G THEN [refs EXCEPT ![g] = 2][h] - 1
                                          ELSE [refs EXCEPT ![g] = 2][h]]
        /\ glyphs' = [h \in Glyphs!Pool |->
              IF h \in G /\ [refs EXCEPT ![g] = 2][h] = 1 THEN NoKey ELSE of[h]]
    BY <1>3
  <2>. HIDE DEF G
  <2>. QED BY <1>8, <1>12, <1>13, <2>1, <2>2, <2>3, <2>4 DEF Encached
<1>. QED BY <1>14


\* A rendering of a key that is not cached yet.
LEMMA EncacheKeeps ==
    ASSUME GlyphsInv, NEW t \in Threads, NEW g \in Glyphs!Fresh, NEW k \in GlyphKeys,
           Glyphs!Cached(k) = {}, Glyphs!Encache(t, g, k),
           drawing' = [drawing EXCEPT ![t] = NoKey], ctxs' = ctxs
    PROVE  GlyphsInv'
<1>. DEFINE of == [glyphs EXCEPT ![g] = k]
            count == [refs EXCEPT ![g] = 2]
            R == {g} \cup Range(lru)
<1>1. PICK gone : Encached(g, k, gone) BY EncacheMakesRoom
<1>2. /\ lru' \in Seq(Glyphs!Pool) /\ Distinct(lru') /\ Range(lru') = R \ gone
      /\ gone \subseteq R
      /\ total' = Total(Weight(of), Range(lru')) /\ total' \in Nat /\ total' <= MaxTotal
      /\ chain' = [b \in Glyphs!Chains |->
                      Without(IF b = Bucket[k] THEN <<g>> \o chain[b] ELSE chain[b], gone)]
      /\ refs' = [h \in Glyphs!Pool |-> IF h \in gone THEN count[h] - 1 ELSE count[h]]
      /\ glyphs' = [h \in Glyphs!Pool |-> IF h \in gone /\ count[h] = 1 THEN NoKey ELSE of[h]]
  BY <1>1 DEF Encached
<1>3. /\ g \in Glyphs!Pool /\ glyphs[g] = NoKey /\ g \notin Range(lru) BY FreshIsFree
<1>4. /\ glyphs \in [Glyphs!Pool -> GlyphKeys \cup {NoKey}]
      /\ refs \in [Glyphs!Pool -> Nat] /\ drawing \in [Threads -> Type3 \cup {NoKey}]
      /\ lru \in Seq(Glyphs!Pool) /\ Range(lru) \subseteq Glyphs!Pool
      /\ k # NoKey /\ NoKey \notin GlyphKeys /\ Type3 \subseteq GlyphKeys
  BY GlyphsTypes DEF GlyphsInv, Glyphs!TypeOK
<1>5. held' = [held EXCEPT ![t] = @ \cup {g}] BY DEF Glyphs!Encache
<1>6. /\ held' \in [Threads -> SUBSET Glyphs!Pool]
      /\ \A x \in Glyphs!Pool : IsFiniteSet(Holders(held', x))
      /\ Cardinality(Holders(held', g)) = 1
      /\ \A x \in Glyphs!Pool \ {g} : Holders(held', x) = Holders(held, x)
      /\ \A s \in Threads \ {t} : held'[s] = held[s] /\ g \notin held[s]
  BY <1>5, NewIsCounted
<1>7. /\ of[g] = k /\ \A x \in Glyphs!Pool \ {g} : of[x] = glyphs[x]
      /\ count[g] = 2 /\ \A x \in Glyphs!Pool \ {g} : count[x] = refs[x]
      /\ of \in [Glyphs!Pool -> GlyphKeys \cup {NoKey}] /\ count \in [Glyphs!Pool -> Nat]
  BY <1>3, <1>4
<1>. HIDE DEF of, count
<1>8. /\ \A x \in Glyphs!Pool : /\ refs'[x] = IF x \in gone THEN count[x] - 1 ELSE count[x]
                                /\ glyphs'[x] = IF x \in gone /\ count[x] = 1 THEN NoKey ELSE of[x]
      /\ \A x \in Range(lru') : x \in Glyphs!Pool /\ glyphs'[x] = of[x]
  BY <1>2, <1>3, <1>4
<1>9. \A x \in Range(lru) : x # g /\ of[x] = glyphs[x] /\ glyphs[x] \in GlyphKeys /\ glyphs[x] # k
  <2>1. \A x \in Range(lru) : glyphs[x] # k BY CachedAre
  <2>2. \A x \in Range(lru) : glyphs[x] \in GlyphKeys BY DEF GlyphsInv, Listed
  <2>. QED BY <1>3, <1>4, <1>7, <2>1, <2>2
<1>10. /\ \A x \in R : of[x] \in GlyphKeys
       /\ \A x, y \in R : of[x] = of[y] => x = y
  <2>1. \A x, y \in Range(lru) : glyphs[x] = glyphs[y] => x = y BY DEF GlyphsInv, Listed
  <2>. QED BY <1>7, <1>9, <2>1
<1>11. \A x \in gone : count[x] \in Nat \ {0}
  <2>. SUFFICES ASSUME NEW x \in gone PROVE count[x] \in Nat \ {0} OBVIOUS
  <2>1. CASE x = g BY <1>7, <2>1
  <2>2. CASE x # g
    <3>1. x \in Range(lru) /\ x \in Glyphs!Pool BY <1>2, <1>4, <2>2
    <3>2. refs[x] # 0 BY <1>4, <1>9, <3>1 DEF GlyphsInv, Counted
    <3>. QED BY <1>4, <1>7, <2>2, <3>1, <3>2
  <2>. QED BY <2>1, <2>2
<1>12. Glyphs!TypeOK'
  <2>1. refs' \in [Glyphs!Pool -> Nat]
    <3>1. \A x \in Glyphs!Pool : (IF x \in gone THEN count[x] - 1 ELSE count[x]) \in Nat
      BY <1>7, <1>11
    <3>. QED BY <1>2, <3>1
  <2>2. glyphs' \in [Glyphs!Pool -> GlyphKeys \cup {NoKey}] BY <1>2, <1>7
  <2>3. chain' \in [Glyphs!Chains -> Seq(Glyphs!Pool)]
    <3>. SUFFICES ASSUME NEW b \in Glyphs!Chains
                  PROVE  Without(IF b = Bucket[k] THEN <<g>> \o chain[b] ELSE chain[b], gone)
                            \in Seq(Glyphs!Pool)
      BY <1>2
    <3>1. chain[b] \in Seq(Glyphs!Pool) BY GlyphsTypes
    <3>2. <<g>> \o chain[b] \in Seq(Glyphs!Pool) BY <1>3, <3>1
    <3>. QED BY <3>1, <3>2, WithoutType
  <2>4. drawing' \in [Threads -> Type3 \cup {NoKey}] BY <1>4
  <2>5. ctxs' \subseteq Threads BY DEF GlyphsInv, Glyphs!TypeOK
  <2>. QED BY <1>2, <1>6, <2>1, <2>2, <2>3, <2>4, <2>5 DEF Glyphs!TypeOK
<1>13. Listed(glyphs', lru')
  <2>1. \A x \in Range(lru') : x \in R BY <1>2
  <2>2. \A x \in Range(lru') : glyphs'[x] \in GlyphKeys BY <1>8, <1>10, <2>1
  <2>3. \A x, y \in Range(lru') : glyphs'[x] = glyphs'[y] => x = y BY <1>8, <1>10, <2>1
  <2>. QED BY <1>2, <2>2, <2>3 DEF Listed
<1>14. Chained(glyphs', lru', chain')
  <2>. SUFFICES ASSUME NEW b \in Glyphs!Chains
                PROVE  Range(chain'[b]) = {x \in Range(lru') : Bucket[glyphs'[x]] = b}
    BY DEF Chained
  <2>. DEFINE s == IF b = Bucket[k] THEN <<g>> \o chain[b] ELSE chain[b]
  <2>1. chain'[b] = Without(s, gone) BY <1>2
  <2>2. chain[b] \in Seq(Glyphs!Pool) BY GlyphsTypes
  <2>3. Range(chain[b]) = {x \in Range(lru) : Bucket[glyphs[x]] = b}
    BY DEF GlyphsInv, Chained
  <2>4. s \in Seq(Glyphs!Pool) /\ Range(s) = {x \in R : Bucket[of[x]] = b}
    <3>1. CASE b = Bucket[k]
      <4>1. Range(<<g>> \o chain[b]) = {g} \cup Range(chain[b])
        BY <1>3, <2>2, FrontRange
      <4>2. <<g>> \o chain[b] \in Seq(Glyphs!Pool) BY <1>3, <2>2
      <4>3. s = <<g>> \o chain[b] BY <3>1
      <4>. HIDE DEF s
      <4>. QED BY <1>7, <1>9, <2>3, <3>1, <4>1, <4>2, <4>3
    <3>2. CASE b # Bucket[k]
      <4>1. s = chain[b] BY <3>2
      <4>. HIDE DEF s
      <4>. QED BY <1>7, <1>9, <2>2, <2>3, <3>2, <4>1
    <3>. QED BY <3>1, <3>2
  <2>. HIDE DEF s
  <2>5. Range(chain'[b]) = Range(s) \ gone BY <2>1, <2>4, WithoutType
  <2>. QED BY <1>2, <1>8, <2>4, <2>5
<1>15. total' = Total(Weight(glyphs'), Range(lru'))
  <2>1. IsFiniteSet(Range(lru')) BY <1>2, DistinctLength
  <2>2. \A x \in Range(lru') : Weight(of)[x] = Weight(glyphs')[x] BY <1>8 DEF Weight
  <2>3. Weights(Weight(of), Range(lru'))
    <3>. SUFFICES ASSUME NEW x \in Range(lru') PROVE Weight(of)[x] \in Nat BY DEF Weights
    <3>1. of[x] \in GlyphKeys /\ x \in Glyphs!Pool BY <1>2, <1>8, <1>10
    <3>2. Bytes[of[x]] \in Nat BY <3>1, GlyphsTypes
    <3>. QED BY <3>1, <3>2 DEF Weight
  <2>4. Total(Weight(of), Range(lru')) = Total(Weight(glyphs'), Range(lru'))
    BY <2>1, <2>2, <2>3, TotalSame
  <2>. QED BY <1>2, <2>4
<1>16. Counted(glyphs', refs', lru', held')
  <2>. SUFFICES ASSUME NEW x \in Glyphs!Pool
                PROVE  /\ refs'[x] = Cardinality(Holders(held', x))
                                     + (IF x \in Range(lru') THEN 1 ELSE 0)
                       /\ glyphs'[x] = NoKey <=> refs'[x] = 0
    BY <1>6 DEF Counted
  <2>1. CASE x = g
    <3>1. count[x] = 2 /\ of[x] = k BY <1>7, <2>1
    <3>2. x \in Range(lru') <=> x \notin gone BY <1>2, <2>1
    <3>3. refs'[x] = IF x \in gone THEN 1 ELSE 2 BY <1>8, <3>1
    <3>4. glyphs'[x] = k BY <1>8, <3>1
    <3>. QED BY <1>4, <1>6, <2>1, <3>2, <3>3, <3>4
  <2>2. CASE x # g
    <3>1. count[x] = refs[x] /\ of[x] = glyphs[x] /\ Holders(held', x) = Holders(held, x)
      BY <1>6, <1>7, <2>2
    <3>2. /\ IsFiniteSet(Holders(held, x))
          /\ refs[x] = Cardinality(Holders(held, x)) + (IF x \in Range(lru) THEN 1 ELSE 0)
          /\ glyphs[x] = NoKey <=> refs[x] = 0
      BY DEF GlyphsInv, Counted
    <3>3. Cardinality(Holders(held, x)) \in Nat BY <3>2, FS_CardinalityType
    <3>4. x \in Range(lru') <=> x \in Range(lru) /\ x \notin gone BY <1>2, <2>2
    <3>5. x \in gone => x \in Range(lru) BY <1>2, <2>2
    <3>6. refs'[x] = IF x \in gone THEN refs[x] - 1 ELSE refs[x] BY <1>8, <3>1
    <3>7. glyphs'[x] = IF x \in gone /\ refs[x] = 1 THEN NoKey ELSE glyphs[x] BY <1>8, <3>1
    <3>. QED BY <3>1, <3>2, <3>3, <3>4, <3>5, <3>6, <3>7
  <2>. QED BY <2>1, <2>2
<1>17. DrawsAnew'
  <2>. SUFFICES ASSUME NEW s \in Threads, drawing'[s] # NoKey, NEW x \in held'[s]
                PROVE  glyphs'[x] # drawing'[s]
    BY DEF DrawsAnew
  <2>1. s # t /\ drawing'[s] = drawing[s] BY <1>4
  <2>2. x \in held[s] /\ x # g BY <1>6, <2>1
  <2>3. held[s] \subseteq Glyphs!Pool BY DEF GlyphsInv, Glyphs!TypeOK
  <2>4. glyphs[x] # drawing[s] BY <2>1, <2>2 DEF GlyphsInv, DrawsAnew
  <2>. QED BY <1>7, <1>8, <2>1, <2>2, <2>3, <2>4
<1>. QED BY <1>2, <1>12, <1>13, <1>14, <1>15, <1>16, <1>17 DEF GlyphsInv


\* A thread gives its reference back.
LEMMA PaintedKeeps ==
    ASSUME GlyphsInv, NEW t \in Threads, NEW g \in Glyphs!Pool, Glyphs!Painted(t, g)
    PROVE  GlyphsInv'
<1>1. /\ g \in held[t] /\ held' = [held EXCEPT ![t] = @ \ {g}]
      /\ refs' = [x \in Glyphs!Pool |-> IF x \in {g} THEN refs[x] - 1 ELSE refs[x]]
      /\ glyphs' = [x \in Glyphs!Pool |->
                       IF x \in {g} /\ refs[x] = 1 THEN NoKey ELSE glyphs[x]]
      /\ lru' = lru /\ chain' = chain /\ total' = total
      /\ drawing' = drawing /\ ctxs' = ctxs
  BY DEF Glyphs!Painted, Glyphs!Release, Glyphs!cache
<1>2. /\ glyphs \in [Glyphs!Pool -> GlyphKeys \cup {NoKey}]
      /\ refs \in [Glyphs!Pool -> Nat] /\ held \in [Threads -> SUBSET Glyphs!Pool]
      /\ drawing \in [Threads -> Type3 \cup {NoKey}]
      /\ Range(lru) \subseteq Glyphs!Pool /\ NoKey \notin GlyphKeys
      /\ Type3 \subseteq GlyphKeys
  BY GlyphsTypes DEF GlyphsInv, Glyphs!TypeOK
<1>3. /\ held' \in [Threads -> SUBSET Glyphs!Pool]
      /\ Holders(held', g) = Holders(held, g) \ {t} /\ t \in Holders(held, g)
      /\ \A x \in Glyphs!Pool \ {g} : Holders(held', x) = Holders(held, x)
      /\ \A s \in Threads : held'[s] \subseteq held[s]
  BY <1>1, <1>2 DEF Holders
<1>4. \A x \in Glyphs!Pool :
         /\ IsFiniteSet(Holders(held, x)) /\ Cardinality(Holders(held, x)) \in Nat
         /\ refs[x] = Cardinality(Holders(held, x)) + (IF x \in Range(lru) THEN 1 ELSE 0)
         /\ glyphs[x] = NoKey <=> refs[x] = 0
  BY FS_CardinalityType DEF GlyphsInv, Counted
<1>5. /\ IsFiniteSet(Holders(held', g))
      /\ Cardinality(Holders(held', g)) = Cardinality(Holders(held, g)) - 1
      /\ Cardinality(Holders(held, g)) \in Nat \ {0}
  BY <1>3, <1>4, SmallerSet
<1>6. \A x \in Range(lru) : glyphs'[x] = glyphs[x]
  <2>. SUFFICES ASSUME NEW x \in Range(lru) PROVE glyphs'[x] = glyphs[x] OBVIOUS
  <2>1. x \in Glyphs!Pool BY <1>2
  <2>2. ASSUME x = g PROVE refs[x] # 1
    <3>1. refs[g] = Cardinality(Holders(held, g)) + 1 BY <1>4, <2>2
    <3>. QED BY <1>5, <2>2, <3>1
  <2>. QED BY <1>1, <2>1, <2>2
<1>7. Glyphs!TypeOK'
  <2>1. refs[g] # 0 BY <1>4, <1>5
  <2>2. refs' \in [Glyphs!Pool -> Nat] BY <1>1, <1>2, <2>1
  <2>3. glyphs' \in [Glyphs!Pool -> GlyphKeys \cup {NoKey}] BY <1>1, <1>2
  <2>. QED BY <1>1, <1>3, <2>2, <2>3 DEF GlyphsInv, Glyphs!TypeOK
<1>8. Listed(glyphs', lru') BY <1>1, <1>6 DEF GlyphsInv, Listed
<1>9. Chained(glyphs', lru', chain') BY <1>1, <1>6 DEF GlyphsInv, Chained
<1>10. total' = Total(Weight(glyphs'), Range(lru')) /\ total' <= MaxTotal
  <2>1. \A x \in Range(lru) : Weight(glyphs)[x] = Weight(glyphs')[x]
    BY <1>2, <1>6 DEF Weight
  <2>2. IsFiniteSet(Range(lru)) /\ Weights(Weight(glyphs), Range(lru)) BY GlyphsTypes
  <2>3. Total(Weight(glyphs), Range(lru)) = Total(Weight(glyphs'), Range(lru))
    BY <2>1, <2>2, TotalSame
  <2>. QED BY <1>1, <2>3 DEF GlyphsInv
<1>11. Counted(glyphs', refs', lru', held')
  <2>. SUFFICES ASSUME NEW x \in Glyphs!Pool
                PROVE  /\ IsFiniteSet(Holders(held', x))
                       /\ refs'[x] = Cardinality(Holders(held', x))
                                     + (IF x \in Range(lru') THEN 1 ELSE 0)
                       /\ glyphs'[x] = NoKey <=> refs'[x] = 0
    BY DEF Counted
  <2>1. CASE x = g
    <3>1. refs'[x] = refs[x] - 1 BY <1>1, <2>1
    <3>2. glyphs'[x] = IF refs[x] = 1 THEN NoKey ELSE glyphs[x] BY <1>1, <2>1
    <3>. QED BY <1>1, <1>4, <1>5, <2>1, <3>1, <3>2
  <2>2. CASE x # g BY <1>1, <1>3, <1>4, <2>2
  <2>. QED BY <2>1, <2>2
<1>12. DrawsAnew'
  <2>. SUFFICES ASSUME NEW s \in Threads, drawing'[s] # NoKey, NEW x \in held'[s]
                PROVE  glyphs'[x] # drawing'[s]
    BY DEF DrawsAnew
  <2>1. x \in held[s] /\ x \in Glyphs!Pool BY <1>2, <1>3
  <2>2. glyphs[x] # drawing[s] /\ drawing[s] # NoKey BY <1>1, <2>1 DEF GlyphsInv, DrawsAnew
  <2>. QED BY <1>1, <2>1, <2>2
<1>. QED BY <1>7, <1>8, <1>9, <1>10, <1>11, <1>12 DEF GlyphsInv

\* The cache is emptied.
LEMMA PurgedKeeps ==
    ASSUME GlyphsInv, Glyphs!Purged, held' = held, drawing' = drawing, ctxs' \subseteq ctxs
    PROVE  GlyphsInv'
<1>. DEFINE G == UNION {Range(chain[b]) : b \in Glyphs!Chains}
<1>1. /\ lru' = <<>> /\ chain' = [b \in Glyphs!Chains |-> <<>>] /\ total' = 0
      /\ refs' = [x \in Glyphs!Pool |-> IF x \in G THEN refs[x] - 1 ELSE refs[x]]
      /\ glyphs' = [x \in Glyphs!Pool |-> IF x \in G /\ refs[x] = 1 THEN NoKey ELSE glyphs[x]]
  <2>. DEFINE H == UNION {Glyphs!Range(chain[b]) : b \in Glyphs!Chains}
  <2>1. H = G BY GlyphsOperators
  <2>2. /\ lru' = <<>> /\ chain' = [b \in Glyphs!Chains |-> <<>>] /\ total' = 0
        /\ Glyphs!Release(H)
    BY DEF Glyphs!Purged
  <2>. HIDE DEF G, H
  <2>. QED BY <2>1, <2>2 DEF Glyphs!Release
<1>2. G = Range(lru)
  <2>1. \A b \in Glyphs!Chains : Range(chain[b]) \subseteq Range(lru) BY GlyphsTypes
  <2>2. ASSUME NEW x \in Range(lru) PROVE x \in G
    <3>1. glyphs[x] \in GlyphKeys BY DEF GlyphsInv, Listed
    <3>2. Bucket[glyphs[x]] \in Glyphs!Chains BY <3>1, GlyphsTypes
    <3>3. x \in Range(chain[Bucket[glyphs[x]]]) BY <3>2 DEF GlyphsInv, Chained
    <3>. QED BY <3>2, <3>3
  <2>. QED BY <2>1, <2>2
<1>. HIDE DEF G
<1>3. /\ glyphs \in [Glyphs!Pool -> GlyphKeys \cup {NoKey}]
      /\ refs \in [Glyphs!Pool -> Nat] /\ held \in [Threads -> SUBSET Glyphs!Pool]
      /\ drawing \in [Threads -> Type3 \cup {NoKey}]
      /\ Range(lru) \subseteq Glyphs!Pool /\ NoKey \notin GlyphKeys
      /\ MaxTotal \in Nat
  BY GlyphsTypes DEF GlyphsInv, Glyphs!TypeOK
<1>4. \A x \in Glyphs!Pool :
         /\ IsFiniteSet(Holders(held, x)) /\ Cardinality(Holders(held, x)) \in Nat
         /\ refs[x] = Cardinality(Holders(held, x)) + (IF x \in Range(lru) THEN 1 ELSE 0)
         /\ glyphs[x] = NoKey <=> refs[x] = 0
  BY FS_CardinalityType DEF GlyphsInv, Counted
<1>5. Range(<<>>) = {} /\ Distinct(<<>>) BY EmptyRange DEF Distinct
<1>6. \A x \in Glyphs!Pool :
         /\ refs'[x] = Cardinality(Holders(held, x)) /\ refs'[x] \in Nat
         /\ glyphs'[x] = NoKey <=> refs'[x] = 0
         /\ glyphs'[x] \in {glyphs[x], NoKey}
  <2>. SUFFICES ASSUME NEW x \in Glyphs!Pool
                PROVE  /\ refs'[x] = Cardinality(Holders(held, x)) /\ refs'[x] \in Nat
                       /\ glyphs'[x] = NoKey <=> refs'[x] = 0
                       /\ glyphs'[x] \in {glyphs[x], NoKey}
    OBVIOUS
  <2>1. refs'[x] = Cardinality(Holders(held, x)) /\ refs'[x] \in Nat BY <1>1, <1>2, <1>4
  <2>2. glyphs'[x] = IF x \in Range(lru) /\ refs[x] = 1 THEN NoKey ELSE glyphs[x]
    BY <1>1, <1>2
  <2>. QED BY <1>4, <2>1, <2>2
<1>7. Glyphs!TypeOK'
  <2>1. refs' \in [Glyphs!Pool -> Nat] BY <1>1, <1>6
  <2>2. glyphs' \in [Glyphs!Pool -> GlyphKeys \cup {NoKey}] BY <1>1, <1>3
  <2>3. lru' \in Seq(Glyphs!Pool) /\ chain' \in [Glyphs!Chains -> Seq(Glyphs!Pool)] BY <1>1
  <2>. QED BY <1>1, <1>3, <2>1, <2>2, <2>3 DEF GlyphsInv, Glyphs!TypeOK
<1>8. Listed(glyphs', lru') BY <1>1, <1>5 DEF Listed
<1>9. Chained(glyphs', lru', chain') BY <1>1, <1>5 DEF Chained
<1>10. total' = Total(Weight(glyphs'), Range(lru')) /\ total' <= MaxTotal
  <2>1. Total(Weight(glyphs'), {}) = 0 BY TotalEmpty
  <2>2. Range(lru') = {} BY <1>1, <1>5
  <2>3. Total(Weight(glyphs'), Range(lru')) = 0 BY <2>1, <2>2
  <2>4. total' = 0 BY <1>1
  <2>. QED BY <1>3, <2>3, <2>4
<1>11. Counted(glyphs', refs', lru', held') BY <1>1, <1>4, <1>5, <1>6 DEF Counted
<1>12. DrawsAnew'
  <2>. SUFFICES ASSUME NEW s \in Threads, drawing'[s] # NoKey, NEW x \in held'[s]
                PROVE  glyphs'[x] # drawing'[s]
    BY DEF DrawsAnew
  <2>1. x \in held[s] /\ x \in Glyphs!Pool BY <1>3
  <2>2. glyphs[x] # drawing[s] BY <2>1 DEF GlyphsInv, DrawsAnew
  <2>. QED BY <1>6, <2>1, <2>2
<1>. QED BY <1>7, <1>8, <1>9, <1>10, <1>11, <1>12 DEF GlyphsInv

\* Whether a thread draws.
LEMMA DrawingKeeps ==
    ASSUME GlyphsInv, NEW t \in Threads, NEW k \in Type3 \cup {NoKey},
           k # NoKey => \A g \in held[t] : glyphs[g] # k,
           drawing' = [drawing EXCEPT ![t] = k],
           UNCHANGED <<glyphs, refs, lru, chain, total, held, ctxs>>
    PROVE  GlyphsInv'
<1>1. drawing \in [Threads -> Type3 \cup {NoKey}] BY DEF GlyphsInv, Glyphs!TypeOK
<1>2. drawing' \in [Threads -> Type3 \cup {NoKey}] BY <1>1
<1>3. /\ glyphs' = glyphs /\ refs' = refs /\ lru' = lru /\ chain' = chain
      /\ total' = total /\ held' = held /\ ctxs' = ctxs
  OBVIOUS
<1>4. Glyphs!TypeOK' BY <1>2, <1>3 DEF GlyphsInv, Glyphs!TypeOK
<1>5. DrawsAnew' BY <1>1, <1>3 DEF GlyphsInv, DrawsAnew
<1>. QED BY <1>3, <1>4, <1>5 DEF GlyphsInv

LEMMA GlyphsStep ==
    ASSUME GlyphsInv, Glyphs!Next
    PROVE  GlyphsInv'
<1>0. /\ drawing \in [Threads -> Type3 \cup {NoKey}] /\ Type3 \subseteq GlyphKeys
      /\ NoKey \notin GlyphKeys
  BY GlyphsTypes DEF GlyphsInv, Glyphs!TypeOK
<1>1. ASSUME NEW t \in Threads, NEW k \in GlyphKeys, Glyphs!Hit(t, k) PROVE GlyphsInv'
  <2>1. PICK g \in Glyphs!Cached(k) : Glyphs!Take(t, g) BY <1>1 DEF Glyphs!Hit
  <2>2. g \in Range(lru) /\ glyphs[g] = k BY CachedAre
  <2>3. drawing[t] = NoKey /\ g \notin held[t] /\ drawing' = drawing /\ ctxs' = ctxs
    BY <1>1, <2>2 DEF Glyphs!Hit, Glyphs!Calls
  <2>4. drawing' = [drawing EXCEPT ![t] = NoKey] BY <1>0, <2>3
  <2>. QED BY <2>1, <2>2, <2>3, <2>4, TookKeeps
<1>2. ASSUME NEW t \in Threads, NEW k \in GlyphKeys, Glyphs!RenderFont(t, k) PROVE GlyphsInv'
  <2>1. drawing[t] = NoKey /\ drawing' = drawing /\ ctxs' = ctxs /\ Glyphs!Cached(k) = {}
    BY <1>2 DEF Glyphs!RenderFont, Glyphs!Calls
  <2>2. drawing' = [drawing EXCEPT ![t] = NoKey] BY <1>0, <2>1
  <2>3. PICK g \in Glyphs!Fresh : Glyphs!Encache(t, g, k) \/ Glyphs!Keep(t, g, k)
    BY <1>2 DEF Glyphs!RenderFont
  <2>. QED BY <2>1, <2>2, <2>3, EncacheKeeps, KeptKeeps
<1>3. ASSUME NEW t \in Threads, NEW k \in GlyphKeys, Glyphs!StartDrawing(t, k) PROVE GlyphsInv'
  <2>1. /\ k \in Type3 /\ \A g \in held[t] : glyphs[g] # k
        /\ drawing' = [drawing EXCEPT ![t] = k]
        /\ UNCHANGED <<glyphs, refs, lru, chain, total, held, ctxs>>
    BY <1>3 DEF Glyphs!StartDrawing, Glyphs!Calls, Glyphs!cache
  <2>. QED BY <2>1, DrawingKeeps
<1>4. ASSUME NEW t \in Threads, Glyphs!DrawingFails(t) PROVE GlyphsInv'
  <2>1. /\ drawing' = [drawing EXCEPT ![t] = NoKey]
        /\ UNCHANGED <<glyphs, refs, lru, chain, total, held, ctxs>>
    BY <1>4 DEF Glyphs!DrawingFails, Glyphs!cache
  <2>. QED BY <2>1, DrawingKeeps
<1>5. ASSUME NEW t \in Threads, Glyphs!Drawn(t) PROVE GlyphsInv'
  <2>. DEFINE k == drawing[t]
  <2>1. k # NoKey /\ drawing' = [drawing EXCEPT ![t] = NoKey] /\ ctxs' = ctxs
    BY <1>5 DEF Glyphs!Drawn
  <2>2. k \in GlyphKeys BY <1>0, <2>1
  <2>3. \/ \E g \in Glyphs!Cached(k) : Glyphs!Take(t, g)
        \/ /\ Glyphs!Cached(k) = {}
           /\ \E g \in Glyphs!Fresh : Glyphs!Encache(t, g, k)
        \/ \E g \in Glyphs!Fresh : Glyphs!Keep(t, g, k)
    BY <1>5 DEF Glyphs!Drawn
  <2>4. ASSUME NEW g \in Glyphs!Cached(k), Glyphs!Take(t, g) PROVE GlyphsInv'
    <3>1. g \in Range(lru) /\ glyphs[g] = k BY <2>2, CachedAre
    <3>2. g \notin held[t] BY <2>1, <3>1 DEF GlyphsInv, DrawsAnew
    <3>. QED BY <2>1, <2>4, <3>1, <3>2, TookKeeps
  <2>. HIDE DEF k
  <2>. QED BY <2>1, <2>2, <2>3, <2>4, EncacheKeeps, KeptKeeps
<1>6. ASSUME NEW t \in Threads, Glyphs!Purge(t) PROVE GlyphsInv'
  BY <1>6, PurgedKeeps DEF Glyphs!Purge
<1>7. ASSUME NEW t \in Threads, Glyphs!Leave(t) PROVE GlyphsInv'
  <2>1. /\ ctxs' = ctxs \ {t} /\ held' = held /\ drawing' = drawing
        /\ \/ Glyphs!Purged
           \/ UNCHANGED <<glyphs, refs, lru, chain, total>>
    BY <1>7 DEF Glyphs!Leave, Glyphs!cache
  <2>2. ASSUME UNCHANGED <<glyphs, refs, lru, chain, total>> PROVE GlyphsInv'
    <3>1. ctxs' \subseteq Threads BY <2>1 DEF GlyphsInv, Glyphs!TypeOK
    <3>2. Glyphs!TypeOK' BY <2>1, <2>2, <3>1 DEF GlyphsInv, Glyphs!TypeOK
    <3>3. DrawsAnew' BY <2>1, <2>2 DEF GlyphsInv, DrawsAnew
    <3>. QED BY <2>1, <2>2, <3>2, <3>3 DEF GlyphsInv
  <2>. QED BY <2>1, <2>2, PurgedKeeps
<1>8. ASSUME NEW t \in Threads, NEW g \in Glyphs!Pool, Glyphs!Painted(t, g) PROVE GlyphsInv'
  BY <1>8, PaintedKeeps
<1>. QED BY <1>1, <1>2, <1>3, <1>4, <1>5, <1>6, <1>7, <1>8 DEF Glyphs!Next


LEMMA GlyphsInitially ==
    ASSUME Glyphs!Init
    PROVE  GlyphsInv
<1>1. /\ glyphs = [g \in Glyphs!Pool |-> NoKey] /\ refs = [g \in Glyphs!Pool |-> 0]
      /\ lru = <<>> /\ chain = [b \in Glyphs!Chains |-> <<>>] /\ total = 0
      /\ held = [t \in Threads |-> {}]
      /\ drawing = [t \in Threads |-> NoKey]
      /\ ctxs = Threads
  BY DEF Glyphs!Init
<1>2. Range(<<>>) = {} /\ Distinct(<<>>) BY EmptyRange DEF Distinct
<1>3. MaxTotal \in Nat BY GlyphsAssumption DEF Glyphs!KeysAssumption
<1>4. Glyphs!TypeOK
  <2>1. lru \in Seq(Glyphs!Pool) /\ chain \in [Glyphs!Chains -> Seq(Glyphs!Pool)] BY <1>1
  <2>2. glyphs \in [Glyphs!Pool -> GlyphKeys \cup {NoKey}] /\ refs \in [Glyphs!Pool -> Nat]
    BY <1>1
  <2>3. /\ held \in [Threads -> SUBSET Glyphs!Pool]
        /\ drawing \in [Threads -> Type3 \cup {NoKey}]
    BY <1>1
  <2>. QED BY <1>1, <2>1, <2>2, <2>3 DEF Glyphs!TypeOK
<1>5. Listed(glyphs, lru) BY <1>1, <1>2 DEF Listed
<1>6. Chained(glyphs, lru, chain) BY <1>1, <1>2 DEF Chained
<1>7. total = Total(Weight(glyphs), Range(lru)) /\ total <= MaxTotal
  <2>1. Total(Weight(glyphs), {}) = 0 BY TotalEmpty
  <2>2. Range(lru) = {} BY <1>1, <1>2
  <2>3. Total(Weight(glyphs), Range(lru)) = 0 BY <2>1, <2>2
  <2>4. total = 0 BY <1>1
  <2>. QED BY <1>3, <2>3, <2>4
<1>8. Counted(glyphs, refs, lru, held)
  <2>. SUFFICES ASSUME NEW g \in Glyphs!Pool
                PROVE  /\ IsFiniteSet(Holders(held, g))
                       /\ refs[g] = Cardinality(Holders(held, g))
                                    + (IF g \in Range(lru) THEN 1 ELSE 0)
                       /\ glyphs[g] = NoKey <=> refs[g] = 0
    BY DEF Counted
  <2>1. Holders(held, g) = {} BY <1>1 DEF Holders
  <2>2. refs[g] = 0 /\ glyphs[g] = NoKey BY <1>1
  <2>3. Range(lru) = {} BY <1>1, <1>2
  <2>4. IsFiniteSet({}) /\ Cardinality({}) = 0 BY FS_EmptySet
  <2>. QED BY <2>1, <2>2, <2>3, <2>4
<1>9. DrawsAnew BY <1>1 DEF DrawsAnew
<1>. QED BY <1>4, <1>5, <1>6, <1>7, <1>8, <1>9 DEF GlyphsInv

LEMMA GlyphsStutter ==
    ASSUME GlyphsInv, UNCHANGED images
    PROVE  GlyphsInv'
<1>1. /\ glyphs' = glyphs /\ refs' = refs /\ lru' = lru /\ chain' = chain
      /\ total' = total /\ held' = held /\ drawing' = drawing /\ ctxs' = ctxs
  BY DEF images
<1>2. Glyphs!TypeOK' BY <1>1 DEF GlyphsInv, Glyphs!TypeOK
<1>3. DrawsAnew' BY <1>1 DEF GlyphsInv, DrawsAnew
<1>. QED BY <1>1, <1>2, <1>3 DEF GlyphsInv

\* What the properties of the glyph cache follow from.
THEOREM GlyphsFitTogether == Spec => []GlyphsInv
<1>1. Init => GlyphsInv BY GlyphsInitially DEF Init
<1>2. GlyphsInv /\ [Next]_vars => GlyphsInv'
  <2>. SUFFICES ASSUME GlyphsInv, [Next]_vars PROVE GlyphsInv' OBVIOUS
  <2>1. CASE Glyphs!Next BY <2>1, GlyphsStep
  <2>2. CASE UNCHANGED images BY <2>2, GlyphsStutter
  <2>. QED BY <2>1, <2>2 DEF Next, vars
<1>. QED BY <1>1, <1>2, PTL DEF Spec

\* Whatever the threads do, list, chains and total of the glyph cache tell
\* the same story when the lock is free, no key is cached twice although the
\* lock is let go of while a Type 3 glyph is drawn, and the total fits.
THEOREM GlyphsCoherent == Spec => []GlyphsAreCoherent
<1>1. GlyphsInv => GlyphsAreCoherent
  <2>. SUFFICES ASSUME GlyphsInv PROVE GlyphsAreCoherent OBVIOUS
  <2>1. \A b \in Glyphs!Chains :
           Glyphs!Range(chain[b]) = {g \in Glyphs!Range(lru) : Bucket[glyphs[g]] = b}
    BY GlyphsOperators DEF GlyphsInv, Chained
  <2>2. Len(lru) = Glyphs!Cardinality({glyphs[g] : g \in Glyphs!Range(lru)})
    <3>. DEFINE K == {glyphs[g] : g \in Range(lru)}
                s == [i \in 1 .. Len(lru) |-> glyphs[lru[i]]]
    <3>1. lru \in Seq(Glyphs!Pool) /\ Len(lru) \in Nat /\ DOMAIN lru = 1 .. Len(lru)
          /\ Listed(glyphs, lru)
      BY GlyphsTypes DEF GlyphsInv
    <3>2. \A i \in 1 .. Len(lru) : lru[i] \in Range(lru) BY <3>1 DEF Range
    <3>3. \A i \in 1 .. Len(lru) : glyphs[lru[i]] \in GlyphKeys BY <3>1, <3>2 DEF Listed
    <3>4. s \in Seq(GlyphKeys) /\ Len(s) = Len(lru) /\ DOMAIN s = 1 .. Len(lru)
          /\ \A i \in 1 .. Len(lru) : s[i] = glyphs[lru[i]]
      BY <3>1, <3>3
    <3>. HIDE DEF s
    <3>5. Distinct(s)
      <4>. SUFFICES ASSUME NEW i \in 1 .. Len(lru), NEW j \in 1 .. Len(lru), s[i] = s[j]
                    PROVE  i = j
        BY <3>4 DEF Distinct
      <4>1. glyphs[lru[i]] = glyphs[lru[j]] BY <3>4
      <4>2. lru[i] = lru[j] BY <3>1, <3>2, <4>1 DEF Listed
      <4>. QED BY <3>1, <4>2 DEF Listed, Distinct
    <3>6. Range(s) = K
      <4>1. ASSUME NEW i \in 1 .. Len(lru) PROVE s[i] \in K BY <3>2, <3>4
      <4>2. ASSUME NEW g \in Range(lru) PROVE glyphs[g] \in Range(s)
        <5>1. PICK i \in 1 .. Len(lru) : g = lru[i] BY <3>1 DEF Range
        <5>. QED BY <3>4, <5>1 DEF Range
      <4>. QED BY <3>4, <4>1, <4>2 DEF Range
    <3>7. Len(s) = Cardinality(Range(s)) BY <3>4, <3>5, DistinctLength
    <3>8. {glyphs[g] : g \in Glyphs!Range(lru)} = K BY GlyphsOperators
    <3>. HIDE DEF K
    <3>. QED BY <3>4, <3>6, <3>7, <3>8, GlyphsOperators
  <2>3. total = Glyphs!BytesOf(Glyphs!Range(lru), glyphs)
    <3>. DEFINE R == Range(lru)  v == [g \in R |-> Bytes[glyphs[g]]]
    <3>1. Glyphs!BytesOf(Glyphs!Range(lru), glyphs) = Total(v, R) BY GlyphsOperators
    <3>2. R \subseteq Glyphs!Pool /\ IsFiniteSet(R) /\ Weights(Weight(glyphs), R)
      BY GlyphsTypes
    <3>3. \A g \in R : Weight(glyphs)[g] = v[g] BY <3>2 DEF Weight
    <3>4. total = Total(Weight(glyphs), R) BY DEF GlyphsInv
    <3>. HIDE DEF R, v
    <3>. QED BY <3>1, <3>2, <3>3, <3>4, TotalSame
  <2>4. Glyphs!WithinLimit BY DEF GlyphsInv, Glyphs!WithinLimit
  <2>. QED BY <2>1, <2>2, <2>3, <2>4 DEF GlyphsAreCoherent, Glyphs!CacheIsCoherent
<1>. QED BY <1>1, GlyphsFitTogether, PTL

\* A glyph's references are the threads that paint with it and the cache, so
\* that it is freed after the last of them lets go of it and not before.
THEOREM GlyphsFreed == Spec => []GlyphsFreedAfterLastUse
<1>1. GlyphsInv => GlyphsFreedAfterLastUse
  <2>. SUFFICES ASSUME GlyphsInv, NEW g \in Glyphs!Pool
                PROVE  /\ refs[g] = Glyphs!Cardinality({t \in Threads : g \in held[t]})
                                    + (IF g \in Glyphs!Range(lru) THEN 1 ELSE 0)
                       /\ glyphs[g] = NoKey <=> refs[g] = 0
    BY DEF GlyphsFreedAfterLastUse, Glyphs!FreedAfterLastUse
  <2>1. /\ refs[g] = Cardinality(Holders(held, g)) + (IF g \in Range(lru) THEN 1 ELSE 0)
        /\ glyphs[g] = NoKey <=> refs[g] = 0
    BY DEF GlyphsInv, Counted
  <2>. QED BY <2>1, GlyphsOperators DEF Holders
<1>. QED BY <1>1, GlyphsFitTogether, PTL

-----------------------------------------------------------------------------
(* The hash table: places and paths.                                       *)

\* A remainder is unique, and what a step forward, round the end of the
\* table if need be, does to it.
LEMMA RemainderUnique ==
    ASSUME NEW q \in Nat, NEW r \in Nat, NEW n \in Nat \ {0}, r < n
    PROVE  (q * n + r) % n = r
OBVIOUS

LEMMA RemainderForward ==
    ASSUME NEW a \in Nat, NEW b \in Nat, NEW n \in Nat \ {0}, b < n
    PROVE  /\ a % n \in 0 .. n - 1
           /\ (a + b) % n = IF (a % n) + b < n THEN (a % n) + b ELSE (a % n) + b - n
<1>. DEFINE q == a \div n  r == a % n
<1>1. a = q * n + r /\ q \in Nat /\ r \in 0 .. n - 1 OBVIOUS
<1>. HIDE DEF q, r
<1>2. CASE r + b < n
  <2>1. a + b = q * n + (r + b) /\ r + b \in Nat BY <1>1
  <2>2. (a + b) % n = r + b BY <1>1, <1>2, <2>1, RemainderUnique
  <2>. QED BY <1>1, <1>2, <2>2 DEF r
<1>3. CASE ~(r + b < n)
  <2>1. q + 1 \in Nat /\ r + b - n \in Nat /\ r + b - n < n BY <1>1, <1>3
  <2>2. a + b = (q + 1) * n + (r + b - n) BY <1>1
  <2>3. (a + b) % n = r + b - n BY <2>1, <2>2, RemainderUnique
  <2>. QED BY <1>1, <1>3, <2>3 DEF r
<1>. QED BY <1>2, <1>3

Slots(n) == 0 .. n - 1

Tables(n) == [Slots(n) -> TableKeys \cup {NoKey}]

\* Where the search for a key starts.
Home(k, n) == Hash[k] % n

\* A search that starts at a and stops at b passes i.
Passes(a, i, b) == Table!MayMove(a, i, b)

Filled(e, n) == {i \in Slots(n) : e[i] # NoKey}

\* No key is in a table twice.
Once(e, n) == \A i, j \in Slots(n) : e[i] # NoKey /\ e[i] = e[j] => i = j

\* The search for an entry passes no free one.
Reached(e, n) == \A i, j \in Slots(n) :
    e[i] # NoKey /\ Passes(Home(e[i], n), j, i) => e[j] # NoKey

Sound(e, n) == n \in Nat \ {0} /\ e \in Tables(n) /\ Once(e, n) /\ Reached(e, n)

Roomy(e, n) == \E i \in Slots(n) : e[i] = NoKey

LEMMA TableOperators ==
    /\ \A S : Table!Cardinality(S) = Cardinality(S)
    /\ \A S : Table!Min(S) = Min(S)
BY DEF Table!Cardinality, Cardinality, Table!Min, Min

LEMMA TableSize ==
    ASSUME NEW n \in Nat \ {0}, NEW e \in Tables(n)
    PROVE  /\ Table!SizeOf(e) = n /\ DOMAIN e = Slots(n)
           /\ IsFiniteSet(Slots(n)) /\ Cardinality(Slots(n)) = n
<1>1. DOMAIN e = Slots(n) BY DEF Tables
<1>2. IsFiniteSet(Slots(n)) /\ Cardinality(Slots(n)) = n
  BY FS_Interval DEF Slots
<1>. QED BY <1>1, <1>2, TableOperators DEF Table!SizeOf

LEMMA HomeIsSlot ==
    ASSUME NEW n \in Nat \ {0}, NEW k \in TableKeys
    PROVE  Home(k, n) \in Slots(n)
<1>1. Hash[k] \in Nat BY TableAssumption DEF Table!KeysAssumption
<1>2. Hash[k] % n \in 0 .. n - 1 BY <1>1
<1>. QED BY <1>2 DEF Home, Slots

\* A search looks at the entries in turn from its home on.
LEMMA ProbeIs ==
    ASSUME NEW n \in Nat \ {0}, NEW e \in Tables(n), NEW k \in TableKeys, NEW i \in Slots(n)
    PROVE  Table!Probe(e, k, i) = IF Home(k, n) + i < n THEN Home(k, n) + i
                                  ELSE Home(k, n) + i - n
<1>1. Hash[k] \in Nat BY TableAssumption DEF Table!KeysAssumption
<1>2. i \in Nat /\ i < n BY DEF Slots
<1>3. Table!SizeOf(e) = n BY TableSize
<1>4. (Hash[k] + i) % n = IF (Hash[k] % n) + i < n THEN (Hash[k] % n) + i
                          ELSE (Hash[k] % n) + i - n
  BY <1>1, <1>2, RemainderForward
<1>. QED BY <1>3, <1>4 DEF Table!Probe, Home

\* It stops at the key or at a free entry, and passes neither on its way.
LEMMA StopIs ==
    ASSUME NEW n, NEW e, Sound(e, n), Roomy(e, n), NEW k \in TableKeys
    PROVE  LET p == Table!Stop(e, k) IN
           /\ p \in Slots(n) /\ e[p] \in {k, NoKey}
           /\ \A j \in Slots(n) : Passes(Home(k, n), j, p) => e[j] \notin {k, NoKey}
<1>. DEFINE h == Home(k, n)
            at(i) == IF h + i < n THEN h + i ELSE h + i - n
            off(p) == IF h <= p THEN p - h ELSE p - h + n
            S == {i \in Slots(n) : e[at(i)] \in {k, NoKey}}
            m == Min(S)
<1>1. n \in Nat \ {0} /\ e \in Tables(n) BY DEF Sound
<1>2. h \in Slots(n) BY <1>1, HomeIsSlot
<1>. HIDE DEF h
<1>3. \A i \in Slots(n) : Table!Probe(e, k, i) = at(i) BY <1>1, ProbeIs DEF h
<1>4. {i \in 0 .. Table!SizeOf(e) - 1 : e[Table!Probe(e, k, i)] \in {k, NoKey}} = S
  BY <1>1, <1>3, TableSize DEF Slots
<1>5. \A p \in Slots(n) : off(p) \in Slots(n) /\ at(off(p)) = p BY <1>1, <1>2 DEF Slots
<1>6. S # {} /\ S \in SUBSET Nat
  <2>1. PICK p \in Slots(n) : e[p] = NoKey BY DEF Roomy
  <2>2. off(p) \in S BY <1>5, <2>1
  <2>. QED BY <2>2 DEF Slots
<1>7. m \in S /\ \A i \in S : m <= i
  <2>. HIDE DEF S
  <2>. QED BY <1>6, MinIsLeast
<1>8. Table!Stop(e, k) = Table!Probe(e, k, m) BY <1>4, TableOperators DEF Table!Stop
<1>9. Table!Stop(e, k) = at(m) BY <1>3, <1>7, <1>8
<1>. HIDE DEF m
<1>10. m \in Slots(n) /\ e[at(m)] \in {k, NoKey} BY <1>7
<1>11. at(m) \in Slots(n) BY <1>1, <1>2, <1>10 DEF Slots
<1>12. ASSUME NEW j \in Slots(n), Passes(h, j, at(m)) PROVE e[j] \notin {k, NoKey}
  <2>1. off(j) \in Slots(n) /\ at(off(j)) = j BY <1>5
  <2>2. off(j) < m BY <1>1, <1>2, <1>10, <1>11, <1>12 DEF Slots, Passes, Table!MayMove
  <2>3. off(j) \notin S BY <1>7, <1>10, <2>1, <2>2 DEF Slots
  <2>. QED BY <2>1, <2>3
<1>. QED BY <1>9, <1>10, <1>11, <1>12 DEF h

\* So it finds the keys that are there, where they are.
LEMMA FoundIs ==
    ASSUME NEW n, NEW e, Sound(e, n), Roomy(e, n), NEW k \in TableKeys
    PROVE  /\ Table!Found(e, k) <=> k \in Table!Content(e)
           /\ \A i \in Slots(n) : e[i] = k => Table!Stop(e, k) = i
<1>. DEFINE p == Table!Stop(e, k)  h == Home(k, n)
<1>1. /\ p \in Slots(n) /\ e[p] \in {k, NoKey}
      /\ \A j \in Slots(n) : Passes(h, j, p) => e[j] \notin {k, NoKey}
  BY StopIs
<1>2. n \in Nat \ {0} /\ e \in Tables(n) BY DEF Sound
<1>3. h \in Slots(n) BY <1>2, HomeIsSlot
<1>4. k # NoKey BY TableAssumption DEF Table!KeysAssumption
<1>5. Table!Found(e, k) <=> e[p] = k BY DEF Table!Found
<1>. HIDE DEF p, h
<1>6. ASSUME NEW i \in Slots(n), e[i] = k PROVE p = i
  <2>. SUFFICES ASSUME p # i PROVE FALSE OBVIOUS
  <2>1. ~Passes(h, i, p) BY <1>1, <1>6
  <2>2. Passes(h, p, i) BY <1>1, <1>2, <1>3, <2>1 DEF Passes, Table!MayMove, Slots
  <2>3. e[p] # NoKey BY <1>1, <1>4, <1>6, <2>2 DEF Sound, Reached, h
  <2>4. e[p] = e[i] BY <1>1, <1>6, <2>3
  <2>. QED BY <1>1, <1>4, <1>6, <2>4 DEF Sound, Once
<1>7. e[p] = k => k \in Table!Content(e) BY <1>1, <1>2, <1>4, TableSize DEF Table!Content
<1>8. k \in Table!Content(e) => e[p] = k
  <2>. SUFFICES ASSUME k \in Table!Content(e) PROVE e[p] = k OBVIOUS
  <2>1. PICK i \in Slots(n) : e[i] = k BY <1>2, TableSize DEF Table!Content
  <2>. QED BY <1>6, <2>1
<1>. QED BY <1>5, <1>6, <1>7, <1>8 DEF p

-----------------------------------------------------------------------------
(* What is in a table.                                                     *)

LEMMA ContentIs ==
    ASSUME NEW n \in Nat \ {0}, NEW e \in Tables(n)
    PROVE  /\ \A x : x \in Table!Content(e) <=> x # NoKey /\ \E i \in Slots(n) : e[i] = x
           /\ Table!Content(e) \subseteq TableKeys
           /\ \A i \in Slots(n) : e[i] \in TableKeys \cup {NoKey}
           /\ NoKey \notin TableKeys
<1>1. DOMAIN e = Slots(n) BY TableSize
<1>2. \A i \in Slots(n) : e[i] \in TableKeys \cup {NoKey} BY DEF Tables
<1>3. NoKey \notin TableKeys BY TableAssumption DEF Table!KeysAssumption
<1>. QED BY <1>1, <1>2, <1>3 DEF Table!Content

\* Its keys are as many as its entries that are not free.
LEMMA FilledCount ==
    ASSUME NEW n, NEW e, Sound(e, n)
    PROVE  /\ IsFiniteSet(Table!Content(e)) /\ IsFiniteSet(Filled(e, n))
           /\ Cardinality(Table!Content(e)) = Cardinality(Filled(e, n))
           /\ Cardinality(Table!Content(e)) \in 0 .. n
           /\ Cardinality(Table!Content(e)) < n => Roomy(e, n)
<1>. DEFINE F == Filled(e, n)  C == Table!Content(e)  f == [i \in F |-> e[i]]
<1>1. n \in Nat \ {0} /\ e \in Tables(n) BY DEF Sound
<1>2. IsFiniteSet(Slots(n)) /\ Cardinality(Slots(n)) = n BY <1>1, TableSize
<1>3. F \in SUBSET Slots(n) BY DEF Filled
<1>4. IsFiniteSet(F) /\ Cardinality(F) <= n /\ (n = Cardinality(F) => F = Slots(n))
  <2>. HIDE DEF F
  <2>. QED BY <1>2, <1>3, FS_Subset
<1>5. \A x : x \in C <=> x # NoKey /\ \E i \in Slots(n) : e[i] = x BY <1>1, ContentIs
<1>6. f \in Bijection(F, C)
  <2>1. f \in [F -> C] BY <1>5 DEF Filled
  <2>2. \A i, j \in F : f[i] = f[j] => i = j BY DEF Filled, Sound, Once
  <2>3. \A x \in C : \E i \in F : f[i] = x BY <1>5 DEF Filled
  <2>. HIDE DEF f, F, C
  <2>. QED BY <2>1, <2>2, <2>3 DEF Bijection, Injection, Surjection, IsInjective
<1>7. ExistsBijection(F, C) BY <1>6 DEF ExistsBijection
<1>. HIDE DEF f, C
<1>8. IsFiniteSet(C) /\ Cardinality(C) = Cardinality(F) BY <1>4, <1>7, FS_Bijection
<1>9. Cardinality(F) \in Nat BY <1>4, FS_CardinalityType
<1>10. ASSUME Cardinality(C) < n PROVE Roomy(e, n)
  <2>1. F # Slots(n)
    <3>1. Cardinality(F) < n BY <1>8, <1>10
    <3>. HIDE DEF F
    <3>. QED BY <1>1, <1>2, <1>9, <3>1
  <2>. QED BY <1>3, <2>1 DEF Filled, Roomy
<1>. QED BY <1>1, <1>4, <1>8, <1>9, <1>10 DEF C

LEMMA EmptyIsSound ==
    ASSUME NEW n \in Nat \ {0}
    PROVE  /\ Sound(Table!Empty(n), n) /\ Table!Content(Table!Empty(n)) = {}
           /\ Table!Empty(n) \in Tables(n)
<1>. DEFINE e == Table!Empty(n)
<1>1. e \in Tables(n) /\ \A i \in Slots(n) : e[i] = NoKey
  BY DEF Table!Empty, Tables, Slots
<1>. HIDE DEF e
<1>2. Sound(e, n) BY <1>1 DEF Sound, Once, Reached
<1>3. \A x : x \notin Table!Content(e) BY <1>1, ContentIs
<1>. QED BY <1>1, <1>2, <1>3 DEF e

\* An insertion fills the free entry at which its search stops.
LEMMA InsertedIsSound ==
    ASSUME NEW n, NEW e, Sound(e, n), Roomy(e, n), NEW k \in TableKeys
    PROVE  /\ Sound(Table!Inserted(e, k), n)
           /\ Table!Content(Table!Inserted(e, k)) = Table!Content(e) \cup {k}
<1>. DEFINE p == Table!Stop(e, k)  h == Home(k, n)  d == [e EXCEPT ![p] = k]
<1>1. /\ p \in Slots(n) /\ e[p] \in {k, NoKey}
      /\ \A j \in Slots(n) : Passes(h, j, p) => e[j] \notin {k, NoKey}
  BY StopIs
<1>2. n \in Nat \ {0} /\ e \in Tables(n) BY DEF Sound
<1>3. Table!Inserted(e, k) = d BY DEF Table!Inserted
<1>4. k # NoKey BY TableAssumption DEF Table!KeysAssumption
<1>5. \A i \in Slots(n) : e[i] = k => p = i BY FoundIs
<1>. HIDE DEF p
<1>6. d \in Tables(n) /\ \A i \in Slots(n) : d[i] = IF i = p THEN k ELSE e[i]
  BY <1>2 DEF Tables
<1>. HIDE DEF d, h
<1>7. Once(d, n) BY <1>1, <1>4, <1>5, <1>6 DEF Sound, Once
<1>8. Reached(d, n)
  <2>. SUFFICES ASSUME NEW i \in Slots(n), NEW j \in Slots(n), d[i] # NoKey,
                       Passes(Home(d[i], n), j, i)
                PROVE  d[j] # NoKey
    BY DEF Reached
  <2>1. CASE i = p BY <1>1, <1>4, <1>6, <2>1 DEF h
  <2>2. CASE i # p
    <3>1. d[i] = e[i] BY <1>6, <2>2
    <3>2. e[j] # NoKey BY <3>1 DEF Sound, Reached
    <3>. QED BY <1>4, <1>6, <3>2
  <2>. QED BY <2>1, <2>2
<1>9. \A x : x \in Table!Content(d) <=> x \in Table!Content(e) \cup {k}
  <2>1. \A x : x \in Table!Content(d) <=> x # NoKey /\ \E i \in Slots(n) : d[i] = x
    BY <1>2, <1>6, ContentIs
  <2>2. \A x : x \in Table!Content(e) <=> x # NoKey /\ \E i \in Slots(n) : e[i] = x
    BY <1>2, ContentIs
  <2>. QED BY <1>1, <1>4, <1>6, <2>1, <2>2
<1>. QED BY <1>2, <1>3, <1>6, <1>7, <1>8, <1>9 DEF Sound

-----------------------------------------------------------------------------
(* Growth.                                                                 *)

\* The tables that moving the entries of e one by one goes through.
Rehashing(f, e, n, m) ==
    f = [i \in 0 .. n |-> IF i = 0 THEN Table!Empty(m)
                          ELSE IF e[i - 1] = NoKey THEN f[i - 1]
                          ELSE Table!Inserted(f[i - 1], e[i - 1])]

LEMMA RehashingExists ==
    ASSUME NEW n \in Nat \ {0}, NEW e \in Tables(n), NEW m \in Nat \ {0}
    PROVE  \E f : Rehashing(f, e, n, m)
<1>. DEFINE move(t, i) == IF i \notin Slots(n) THEN t ELSE IF e[i] = NoKey THEN t
                          ELSE Table!Inserted(t, e[i])
            step == [i \in Nat |-> [t \in Tables(m) |-> move(t, i)]]
<1>1. step \in [Nat -> [Tables(m) -> Tables(m)]]
  <2>. SUFFICES ASSUME NEW i \in Nat, NEW t \in Tables(m) PROVE move(t, i) \in Tables(m)
    OBVIOUS
  <2>. SUFFICES ASSUME i \in Slots(n), e[i] # NoKey
                PROVE  Table!Inserted(t, e[i]) \in Tables(m)
    OBVIOUS
  <2>1. e[i] \in TableKeys \cup {NoKey} BY ContentIs
  <2>. QED BY <2>1 DEF Table!Inserted, Tables
<1>2. Table!Empty(m) \in Tables(m) BY EmptyIsSound
<1>. HIDE DEF step
<1>3. PICK f \in [0 .. n -> Tables(m)] : Runs(f, Table!Empty(m), step, n)
  BY <1>1, <1>2, RecursionExists
<1>4. ASSUME NEW i \in 0 .. n
      PROVE  f[i] = IF i = 0 THEN Table!Empty(m)
                    ELSE IF e[i - 1] = NoKey THEN f[i - 1]
                    ELSE Table!Inserted(f[i - 1], e[i - 1])
  <2>1. CASE i = 0 BY <1>3, <2>1 DEF Runs
  <2>2. CASE i # 0
    <3>1. i \in 1 .. n /\ i - 1 \in Slots(n) /\ i - 1 \in Nat /\ f[i - 1] \in Tables(m)
      BY <1>3, <2>2 DEF Slots
    <3>2. f[i] = step[i - 1][f[i - 1]] BY <1>3, <3>1 DEF Runs
    <3>3. step[i - 1][f[i - 1]] = move(f[i - 1], i - 1) BY <3>1 DEF step
    <3>. QED BY <2>2, <3>1, <3>2, <3>3
  <2>. QED BY <2>1, <2>2
<1>5. f = [i \in 0 .. n |-> f[i]] BY <1>3
<1>6. [i \in 0 .. n |-> f[i]]
        = [i \in 0 .. n |-> IF i = 0 THEN Table!Empty(m)
                            ELSE IF e[i - 1] = NoKey THEN f[i - 1]
                            ELSE Table!Inserted(f[i - 1], e[i - 1])]
  BY <1>4
<1>7. Rehashing(f, e, n, m) BY <1>5, <1>6 DEF Rehashing
<1>. QED BY <1>7

\* A larger table takes all the entries of e, and no others.
LEMMA RehashedIsSound ==
    ASSUME NEW n, NEW e, Sound(e, n), NEW m \in Nat, n < m
    PROVE  /\ Sound(Table!Rehashed(e, m), m)
           /\ Table!Content(Table!Rehashed(e, m)) = Table!Content(e)
<1>1. n \in Nat \ {0} /\ e \in Tables(n) /\ m \in Nat \ {0} BY DEF Sound
<1>2. \E f : Rehashing(f, e, n, m) BY <1>1, RehashingExists
<1>. DEFINE f == CHOOSE g : Rehashing(g, e, n, m)
<1>3. Rehashing(f, e, n, m) BY <1>2
<1>4. Table!Rehashed(e, m) = f[n]
  <2>1. Table!SizeOf(e) = n BY <1>1, TableSize
  <2>. QED BY <2>1 DEF Table!Rehashed, Rehashing
<1>. HIDE DEF f
<1>5. f[0] = Table!Empty(m) BY <1>1, <1>3 DEF Rehashing
<1>6. ASSUME NEW i \in Slots(n)
      PROVE  f[i + 1] = IF e[i] = NoKey THEN f[i] ELSE Table!Inserted(f[i], e[i])
  <2>1. i + 1 \in 0 .. n /\ i + 1 # 0 /\ (i + 1) - 1 = i BY <1>1 DEF Slots
  <2>2. f[i + 1] = [x \in 0 .. n |-> IF x = 0 THEN Table!Empty(m)
                          ELSE IF e[x - 1] = NoKey THEN f[x - 1]
                          ELSE Table!Inserted(f[x - 1], e[x - 1])][i + 1]
    BY <1>3 DEF Rehashing
  <2>. HIDE DEF f
  <2>. QED BY <2>1, <2>2
<1>. DEFINE taken(i) == {e[j] : j \in 0 .. i - 1} \ {NoKey}
            P == {i \in Nat : i <= n => /\ Sound(f[i], m)
                                       /\ Table!Content(f[i]) = taken(i)}
<1>7. 0 \in P
  <2>1. taken(0) = {} OBVIOUS
  <2>. QED BY <1>1, <1>5, <2>1, EmptyIsSound
<1>8. ASSUME NEW i \in Nat, i \in P PROVE i + 1 \in P
  <2>. SUFFICES ASSUME i + 1 <= n
                PROVE  Sound(f[i + 1], m) /\ Table!Content(f[i + 1]) = taken(i + 1)
    OBVIOUS
  <2>1. i \in Slots(n) BY <1>1 DEF Slots
  <2>2. Sound(f[i], m) /\ Table!Content(f[i]) = taken(i) BY <1>8, <1>1
  <2>3. taken(i + 1) = taken(i) \cup ({e[i]} \ {NoKey})
    <3>1. 0 .. (i + 1) - 1 = (0 .. i - 1) \cup {i} OBVIOUS
    <3>. QED BY <3>1
  <2>4. Roomy(f[i], m)
    <3>1. Table!Content(f[i]) \in SUBSET Table!Content(e)
      <4>1. \A j \in 0 .. i - 1 : j \in Slots(n) BY <1>1, <2>1 DEF Slots
      <4>2. \A x : x \in Table!Content(e) <=> x # NoKey /\ \E j \in Slots(n) : e[j] = x
        BY <1>1, ContentIs
      <4>. QED BY <2>2, <4>1, <4>2
    <3>2. IsFiniteSet(Table!Content(e)) /\ Cardinality(Table!Content(e)) \in 0 .. n
      BY FilledCount
    <3>3. Cardinality(Table!Content(f[i])) <= Cardinality(Table!Content(e))
      BY <3>1, <3>2, FS_Subset
    <3>4. Cardinality(Table!Content(f[i])) \in 0 .. m BY <2>2, FilledCount
    <3>5. Cardinality(Table!Content(f[i])) < m BY <1>1, <3>2, <3>3, <3>4
    <3>. QED BY <2>2, <3>5, FilledCount
  <2>. HIDE DEF taken, P
  <2>5. CASE e[i] = NoKey
    <3>1. f[i + 1] = f[i] BY <1>6, <2>1, <2>5
    <3>. QED BY <2>2, <2>3, <2>5, <3>1
  <2>6. CASE e[i] # NoKey
    <3>1. f[i + 1] = Table!Inserted(f[i], e[i]) BY <1>6, <2>1, <2>6
    <3>2. e[i] \in TableKeys BY <1>1, <2>1, <2>6, ContentIs
    <3>3. Sound(f[i + 1], m) /\ Table!Content(f[i + 1]) = Table!Content(f[i]) \cup {e[i]}
      BY <2>2, <2>4, <3>1, <3>2, InsertedIsSound
    <3>. QED BY <2>2, <2>3, <2>6, <3>3
  <2>. QED BY <2>5, <2>6
<1>9. n \in P
  <2>. HIDE DEF P
  <2>. QED BY <1>1, <1>7, <1>8, Induction
<1>10. taken(n) = Table!Content(e)
  <2>1. DOMAIN e = 0 .. n - 1 BY <1>1, TableSize DEF Slots
  <2>. QED BY <2>1 DEF Table!Content
<1>. QED BY <1>1, <1>4, <1>9, <1>10

-----------------------------------------------------------------------------
(* Removal.                                                                *)

\* How far behind first an entry is.
Off(first, p, n) == IF first <= p THEN p - first ELSE p - first + n

\* What a search passes, between places in the order of their distance.
LEMMA PassesOn ==
    ASSUME NEW n \in Nat \ {0}, NEW first \in Slots(n), NEW a \in Slots(n),
           NEW h \in Slots(n), NEW l \in Slots(n), NEW p \in Slots(n),
           Off(first, h, n) < Off(first, l, n), Off(first, l, n) < Off(first, p, n)
    PROVE  /\ Passes(a, h, p) => Passes(a, l, p)
           /\ Passes(a, l, h) => Passes(a, p, h)
BY DEF Slots, Off, Passes, Table!MayMove

LEMMA PassesFurther ==
    ASSUME NEW n \in Nat \ {0}, NEW a \in Slots(n),
           NEW j \in Slots(n), NEW h \in Slots(n), NEW l \in Slots(n), Passes(a, h, l)
    PROVE  /\ Passes(a, j, h) => Passes(a, j, l)
           /\ ~Passes(a, l, h)
           /\ h # l
BY DEF Slots, Passes, Table!MayMove

LEMMA OffIs ==
    ASSUME NEW n \in Nat \ {0}, NEW first \in Slots(n), NEW p \in Slots(n), NEW q \in Slots(n)
    PROVE  /\ Off(first, p, n) \in Slots(n)
           /\ Off(first, p, n) = Off(first, q, n) => p = q
           /\ Off(first, p, n) = 0 <=> p = first
BY DEF Slots, Off

LEMMA LookIs ==
    ASSUME NEW n \in Nat \ {0}, NEW first \in Slots(n), NEW i \in Slots(n)
    PROVE  /\ (first + i) % n \in Slots(n)
           /\ Off(first, (first + i) % n, n) = i
<1>1. first \in Nat /\ i \in Nat /\ i < n /\ first < n BY DEF Slots
<1>2. first = 0 * n + first BY <1>1
<1>3. first % n = first
  <2>1. (0 * n + first) % n = first BY <1>1, RemainderUnique
  <2>. QED BY <1>2, <2>1
<1>4. (first + i) % n = IF (first % n) + i < n THEN (first % n) + i ELSE (first % n) + i - n
  BY <1>1, RemainderForward
<1>. QED BY <1>1, <1>3, <1>4 DEF Slots, Off

Removals(n) == [ents : Tables(n), hole : Slots(n), done : BOOLEAN]

\* An entry moves into the hole.
Moved(s, look) == [s EXCEPT !.ents[s.hole] = s.ents[look], !.ents[look] = NoKey,
                            !.hole = look]

LEMMA MovedIs ==
    ASSUME NEW n \in Nat \ {0}, NEW s \in Removals(n), NEW look \in Slots(n)
    PROVE  /\ Moved(s, look) \in Removals(n)
           /\ Moved(s, look).hole = look /\ Moved(s, look).done = s.done
           /\ \A i \in Slots(n) :
                Moved(s, look).ents[i] = IF i = look THEN NoKey
                                         ELSE IF i = s.hole THEN s.ents[look] ELSE s.ents[i]
<1>. DEFINE t == [[s.ents EXCEPT ![s.hole] = s.ents[look]] EXCEPT ![look] = NoKey]
<1>1. s.ents \in Tables(n) /\ s.hole \in Slots(n) /\ s.done \in BOOLEAN BY DEF Removals
<1>2. s.ents[look] \in TableKeys \cup {NoKey} BY <1>1 DEF Tables
<1>3. t \in Tables(n) /\ \A i \in Slots(n) :
        t[i] = IF i = look THEN NoKey
               ELSE IF i = s.hole THEN s.ents[look] ELSE s.ents[i]
  BY <1>1, <1>2 DEF Tables
<1>4. DOMAIN s = {"ents", "hole", "done"} BY DEF Removals
<1>5. Moved(s, look).ents = t BY <1>4 DEF Moved
<1>6. Moved(s, look).hole = look BY <1>4 DEF Moved
<1>7. Moved(s, look).done = s.done BY <1>4 DEF Moved
<1>. HIDE DEF t
<1>9. Moved(s, look) \in Removals(n) BY <1>1, <1>3, <1>5 DEF Removals, Moved
<1>. QED BY <1>3, <1>5, <1>6, <1>7, <1>9

LEMMA DoneIs ==
    ASSUME NEW n \in Nat \ {0}, NEW s \in Removals(n)
    PROVE  /\ [s EXCEPT !.done = TRUE] \in Removals(n)
           /\ [s EXCEPT !.done = TRUE].ents = s.ents
           /\ [s EXCEPT !.done = TRUE].hole = s.hole
           /\ [s EXCEPT !.done = TRUE].done
<1>. PICK yes \in BOOLEAN : yes = TRUE OBVIOUS
<1>1. /\ [s EXCEPT !.done = yes] \in Removals(n)
      /\ [s EXCEPT !.done = yes].ents = s.ents
      /\ [s EXCEPT !.done = yes].hole = s.hole
      /\ [s EXCEPT !.done = yes].done = yes
  BY DEF Removals
<1>. QED BY <1>1

\* A look at one entry behind the hole.
Looked(s, look, n) ==
    IF s.done \/ s.ents[look] = NoKey THEN [s EXCEPT !.done = TRUE]
    ELSE IF Table!MayMove(Hash[s.ents[look]] % n, s.hole, look) THEN Moved(s, look)
    ELSE s

\* After i looks: only the hole interrupts the way to an entry, and only to
\* one that has not been looked at; when the search is done, to none.
Half(s, i, e, first, n) ==
    /\ s \in Removals(n) /\ s.ents[s.hole] = NoKey
    /\ Once(s.ents, n)
    /\ Table!Content(s.ents) = Table!Content(e) \ {e[first]}
    /\ \A p, j \in Slots(n) :
          /\ s.ents[p] # NoKey /\ Passes(Home(s.ents[p], n), j, p)
          /\ s.ents[j] = NoKey
          => j = s.hole
    /\ s.done => Reached(s.ents, n)
    /\ ~s.done =>
          /\ Off(first, s.hole, n) <= i
          /\ \A p \in Slots(n) :
               s.ents[p] # NoKey /\ Passes(Home(s.ents[p], n), s.hole, p)
               => Off(first, p, n) > i
          /\ \A p \in Slots(n) :
               p # s.hole /\ Off(first, p, n) <= i => s.ents[p] # NoKey
          /\ \E f \in Slots(n) : f # s.hole /\ s.ents[f] = NoKey

LEMMA HalfInitially ==
    ASSUME NEW n, NEW e, Sound(e, n), Roomy(e, n),
           NEW first \in Slots(n), e[first] # NoKey
    PROVE  Half([ents |-> [e EXCEPT ![first] = NoKey], hole |-> first, done |-> FALSE],
                0, e, first, n)
<1>. PICK no \in BOOLEAN : no = FALSE OBVIOUS
<1>. DEFINE t == [e EXCEPT ![first] = NoKey]
            s == [ents |-> t, hole |-> first, done |-> no]
<1>1. n \in Nat \ {0} /\ e \in Tables(n) BY DEF Sound
<1>2. t \in Tables(n) /\ \A i \in Slots(n) : t[i] = IF i = first THEN NoKey ELSE e[i]
  BY <1>1 DEF Tables
<1>. HIDE DEF t
<1>3. s \in Removals(n) /\ s.ents = t /\ s.hole = first /\ s.done = no
  BY <1>2 DEF Removals
<1>. HIDE DEF s
<1>4. Once(t, n) BY <1>2 DEF Sound, Once
<1>5. Table!Content(t) = Table!Content(e) \ {e[first]}
  <2>1. \A x : x \in Table!Content(t) <=> x # NoKey /\ \E i \in Slots(n) : t[i] = x
    BY <1>1, <1>2, ContentIs
  <2>2. \A x : x \in Table!Content(e) <=> x # NoKey /\ \E i \in Slots(n) : e[i] = x
    BY <1>1, ContentIs
  <2>3. \A i \in Slots(n) : e[i] = e[first] => i = first BY DEF Sound, Once
  <2>. QED BY <1>2, <2>1, <2>2, <2>3
<1>6. ASSUME NEW p \in Slots(n), NEW j \in Slots(n), t[p] # NoKey,
             Passes(Home(t[p], n), j, p), t[j] = NoKey
      PROVE  j = first
  BY <1>2, <1>6 DEF Sound, Reached
<1>7. Off(first, first, n) = 0 /\ \A p \in Slots(n) : Off(first, p, n) <= 0 <=> p = first
  <2>1. \A p \in Slots(n) : Off(first, p, n) \in Slots(n) BY <1>1, OffIs
  <2>2. \A p \in Slots(n) : Off(first, p, n) = 0 <=> p = first BY <1>1, OffIs
  <2>. QED BY <2>1, <2>2 DEF Slots
<1>8. \A p \in Slots(n) : t[p] # NoKey => Off(first, p, n) > 0
  <2>1. \A p \in Slots(n) : Off(first, p, n) \in Slots(n) BY <1>1, OffIs
  <2>. QED BY <1>2, <1>7, <2>1 DEF Slots
<1>9. \E f \in Slots(n) : f # first /\ t[f] = NoKey BY <1>2 DEF Roomy
<1>10. Half(s, 0, e, first, n) BY <1>2, <1>3, <1>4, <1>5, <1>6, <1>7, <1>8, <1>9 DEF Half
<1>. QED BY <1>10 DEF s, t

LEMMA HalfStep ==
    ASSUME NEW n \in Nat \ {0}, NEW e, NEW first \in Slots(n), NEW s, NEW i \in Nat,
           Half(s, i, e, first, n), NEW look \in Slots(n), Off(first, look, n) = i + 1
    PROVE  Half(Looked(s, look, n), i + 1, e, first, n)
<1>. DEFINE t == s.ents  h == s.hole  home(p) == Home(t[p], n)  off(p) == Off(first, p, n)
            r == Looked(s, look, n)
<1>1. /\ s \in Removals(n) /\ t[h] = NoKey /\ Once(t, n)
      /\ Table!Content(t) = Table!Content(e) \ {e[first]}
      /\ t \in Tables(n) /\ h \in Slots(n)
  BY DEF Half, Removals
<1>2. \A p, j \in Slots(n) :
         t[p] # NoKey /\ Passes(home(p), j, p) /\ t[j] = NoKey => j = h
  BY DEF Half
<1>3. \A p \in Slots(n) : off(p) \in Nat /\ (off(p) = i + 1 => p = look)
  BY OffIs DEF Slots
<1>4. \A p \in Slots(n) : t[p] # NoKey => home(p) \in Slots(n)
  BY <1>1, ContentIs, HomeIsSlot
<1>5. CASE s.done
  <2>1. r = [s EXCEPT !.done = TRUE] BY <1>5 DEF Looked
  <2>2. r \in Removals(n) /\ r.ents = t /\ r.hole = h /\ r.done BY <1>1, <2>1, DoneIs
  <2>3. Reached(t, n) BY <1>5 DEF Half
  <2>. QED BY <1>1, <1>2, <2>2, <2>3 DEF Half
<1>6. CASE ~s.done
  <2>1. off(h) <= i BY <1>6 DEF Half
  <2>2. \A p \in Slots(n) : t[p] # NoKey /\ Passes(home(p), h, p) => off(p) > i
    BY <1>6 DEF Half
  <2>3. \A p \in Slots(n) : p # h /\ off(p) <= i => t[p] # NoKey BY <1>6 DEF Half
  <2>4. PICK f \in Slots(n) : f # h /\ t[f] = NoKey BY <1>6 DEF Half
  <2>5. off(h) < off(look) /\ look # h BY <1>1, <1>3, <2>1
  <2>6. CASE t[look] = NoKey
    <3>1. r = [s EXCEPT !.done = TRUE] BY <2>6 DEF Looked
    <3>2. r \in Removals(n) /\ r.ents = t /\ r.hole = h /\ r.done BY <1>1, <3>1, DoneIs
    <3>3. Reached(t, n)
      <4>. SUFFICES ASSUME NEW p \in Slots(n), NEW j \in Slots(n), t[p] # NoKey,
                           Passes(home(p), j, p), t[j] = NoKey
                    PROVE  FALSE
        BY DEF Reached
      <4>1. j = h BY <1>2
      <4>2. p # look /\ off(p) > i BY <2>2, <2>6, <4>1
      <4>3. off(look) < off(p) BY <1>3, <4>2
      <4>4. Passes(home(p), look, p)
        <5>. HIDE DEF home, off, t, h
        <5>1. home(p) \in Slots(n) BY <1>4
        <5>. QED BY <1>1, <2>5, <4>1, <4>3, <5>1, PassesOn DEF off
      <4>. QED BY <1>2, <2>5, <2>6, <4>4
    <3>. QED BY <1>1, <1>2, <3>2, <3>3 DEF Half
  <2>7. CASE t[look] # NoKey /\ ~Passes(home(look), h, look)
    <3>1. r = s BY <1>6, <2>7 DEF Looked, Passes, Home
    <3>2. \A p \in Slots(n) : t[p] # NoKey /\ Passes(home(p), h, p) => off(p) > i + 1
      BY <1>3, <2>2, <2>7
    <3>3. \A p \in Slots(n) : p # h /\ off(p) <= i + 1 => t[p] # NoKey
      BY <1>3, <2>3, <2>7
    <3>4. off(h) <= i + 1 BY <1>1, <1>3, <2>1
    <3>. QED BY <1>1, <1>2, <1>6, <2>4, <3>1, <3>2, <3>3, <3>4 DEF Half
  <2>8. CASE t[look] # NoKey /\ Passes(home(look), h, look)
    <3>. DEFINE u == r.ents
    <3>1. r = Moved(s, look) BY <1>6, <2>8 DEF Looked, Passes, Home
    <3>2. /\ r \in Removals(n) /\ r.hole = look /\ r.done = s.done
          /\ \A p \in Slots(n) : u[p] = IF p = look THEN NoKey
                                        ELSE IF p = h THEN t[look] ELSE t[p]
      <4>. DEFINE v == Moved(s, look)
      <4>1. /\ v \in Removals(n) /\ v.hole = look /\ v.done = s.done
            /\ \A p \in Slots(n) : v.ents[p] = IF p = look THEN NoKey
                                               ELSE IF p = h THEN t[look] ELSE t[p]
        BY <1>1, MovedIs
      <4>2. r = v BY <3>1
      <4>. HIDE DEF r, v, t, h
      <4>. QED BY <4>1, <4>2
    <3>3. u \in Tables(n) BY <3>2 DEF Removals
    <3>. HIDE DEF u, r, t, h, off
    <3>4. Once(u, n) BY <1>1, <2>8, <3>2 DEF Once
    <3>5. Table!Content(u) = Table!Content(t)
      <4>1. \A x : x \in Table!Content(u) <=> x # NoKey /\ \E p \in Slots(n) : u[p] = x
        BY <3>3, ContentIs
      <4>2. \A x : x \in Table!Content(t) <=> x # NoKey /\ \E p \in Slots(n) : t[p] = x
        BY <1>1, ContentIs
      <4>3. ASSUME NEW x, x \in Table!Content(u) PROVE x \in Table!Content(t)
        BY <1>1, <3>2, <4>1, <4>2, <4>3
      <4>4. ASSUME NEW x, x \in Table!Content(t) PROVE x \in Table!Content(u)
        <5>1. PICK p \in Slots(n) : t[p] = x BY <4>2, <4>4
        <5>2. x # NoKey /\ p # h BY <1>1, <4>2, <4>4, <5>1
        <5>3. CASE p = look
          <6>1. u[h] = x BY <1>1, <2>5, <3>2, <5>1, <5>3
          <6>. QED BY <1>1, <4>1, <5>2, <6>1
        <5>4. CASE p # look
          <6>1. u[p] = x BY <3>2, <5>1, <5>2, <5>4
          <6>. QED BY <4>1, <5>2, <6>1
        <5>. QED BY <5>3, <5>4
      <4>. QED BY <4>3, <4>4
    <3>6. ASSUME NEW p \in Slots(n), NEW j \in Slots(n), u[p] # NoKey,
                 Passes(Home(u[p], n), j, p), u[j] = NoKey
          PROVE  j = look
      <4>. SUFFICES ASSUME j # look PROVE FALSE OBVIOUS
      <4>1. j # h /\ t[j] = NoKey BY <2>8, <3>2, <3>6
      <4>2. CASE p = h
        <5>1. Home(u[p], n) = home(look) BY <1>1, <2>5, <3>2, <4>2
        <5>2. home(look) \in Slots(n) BY <1>4, <2>8
        <5>. HIDE DEF home
        <5>3. Passes(home(look), j, look)
          BY <1>1, <2>8, <3>6, <4>2, <5>1, <5>2, PassesFurther
        <5>. QED BY <1>2, <2>8, <4>1, <5>3
      <4>3. CASE p # h BY <1>2, <3>2, <3>6, <4>1, <4>3
      <4>. QED BY <4>2, <4>3
    <3>7. off(look) <= i + 1 BY DEF off
    <3>8. off(look) < off(f)
      <4>1. f # look /\ ~(off(f) <= i) BY <2>3, <2>4, <2>8
      <4>2. off(f) \in Nat /\ off(look) = i + 1 /\ off(f) # i + 1
        BY <1>3, <4>1 DEF off
      <4>. QED BY <4>1, <4>2
    <3>9. ASSUME NEW p \in Slots(n), u[p] # NoKey, Passes(Home(u[p], n), look, p)
          PROVE  off(p) > i + 1
      <4>. SUFFICES ASSUME ~(off(p) > i + 1) PROVE FALSE OBVIOUS
      <4>1. p # look BY <3>2, <3>9
      <4>2. p # h
        <5>. SUFFICES ASSUME p = h PROVE FALSE OBVIOUS
        <5>1. Home(u[p], n) = home(look) BY <1>1, <2>5, <3>2
        <5>2. home(look) \in Slots(n) BY <1>4, <2>8
        <5>. HIDE DEF home
        <5>. QED BY <1>1, <2>8, <3>9, <5>1, <5>2, PassesFurther
      <4>3. u[p] = t[p] BY <3>2, <4>1, <4>2
      <4>4. Home(u[p], n) = home(p) /\ t[p] # NoKey BY <3>9, <4>3
      <4>5. home(p) \in Slots(n) BY <1>4, <4>4
      <4>6. off(p) < off(look)
        <5>1. off(p) \in Nat /\ off(p) # i + 1 BY <1>3, <4>1
        <5>2. off(look) = i + 1 BY DEF off
        <5>. QED BY <5>1, <5>2
      <4>. HIDE DEF home
      <4>7. Passes(home(p), f, p)
        <5>1. Passes(home(p), look, p) BY <3>9, <4>4
        <5>. QED BY <3>8, <4>5, <4>6, <5>1, PassesOn DEF off
      <4>. QED BY <1>2, <2>4, <4>4, <4>7
    <3>10. ASSUME NEW p \in Slots(n), p # look, off(p) <= i + 1 PROVE u[p] # NoKey
      <4>1. CASE p = h BY <2>8, <3>2, <3>10, <4>1
      <4>2. CASE p # h
        <5>1. off(p) \in Nat /\ off(p) # i + 1 BY <1>3, <3>10
        <5>2. off(p) <= i BY <3>10, <5>1
        <5>. QED BY <2>3, <3>2, <3>10, <4>2, <5>2
      <4>. QED BY <4>1, <4>2
    <3>11. f # look /\ u[f] = NoKey BY <2>4, <2>8, <3>2
    <3>12. u[look] = NoKey BY <3>2
    <3>13. Table!Content(u) = Table!Content(e) \ {e[first]} BY <1>1, <3>5
    <3>14. ~r.done BY <1>6, <3>2
    <3>. QED BY <3>2, <3>4, <3>6, <3>7, <3>9, <3>10, <3>11, <3>12, <3>13, <3>14
         DEF Half, r, t, h, u, off, home
  <2>. QED BY <2>6, <2>7, <2>8
<1>. QED BY <1>5, <1>6

\* The looks of a removal, one after the other.
Removing(f, e, first, n) ==
    f = [i \in 0 .. n - 1 |->
            IF i = 0 THEN [ents |-> [e EXCEPT ![first] = NoKey],
                           hole |-> first, done |-> FALSE]
            ELSE Looked(f[i - 1], (first + i) % n, n)]

LEMMA RemovingExists ==
    ASSUME NEW n \in Nat \ {0}, NEW e \in Tables(n), NEW first \in Slots(n)
    PROVE  \E f : Removing(f, e, first, n)
<1>. DEFINE start == [ents |-> [e EXCEPT ![first] = NoKey], hole |-> first, done |-> FALSE]
            look(i) == (first + (i + 1)) % n
            step == [i \in Nat |-> [s \in Removals(n) |->
                        IF look(i) \in Slots(n) THEN Looked(s, look(i), n) ELSE s]]
<1>1. step \in [Nat -> [Removals(n) -> Removals(n)]]
  <2>. SUFFICES ASSUME NEW i \in Nat, NEW s \in Removals(n), look(i) \in Slots(n)
                PROVE  Looked(s, look(i), n) \in Removals(n)
    OBVIOUS
  <2>. HIDE DEF look
  <2>. QED BY MovedIs, DoneIs DEF Looked
<1>2. start \in Removals(n)
  <2>1. [e EXCEPT ![first] = NoKey] \in Tables(n) BY DEF Tables
  <2>. QED BY <2>1 DEF Removals
<1>. HIDE DEF step, start
<1>3. n - 1 \in Nat OBVIOUS
<1>4. PICK f \in [0 .. n - 1 -> Removals(n)] : Runs(f, start, step, n - 1)
  BY <1>1, <1>2, <1>3, RecursionExists
<1>5. ASSUME NEW i \in 0 .. n - 1
      PROVE  f[i] = IF i = 0 THEN start ELSE Looked(f[i - 1], (first + i) % n, n)
  <2>1. CASE i = 0 BY <1>4, <2>1 DEF Runs
  <2>2. CASE i # 0
    <3>1. i \in 1 .. n - 1 /\ i \in Slots(n) /\ i - 1 \in Nat /\ f[i - 1] \in Removals(n)
          /\ (i - 1) + 1 = i
      BY <1>4, <2>2 DEF Slots
    <3>2. f[i] = step[i - 1][f[i - 1]] BY <1>4, <3>1 DEF Runs
    <3>3. look(i - 1) = (first + i) % n BY <3>1
    <3>4. (first + i) % n \in Slots(n) BY <3>1, LookIs
    <3>. HIDE DEF look
    <3>5. step[i - 1][f[i - 1]] = Looked(f[i - 1], (first + i) % n, n)
      BY <3>1, <3>3, <3>4 DEF step
    <3>. QED BY <2>2, <3>2, <3>5
  <2>. QED BY <2>1, <2>2
<1>6. f = [i \in 0 .. n - 1 |-> f[i]] BY <1>4
<1>7. [i \in 0 .. n - 1 |-> f[i]]
        = [i \in 0 .. n - 1 |-> IF i = 0 THEN start
                                ELSE Looked(f[i - 1], (first + i) % n, n)]
  BY <1>5
<1>8. Removing(f, e, first, n) BY <1>6, <1>7 DEF Removing, start
<1>. QED BY <1>8

\* Without one entry the others are still found, wherever they have moved.
LEMMA RemovedIsSound ==
    ASSUME NEW n, NEW e, Sound(e, n), Roomy(e, n),
           NEW first \in Slots(n), e[first] # NoKey
    PROVE  /\ Sound(Table!Removed(e, first), n) /\ Roomy(Table!Removed(e, first), n)
           /\ Table!Content(Table!Removed(e, first)) = Table!Content(e) \ {e[first]}
<1>1. n \in Nat \ {0} /\ e \in Tables(n) /\ n - 1 \in Nat BY DEF Sound
<1>2. \E f : Removing(f, e, first, n) BY <1>1, RemovingExists
<1>. DEFINE f == CHOOSE g : Removing(g, e, first, n)
<1>3. Removing(f, e, first, n) BY <1>2
<1>4. Table!Removed(e, first) = f[n - 1].ents
  <2>1. Table!SizeOf(e) = n BY <1>1, TableSize
  <2>. QED BY <2>1 DEF Table!Removed, Removing, Looked, Moved
<1>. HIDE DEF f
<1>5. f[0] = [ents |-> [e EXCEPT ![first] = NoKey], hole |-> first, done |-> FALSE]
  BY <1>1, <1>3 DEF Removing
<1>6. ASSUME NEW i \in Nat, i + 1 <= n - 1
      PROVE  f[i + 1] = Looked(f[i], (first + (i + 1)) % n, n)
  <2>1. i + 1 \in 0 .. n - 1 /\ i + 1 # 0 /\ (i + 1) - 1 = i BY <1>1, <1>6
  <2>2. f[i + 1] = [x \in 0 .. n - 1 |->
            IF x = 0 THEN [ents |-> [e EXCEPT ![first] = NoKey],
                           hole |-> first, done |-> FALSE]
            ELSE Looked(f[x - 1], (first + x) % n, n)][i + 1]
    BY <1>3 DEF Removing
  <2>. QED BY <2>1, <2>2
<1>. DEFINE P == {i \in Nat : i <= n - 1 => Half(f[i], i, e, first, n)}
<1>7. 0 \in P BY <1>5, HalfInitially
<1>8. ASSUME NEW i \in Nat, i \in P PROVE i + 1 \in P
  <2>. SUFFICES ASSUME i + 1 <= n - 1 PROVE Half(f[i + 1], i + 1, e, first, n)
    OBVIOUS
  <2>1. Half(f[i], i, e, first, n) BY <1>1, <1>8
  <2>. DEFINE look == (first + (i + 1)) % n
  <2>2. i + 1 \in Slots(n) BY <1>1 DEF Slots
  <2>3. look \in Slots(n) /\ Off(first, look, n) = i + 1 BY <1>1, <2>2, LookIs
  <2>4. f[i + 1] = Looked(f[i], look, n) BY <1>6
  <2>. HIDE DEF look
  <2>. QED BY <1>1, <2>1, <2>3, <2>4, HalfStep
<1>9. Half(f[n - 1], n - 1, e, first, n)
  <2>. HIDE DEF P
  <2>1. n - 1 \in P BY <1>1, <1>7, <1>8, Induction
  <2>. QED BY <1>1, <2>1 DEF P
<1>. DEFINE s == f[n - 1]  t == s.ents
<1>. HIDE DEF s
<1>10. Half(s, n - 1, e, first, n) BY <1>9 DEF s
<1>11. Reached(t, n)
  <2>1. CASE s.done BY <1>10, <2>1 DEF Half
  <2>2. CASE ~s.done
    <3>1. \A p \in Slots(n) : ~(Off(first, p, n) > n - 1) BY <1>1, OffIs DEF Slots
    <3>2. \A p, j \in Slots(n) :
             t[p] # NoKey /\ Passes(Home(t[p], n), j, p) /\ t[j] = NoKey => j = s.hole
      BY <1>10 DEF Half
    <3>3. \A p \in Slots(n) : t[p] # NoKey => ~Passes(Home(t[p], n), s.hole, p)
      BY <1>10, <2>2, <3>1 DEF Half
    <3>. QED BY <3>2, <3>3 DEF Reached
  <2>. QED BY <2>1, <2>2
<1>12. t \in Tables(n) /\ Once(t, n) /\ t[s.hole] = NoKey /\ s.hole \in Slots(n)
       /\ Table!Content(t) = Table!Content(e) \ {e[first]}
  BY <1>10 DEF Half, Removals
<1>13. Table!Removed(e, first) = t BY <1>4 DEF s
<1>. QED BY <1>1, <1>11, <1>12, <1>13 DEF Sound, Roomy

-----------------------------------------------------------------------------
(* Filtering.                                                              *)

Picked(t, K) == {i \in DOMAIN t : t[i] \in K}

WithoutFirst(t, K) ==
    IF Picked(t, K) = {} THEN t ELSE Table!Removed(t, Table!Min(Picked(t, K)))

Filtering(f, e, K) ==
    f = [i \in 0 .. Cardinality(K) |-> IF i = 0 THEN e ELSE WithoutFirst(f[i - 1], K)]

\* One removal takes one of the keys, as long as there are any.
LEMMA WithoutFirstIsSound ==
    ASSUME NEW n, NEW e, Sound(e, n), Roomy(e, n), NEW K \in SUBSET TableKeys
    PROVE  /\ Sound(WithoutFirst(e, K), n) /\ Roomy(WithoutFirst(e, K), n)
           /\ IF K \cap Table!Content(e) = {} THEN WithoutFirst(e, K) = e
              ELSE \E x \in K \cap Table!Content(e) :
                      Table!Content(WithoutFirst(e, K)) = Table!Content(e) \ {x}
<1>1. n \in Nat \ {0} /\ e \in Tables(n) BY DEF Sound
<1>2. DOMAIN e = Slots(n) BY <1>1, TableSize
<1>3. \A x : x \in Table!Content(e) <=> x # NoKey /\ \E i \in Slots(n) : e[i] = x
  BY <1>1, ContentIs
<1>4. NoKey \notin K BY <1>1, ContentIs
<1>5. CASE Picked(e, K) = {}
  <2>1. K \cap Table!Content(e) = {} BY <1>2, <1>3, <1>5 DEF Picked
  <2>. QED BY <1>5, <2>1 DEF WithoutFirst
<1>6. CASE Picked(e, K) # {}
  <2>. DEFINE m == Min(Picked(e, K))
  <2>1. Picked(e, K) \in SUBSET Nat BY <1>2 DEF Picked, Slots
  <2>2. m \in Picked(e, K) BY <1>6, <2>1, MinIsLeast
  <2>3. WithoutFirst(e, K) = Table!Removed(e, m)
    BY <1>6, TableOperators DEF WithoutFirst
  <2>. HIDE DEF m
  <2>4. m \in Slots(n) /\ e[m] \in K /\ e[m] # NoKey BY <1>2, <1>4, <2>2 DEF Picked
  <2>5. e[m] \in K \cap Table!Content(e) BY <1>3, <2>4
  <2>6. /\ Sound(WithoutFirst(e, K), n) /\ Roomy(WithoutFirst(e, K), n)
        /\ Table!Content(WithoutFirst(e, K)) = Table!Content(e) \ {e[m]}
    BY <2>3, <2>4, RemovedIsSound
  <2>. QED BY <2>5, <2>6
<1>. QED BY <1>5, <1>6

LEMMA FilteringExists ==
    ASSUME NEW n, NEW e, Sound(e, n), Roomy(e, n),
           NEW K \in SUBSET TableKeys, IsFiniteSet(K)
    PROVE  \E f : Filtering(f, e, K)
<1>. DEFINE S == {t \in Tables(n) : Sound(t, n) /\ Roomy(t, n)}
            step == [i \in Nat |-> [t \in S |-> WithoutFirst(t, K)]]
            c == Cardinality(K)
<1>1. step \in [Nat -> [S -> S]]
  <2>. SUFFICES ASSUME NEW t \in S PROVE WithoutFirst(t, K) \in S
    OBVIOUS
  <2>1. Sound(WithoutFirst(t, K), n) /\ Roomy(WithoutFirst(t, K), n)
    BY WithoutFirstIsSound
  <2>. QED BY <2>1 DEF Sound
<1>2. e \in S BY DEF Sound
<1>3. c \in Nat BY FS_CardinalityType
<1>. HIDE DEF step, S, c
<1>4. PICK f \in [0 .. c -> S] : Runs(f, e, step, c)
  BY <1>1, <1>2, <1>3, RecursionExists
<1>5. ASSUME NEW i \in 0 .. c
      PROVE  f[i] = IF i = 0 THEN e ELSE WithoutFirst(f[i - 1], K)
  <2>1. CASE i = 0 BY <1>4, <2>1 DEF Runs
  <2>2. CASE i # 0
    <3>1. i \in 1 .. c /\ i - 1 \in Nat /\ f[i - 1] \in S BY <1>3, <1>4, <2>2
    <3>2. f[i] = step[i - 1][f[i - 1]] BY <1>4, <3>1 DEF Runs
    <3>3. step[i - 1][f[i - 1]] = WithoutFirst(f[i - 1], K) BY <3>1 DEF step
    <3>. QED BY <2>2, <3>2, <3>3
  <2>. QED BY <2>1, <2>2
<1>6. f = [i \in 0 .. c |-> f[i]] BY <1>4
<1>7. [i \in 0 .. c |-> f[i]]
        = [i \in 0 .. c |-> IF i = 0 THEN e ELSE WithoutFirst(f[i - 1], K)]
  BY <1>5
<1>8. Filtering(f, e, K) BY <1>6, <1>7 DEF Filtering, c
<1>. QED BY <1>8

\* Filtering leaves the keys that are not picked.
LEMMA FilteredIsSound ==
    ASSUME NEW n, NEW e, Sound(e, n), Roomy(e, n),
           NEW K \in SUBSET TableKeys, IsFiniteSet(K)
    PROVE  /\ Sound(Table!Filtered(e, K), n) /\ Roomy(Table!Filtered(e, K), n)
           /\ Table!Content(Table!Filtered(e, K)) = Table!Content(e) \ K
<1>. DEFINE c == Cardinality(K)  f == CHOOSE g : Filtering(g, e, K)
<1>1. c \in Nat BY FS_CardinalityType
<1>2. \E g : Filtering(g, e, K) BY FilteringExists
<1>3. Filtering(f, e, K) BY <1>2
<1>4. Table!Filtered(e, K) = f[c]
  BY TableOperators DEF Table!Filtered, Filtering, WithoutFirst, Picked
<1>. HIDE DEF f
<1>5. f[0] = e BY <1>1, <1>3 DEF Filtering
<1>6. ASSUME NEW i \in Nat, i + 1 <= c PROVE f[i + 1] = WithoutFirst(f[i], K)
  <2>1. i + 1 \in 0 .. c /\ i + 1 # 0 /\ (i + 1) - 1 = i BY <1>1, <1>6
  <2>2. f[i + 1] = [x \in 0 .. c |-> IF x = 0 THEN e ELSE WithoutFirst(f[x - 1], K)][i + 1]
    BY <1>3 DEF Filtering
  <2>. HIDE DEF c
  <2>. QED BY <2>1, <2>2
<1>. HIDE DEF c
<1>. DEFINE Left(t) == K \cap Table!Content(t)
            Q(t, i) == /\ Sound(t, n) /\ Roomy(t, n)
                       /\ Table!Content(t) \ K = Table!Content(e) \ K
                       /\ Table!Content(t) \subseteq Table!Content(e)
                       /\ Cardinality(Left(t)) + i <= c \/ Left(t) = {}
            P == {i \in Nat : i <= c => Q(f[i], i)}
<1>7. \A t : IsFiniteSet(Left(t)) /\ Cardinality(Left(t)) \in Nat /\ Cardinality(Left(t)) <= c
  <2>. SUFFICES ASSUME NEW t
                PROVE  IsFiniteSet(Left(t)) /\ Cardinality(Left(t)) \in Nat
                       /\ Cardinality(Left(t)) <= c
    OBVIOUS
  <2>1. Left(t) \in SUBSET K OBVIOUS
  <2>. HIDE DEF Left
  <2>2. IsFiniteSet(Left(t)) /\ Cardinality(Left(t)) <= c BY <2>1, FS_Subset DEF c
  <2>. QED BY <2>2, FS_CardinalityType
<1>8. 0 \in P
  <2>1. Cardinality(Left(e)) + 0 <= c BY <1>1, <1>7
  <2>. HIDE DEF Left
  <2>. QED BY <1>5, <2>1
<1>9. ASSUME NEW i \in Nat, i \in P PROVE i + 1 \in P
  <2>. SUFFICES ASSUME i + 1 <= c PROVE Q(f[i + 1], i + 1)
    OBVIOUS
  <2>1. Q(f[i], i) BY <1>1, <1>9
  <2>2. f[i + 1] = WithoutFirst(f[i], K) BY <1>6
  <2>. DEFINE t == f[i]  u == f[i + 1]
  <2>3. /\ Sound(u, n) /\ Roomy(u, n)
        /\ IF K \cap Table!Content(t) = {} THEN u = t
           ELSE \E x \in K \cap Table!Content(t) : Table!Content(u) = Table!Content(t) \ {x}
    BY <2>1, <2>2, WithoutFirstIsSound
  <2>. HIDE DEF t, u
  <2>4. Q(t, i) BY <2>1 DEF t
  <2>5. CASE Left(t) = {} BY <2>3, <2>4, <2>5 DEF u
  <2>6. CASE Left(t) # {}
    <3>1. PICK x \in Left(t) : Table!Content(u) = Table!Content(t) \ {x} BY <2>3, <2>6
    <3>2. Left(u) = Left(t) \ {x} BY <3>1
    <3>3. x \in K BY <3>1
    <3>4. Cardinality(Left(t)) + i <= c BY <2>4, <2>6
    <3>5. Cardinality(Left(u)) + (i + 1) <= c
      <4>. HIDE DEF Left
      <4>1. Cardinality(Left(t) \ {x}) = Cardinality(Left(t)) - 1
        BY <1>7, <3>1, FS_RemoveElement
      <4>2. Cardinality(Left(t)) \in Nat BY <1>7
      <4>. QED BY <1>1, <3>2, <3>4, <4>1, <4>2
    <3>. HIDE DEF Left
    <3>6. Q(u, i + 1) BY <2>3, <2>4, <3>1, <3>3, <3>5
    <3>. QED BY <3>6 DEF u
  <2>. QED BY <2>5, <2>6
<1>10. Q(f[c], c)
  <2>. HIDE DEF P, Q
  <2>1. c \in P BY <1>1, <1>8, <1>9, Induction
  <2>. QED BY <1>1, <2>1 DEF P
<1>11. Left(f[c]) = {}
  <2>. DEFINE T == Left(f[c])
  <2>1. Cardinality(T) + c <= c \/ T = {} BY <1>10
  <2>2. IsFiniteSet(T) /\ Cardinality(T) \in Nat BY <1>7
  <2>. HIDE DEF T
  <2>3. T = {}
    <3>. SUFFICES ASSUME T # {} PROVE FALSE OBVIOUS
    <3>1. Cardinality(T) = 0 BY <1>1, <2>1, <2>2
    <3>. QED BY <2>2, <3>1, FS_EmptySet
  <2>. QED BY <2>3 DEF T
<1>12. Table!Content(f[c]) = Table!Content(e) \ K BY <1>10, <1>11
<1>. QED BY <1>4, <1>10, <1>12

-----------------------------------------------------------------------------
(* The hash table.                                                         *)

Calls ==
    {Table!Idle} \cup [pc : {"insert"}, key : TableKeys]
    \cup [pc : {"grow"}, key : TableKeys, newsize : {m \in Nat : m >= 2 * InitialSize}]

\* The threads that will insert without looking at the load again.
Waiting(c, n) == {t \in Threads : \/ c[t].pc = "insert"
                                  \/ c[t].pc = "grow" /\ c[t].newsize <= n}

\* What the load may come to: one more than the size allows, or, once a
\* thread can have been overtaken, one more for each.
Limit(n) == (n * 8) \div 10 + (IF n < 2 * InitialSize THEN 1 ELSE Cardinality(Threads))

Fits(e, l, s, n) ==
    /\ Sound(e, n) /\ n >= InitialSize
    /\ l = Cardinality(Table!Content(e)) /\ s = Table!Content(e)

Bounded(l, c, n) ==
    /\ c \in [Threads -> Calls]
    /\ \A t \in Threads : c[t].pc = "grow" => c[t].newsize <= n \/ c[t].newsize = 2 * n
    /\ n < 2 * InitialSize => Waiting(c, n) = {}
    /\ l + Cardinality(Waiting(c, n)) <= Limit(n)

TableInv == Fits(ents, load, stored, Table!size) /\ Bounded(load, call, Table!size)

LEMMA TableConstants ==
    /\ InitialSize \in Nat /\ InitialSize >= 6
    /\ IsFiniteSet(Threads) /\ Cardinality(Threads) \in Nat
    /\ \A n \in Nat : n >= InitialSize =>
          Limit(n) \in Nat /\ Limit(n) < n /\ Limit(2 * n) >= n + Cardinality(Threads)
    /\ \A K \in Filters : K \in SUBSET TableKeys /\ IsFiniteSet(K)
<1>. DEFINE T == Cardinality(Threads)
<1>1. InitialSize \in Nat /\ InitialSize >= 6 BY TableAssumption DEF Table!SizeAssumption
<1>2. IsFiniteSet(Threads) /\ T < 2 * InitialSize - (2 * InitialSize * 8) \div 10
  BY TableAssumption, TableOperators
     DEF Table!ThreadsAssumption, Table!IsFiniteSet, IsFiniteSet
<1>3. T \in Nat BY <1>2, FS_CardinalityType
<1>4. \A K \in Filters : K \in SUBSET TableKeys /\ IsFiniteSet(K)
  BY TableAssumption DEF Table!FiltersAssumption, Table!IsFiniteSet, IsFiniteSet
<1>. HIDE DEF T
<1>5. ASSUME NEW n \in Nat, n >= InitialSize
      PROVE  Limit(n) \in Nat /\ Limit(n) < n /\ Limit(2 * n) >= n + T
  <2>1. CASE n < 2 * InitialSize
    <3>1. Limit(n) = (n * 8) \div 10 + 1 BY <2>1 DEF Limit
    <3>. QED BY <1>1, <1>3, <1>5, <3>1 DEF Limit, T
  <2>2. CASE ~(n < 2 * InitialSize)
    <3>1. Limit(n) = (n * 8) \div 10 + T BY <2>2 DEF Limit, T
    <3>2. (2 * InitialSize) - (2 * InitialSize * 8) \div 10 <= n - (n * 8) \div 10
      BY <1>1, <2>2
    <3>3. Limit(n) < n BY <1>1, <1>2, <1>3, <3>1, <3>2
    <3>4. Limit(n) \in Nat BY <1>3, <3>1
    <3>5. Limit(2 * n) = (2 * n * 8) \div 10 + T BY <1>1, <1>5 DEF Limit, T
    <3>. QED BY <1>3, <3>3, <3>4, <3>5
  <2>. QED BY <2>1, <2>2
<1>. QED BY <1>1, <1>2, <1>3, <1>4, <1>5 DEF T

\* There is room for a search to end.
LEMMA TableHasRoom ==
    ASSUME NEW e, NEW l, NEW s, NEW c, NEW n, Fits(e, l, s, n), Bounded(l, c, n)
    PROVE  /\ n \in Nat \ {0} /\ e \in Tables(n) /\ Roomy(e, n)
           /\ l \in Nat /\ l < n
           /\ IsFiniteSet(Waiting(c, n)) /\ Cardinality(Waiting(c, n)) \in Nat
           /\ IsFiniteSet(s) /\ s \subseteq TableKeys
<1>1. n \in Nat \ {0} /\ e \in Tables(n) BY DEF Fits, Sound
<1>2. IsFiniteSet(s) /\ l \in 0 .. n BY FilledCount DEF Fits
<1>3. Waiting(c, n) \in SUBSET Threads BY DEF Waiting
<1>4. IsFiniteSet(Waiting(c, n)) BY <1>3, TableConstants, FS_Subset
<1>5. Cardinality(Waiting(c, n)) \in Nat BY <1>4, FS_CardinalityType
<1>6. l < n
  <2>1. Limit(n) < n /\ Limit(n) \in Nat BY <1>1, TableConstants DEF Fits
  <2>2. l + Cardinality(Waiting(c, n)) <= Limit(n) BY DEF Bounded
  <2>. QED BY <1>1, <1>2, <1>5, <2>1, <2>2
<1>7. Roomy(e, n) BY <1>6, FilledCount DEF Fits
<1>8. s \subseteq TableKeys BY <1>1, ContentIs DEF Fits
<1>. QED BY <1>1, <1>2, <1>4, <1>5, <1>6, <1>7, <1>8

LEMMA SizeIs ==
    ASSUME NEW e, NEW l, NEW s, NEW n, Fits(e, l, s, n)
    PROVE  Table!SizeOf(e) = n
<1>1. n \in Nat \ {0} /\ e \in Tables(n) BY DEF Fits, Sound
<1>. QED BY <1>1, TableSize

LEMMA PutKeeps ==
    ASSUME NEW n, Fits(ents, load, stored, n), Bounded(load, call, n),
           NEW k \in TableKeys, Table!Put(k)
    PROVE  Fits(ents', load', stored', n) /\ load' <= load + 1 /\ load' \in Nat
<1>1. n \in Nat \ {0} /\ Roomy(ents, n) /\ load \in Nat /\ IsFiniteSet(stored)
  BY TableHasRoom
<1>2. Sound(ents, n) /\ n >= InitialSize /\ load = Cardinality(stored)
      /\ stored = Table!Content(ents)
  BY DEF Fits
<1>3. /\ ents' = Table!Inserted(ents, k) /\ stored' = stored \cup {k}
      /\ load' = IF Table!Found(ents, k) THEN load ELSE load + 1
  BY DEF Table!Put
<1>4. Sound(ents', n) /\ Table!Content(ents') = stored' BY <1>1, <1>2, <1>3, InsertedIsSound
<1>5. Table!Found(ents, k) <=> k \in stored BY <1>1, <1>2, FoundIs
<1>6. Cardinality(stored') = IF k \in stored THEN load ELSE load + 1
  BY <1>1, <1>2, <1>3, FS_AddElement
<1>7. load' = Cardinality(stored') BY <1>3, <1>5, <1>6
<1>. QED BY <1>1, <1>2, <1>3, <1>4, <1>7 DEF Fits

Waits(x, n) == x.pc = "insert" \/ (x.pc = "grow" /\ x.newsize <= n)

LEMMA CallsAre ==
    ASSUME NEW x \in Calls
    PROVE  /\ x.pc \in {"idle", "insert", "grow"}
           /\ x.pc = "idle" <=> x = Table!Idle
           /\ x.pc # "idle" => x.key \in TableKeys
           /\ x.pc = "grow" => x.newsize \in Nat /\ x.newsize >= 2 * InitialSize
BY DEF Calls, Table!Idle

LEMMA CallChanges ==
    ASSUME NEW c \in [Threads -> Calls], NEW t \in Threads, NEW x \in Calls, NEW n
    PROVE  LET d == [c EXCEPT ![t] = x] IN
           /\ d \in [Threads -> Calls] /\ d[t] = x
           /\ \A u \in Threads : u # t => d[u] = c[u]
           /\ Waiting(d, n) = IF Waits(x, n) THEN Waiting(c, n) \cup {t}
                              ELSE Waiting(c, n) \ {t}
           /\ t \in Waiting(c, n) <=> Waits(c[t], n)
<1>. DEFINE d == [c EXCEPT ![t] = x]
<1>1. d \in [Threads -> Calls] /\ d[t] = x /\ \A u \in Threads : u # t => d[u] = c[u]
  OBVIOUS
<1>. HIDE DEF d
<1>2. \A u \in Threads : u \in Waiting(d, n) <=> Waits(d[u], n) BY DEF Waiting, Waits
<1>3. \A u \in Threads : u \in Waiting(c, n) <=> Waits(c[u], n) BY DEF Waiting, Waits
<1>4. Waiting(d, n) \subseteq Threads /\ Waiting(c, n) \subseteq Threads BY DEF Waiting
<1>5. CASE Waits(x, n)
  <2>1. Waiting(d, n) = Waiting(c, n) \cup {t} BY <1>1, <1>2, <1>3, <1>4, <1>5
  <2>. QED BY <1>1, <1>3, <1>5, <2>1 DEF d
<1>6. CASE ~Waits(x, n)
  <2>1. Waiting(d, n) = Waiting(c, n) \ {t} BY <1>1, <1>2, <1>3, <1>4, <1>6
  <2>. QED BY <1>1, <1>3, <1>6, <2>1 DEF d
<1>. QED BY <1>5, <1>6

LEMMA TableInvAgain ==
    ASSUME NEW n, Fits(ents', load', stored', n), Bounded(load', call', n)
    PROVE  TableInv'
<1>1. Table!SizeOf(ents') = n BY SizeIs
<1>. QED BY <1>1 DEF TableInv, Table!size

\* An insertion that has looked at the load.
LEMMA InsertKeeps ==
    ASSUME TableInv, NEW t \in Threads, NEW k \in TableKeys, Table!Insert(t, k)
    PROVE  TableInv'
<1>. DEFINE n == Table!size  W == Waiting(call, n)
<1>1. Fits(ents, load, stored, n) /\ Bounded(load, call, n) BY DEF TableInv
<1>2. call[t] = Table!Idle /\ call' = call /\ Table!Put(k) /\ ~(load > (n * 8) \div 10)
  BY DEF Table!Insert, Table!Crowded
<1>. HIDE DEF n
<1>3. /\ n \in Nat \ {0} /\ load \in Nat /\ IsFiniteSet(W) /\ Cardinality(W) \in Nat
  BY <1>1, TableHasRoom
<1>4. Fits(ents', load', stored', n) /\ load' <= load + 1 /\ load' \in Nat
  BY <1>1, <1>2, PutKeeps
<1>5. load' + Cardinality(W) <= Limit(n)
  <2>1. CASE n < 2 * InitialSize
    <3>1. W = {} BY <1>1, <2>1 DEF Bounded
    <3>2. Cardinality(W) = 0 BY <3>1, FS_EmptySet
    <3>3. Limit(n) = (n * 8) \div 10 + 1 BY <2>1 DEF Limit
    <3>. DEFINE room == (n * 8) \div 10  waiting == Cardinality(W)
    <3>4. room \in Nat /\ Limit(n) = room + 1 BY <1>3, <3>3
    <3>5. load <= room BY <1>2, <1>3, <3>4
    <3>6. waiting = 0 BY <3>2
    <3>. HIDE DEF room, waiting
    <3>7. PICK l \in Nat : l = load' BY <1>4
    <3>8. load' <= room + 1 BY <1>3, <1>4, <3>4, <3>5
    <3>9. l + waiting <= room + 1
      <4>1. l <= room + 1 BY <3>7, <3>8
      <4>2. l + waiting = l BY <3>6
      <4>. QED BY <4>1, <4>2
    <3>. QED BY <3>4, <3>7, <3>9 DEF waiting
  <2>2. CASE ~(n < 2 * InitialSize)
    <3>1. t \notin W BY <1>2 DEF Waiting, Table!Idle
    <3>2. W \in SUBSET Threads /\ W # Threads BY <3>1 DEF Waiting
    <3>. HIDE DEF W
    <3>3. Cardinality(W) <= Cardinality(Threads) /\ Cardinality(Threads) # Cardinality(W)
      BY <3>2, TableConstants, FS_Subset
    <3>4. Cardinality(Threads) \in Nat BY TableConstants
    <3>5. Cardinality(W) + 1 <= Cardinality(Threads) BY <1>3, <3>3, <3>4
    <3>6. Limit(n) = (n * 8) \div 10 + Cardinality(Threads) BY <2>2 DEF Limit
    <3>. QED BY <1>2, <1>3, <1>4, <3>4, <3>5, <3>6
  <2>. QED BY <2>1, <2>2
<1>6. Bounded(load', call', n) BY <1>1, <1>2, <1>5 DEF Bounded
<1>. QED BY <1>4, <1>6, TableInvAgain

\* A call goes on, and leaves the table alone.
LEMMA CallKeeps ==
    ASSUME TableInv, NEW t \in Threads, NEW x \in Calls,
           call' = [call EXCEPT ![t] = x], UNCHANGED <<ents, load, stored>>,
           x.pc = "grow" => x.newsize = 2 * Table!size,
           Waits(x, Table!size) => Waits(call[t], Table!size)
    PROVE  TableInv'
<1>. DEFINE n == Table!size
<1>1. Fits(ents, load, stored, n) /\ Bounded(load, call, n) BY DEF TableInv
<1>2. x.pc = "grow" => x.newsize = 2 * n OBVIOUS
<1>3. Waits(x, n) => Waits(call[t], n) OBVIOUS
<1>. HIDE DEF n
<1>. DEFINE W == Waiting(call, n)  V == Waiting(call', n)
<1>4. /\ n \in Nat \ {0} /\ load \in Nat /\ IsFiniteSet(W) /\ Cardinality(W) \in Nat
  BY <1>1, TableHasRoom
<1>5. call \in [Threads -> Calls] BY <1>1 DEF Bounded
<1>6. /\ call' \in [Threads -> Calls] /\ call'[t] = x
      /\ \A u \in Threads : u # t => call'[u] = call[u]
      /\ V = IF Waits(x, n) THEN W \cup {t} ELSE W \ {t}
      /\ t \in W <=> Waits(call[t], n)
  <2>. DEFINE d == [call EXCEPT ![t] = x]
  <2>1. /\ d \in [Threads -> Calls] /\ d[t] = x
        /\ \A u \in Threads : u # t => d[u] = call[u]
        /\ Waiting(d, n) = IF Waits(x, n) THEN W \cup {t} ELSE W \ {t}
        /\ t \in W <=> Waits(call[t], n)
    BY <1>5, CallChanges
  <2>2. call' = d OBVIOUS
  <2>. HIDE DEF d, W
  <2>. QED BY <2>1, <2>2
<1>7. V \in SUBSET W BY <1>3, <1>6
<1>. HIDE DEF V
<1>8. IsFiniteSet(V) /\ Cardinality(V) <= Cardinality(W) BY <1>4, <1>7, FS_Subset
<1>9. Cardinality(V) \in Nat BY <1>8, FS_CardinalityType
<1>10. load + Cardinality(W) <= Limit(n) BY <1>1 DEF Bounded
<1>11. Limit(n) \in Nat BY <1>1, <1>4, TableConstants DEF Fits
<1>12. load + Cardinality(V) <= Limit(n) BY <1>4, <1>8, <1>9, <1>10, <1>11
<1>13. n < 2 * InitialSize => V = {} BY <1>1, <1>7 DEF Bounded
<1>14. ASSUME NEW u \in Threads, call'[u].pc = "grow"
       PROVE  call'[u].newsize <= n \/ call'[u].newsize = 2 * n
  <2>1. CASE u = t BY <1>2, <1>6, <1>14, <2>1
  <2>2. CASE u # t BY <1>1, <1>6, <1>14, <2>2 DEF Bounded
  <2>. QED BY <2>1, <2>2
<1>15. Bounded(load', call', n) BY <1>6, <1>12, <1>13, <1>14 DEF Bounded, V
<1>16. Fits(ents', load', stored', n) BY <1>1
<1>. QED BY <1>15, <1>16, TableInvAgain

\* The table grows: those that wait were allowed for, and so is everyone.
LEMMA GrowKeeps ==
    ASSUME TableInv, NEW t \in Threads, Table!Grow(t)
    PROVE  TableInv'
<1>. DEFINE n == Table!size  m == call[t].newsize
            x == [pc |-> "insert", key |-> call[t].key]
<1>1. Fits(ents, load, stored, n) /\ Bounded(load, call, n) BY DEF TableInv
<1>2. /\ call[t].pc = "grow" /\ n < m
      /\ ents' = Table!Rehashed(ents, m) /\ stored' = stored
      /\ load' = Cardinality(Table!Content(ents'))
      /\ call' = [call EXCEPT ![t] = x]
  BY TableOperators DEF Table!Grow
<1>. HIDE DEF n
<1>3. n \in Nat \ {0} /\ load \in Nat /\ load < n BY <1>1, TableHasRoom
<1>4. call \in [Threads -> Calls] BY <1>1 DEF Bounded
<1>5. call[t].key \in TableKeys /\ m \in Nat /\ m >= 2 * InitialSize
  BY <1>2, <1>4, CallsAre
<1>6. x \in Calls BY <1>5 DEF Calls
<1>7. m = 2 * n BY <1>1, <1>2, <1>3, <1>5 DEF Bounded
<1>. HIDE DEF x, m
<1>8. Sound(ents', m) /\ Table!Content(ents') = stored
  BY <1>1, <1>2, <1>5, RehashedIsSound DEF Fits
<1>9. load' = load BY <1>1, <1>2, <1>8 DEF Fits
<1>10. m >= InitialSize BY <1>5, TableConstants
<1>11. Fits(ents', load', stored', m) BY <1>2, <1>8, <1>10 DEF Fits
<1>. DEFINE V == Waiting(call', m)
<1>12. /\ call' \in [Threads -> Calls] /\ call'[t] = x
       /\ \A u \in Threads : u # t => call'[u] = call[u]
  BY <1>2, <1>4, <1>6, CallChanges
<1>13. load' + Cardinality(V) <= Limit(m)
  <2>1. V \in SUBSET Threads BY DEF Waiting
  <2>. HIDE DEF V
  <2>2. IsFiniteSet(V) /\ Cardinality(V) <= Cardinality(Threads)
    BY <2>1, TableConstants, FS_Subset
  <2>3. Cardinality(V) \in Nat /\ Cardinality(Threads) \in Nat
    BY <2>2, TableConstants, FS_CardinalityType
  <2>4. Limit(m) >= n + Cardinality(Threads) /\ Limit(m) \in Nat
    BY <1>1, <1>3, <1>5, <1>7, <1>10, TableConstants DEF Fits
  <2>. QED BY <1>3, <1>9, <2>2, <2>3, <2>4
<1>14. ASSUME NEW u \in Threads, call'[u].pc = "grow"
       PROVE  call'[u].newsize <= m \/ call'[u].newsize = 2 * m
  <2>1. u # t BY <1>12, <1>14 DEF x
  <2>2. call[u].pc = "grow" /\ call'[u].newsize = call[u].newsize BY <1>12, <1>14, <2>1
  <2>3. call[u].newsize \in Nat BY <1>4, <2>2, CallsAre
  <2>4. call[u].newsize <= n \/ call[u].newsize = 2 * n BY <1>1, <2>2 DEF Bounded
  <2>. QED BY <1>3, <1>7, <2>2, <2>3, <2>4
<1>15. ~(m < 2 * InitialSize) BY <1>5, TableConstants
<1>16. Bounded(load', call', m) BY <1>12, <1>13, <1>14, <1>15 DEF Bounded
<1>. QED BY <1>11, <1>16, TableInvAgain

\* An insertion after growing takes the place that was kept for it.
LEMMA FinishKeeps ==
    ASSUME TableInv, NEW t \in Threads, Table!FinishInsert(t)
    PROVE  TableInv'
<1>. DEFINE n == Table!size  k == call[t].key
<1>1. Fits(ents, load, stored, n) /\ Bounded(load, call, n) BY DEF TableInv
<1>2. call[t].pc = "insert" /\ Table!Put(k) /\ call' = [call EXCEPT ![t] = Table!Idle]
  BY DEF Table!FinishInsert
<1>. HIDE DEF n
<1>. DEFINE W == Waiting(call, n)  V == Waiting(call', n)
<1>3. /\ n \in Nat \ {0} /\ load \in Nat /\ IsFiniteSet(W) /\ Cardinality(W) \in Nat
  BY <1>1, TableHasRoom
<1>4. call \in [Threads -> Calls] /\ Table!Idle \in Calls BY <1>1 DEF Bounded, Calls
<1>5. k \in TableKeys BY <1>2, <1>4, CallsAre
<1>. HIDE DEF k
<1>6. Fits(ents', load', stored', n) /\ load' <= load + 1 /\ load' \in Nat
  BY <1>1, <1>2, <1>5, PutKeeps
<1>7. ~Waits(Table!Idle, n) /\ Waits(call[t], n) BY <1>2 DEF Waits, Table!Idle
<1>8. /\ call' \in [Threads -> Calls] /\ call'[t] = Table!Idle
      /\ \A u \in Threads : u # t => call'[u] = call[u]
      /\ V = W \ {t} /\ t \in W
  <2>. DEFINE d == [call EXCEPT ![t] = Table!Idle]
  <2>1. /\ d \in [Threads -> Calls] /\ d[t] = Table!Idle
        /\ \A u \in Threads : u # t => d[u] = call[u]
        /\ Waiting(d, n) = IF Waits(Table!Idle, n) THEN W \cup {t} ELSE W \ {t}
        /\ t \in W <=> Waits(call[t], n)
    BY <1>4, CallChanges
  <2>2. call' = d BY <1>2
  <2>. HIDE DEF d, W
  <2>. QED BY <1>7, <2>1, <2>2
<1>. HIDE DEF V, W
<1>9. Cardinality(V) = Cardinality(W) - 1 BY <1>3, <1>8, FS_RemoveElement
<1>10. load + Cardinality(W) <= Limit(n) BY <1>1 DEF Bounded, W
<1>11. Limit(n) \in Nat BY <1>1, <1>3, TableConstants DEF Fits
<1>12. load' + Cardinality(V) <= Limit(n) BY <1>3, <1>6, <1>9, <1>10, <1>11
<1>13. n < 2 * InitialSize => V = {} BY <1>1, <1>8 DEF Bounded, W
<1>14. ASSUME NEW u \in Threads, call'[u].pc = "grow"
       PROVE  call'[u].newsize <= n \/ call'[u].newsize = 2 * n
  <2>1. u # t BY <1>8, <1>14 DEF Table!Idle
  <2>. QED BY <1>1, <1>8, <1>14, <2>1 DEF Bounded
<1>15. Bounded(load', call', n) BY <1>8, <1>12, <1>13, <1>14 DEF Bounded, V
<1>. QED BY <1>6, <1>15, TableInvAgain

\* Keys go, and the load with them.
LEMMA LessKeeps ==
    ASSUME TableInv, UNCHANGED call, NEW K \in SUBSET TableKeys,
           Sound(ents', Table!size), Table!Content(ents') = stored \ K,
           stored' = stored \ K,
           load' = load - Cardinality(K \cap stored)
    PROVE  TableInv'
<1>. DEFINE n == Table!size  W == Waiting(call, n)  G == K \cap stored
<1>1. Fits(ents, load, stored, n) /\ Bounded(load, call, n) BY DEF TableInv
<1>2. Sound(ents', n) OBVIOUS
<1>. HIDE DEF n
<1>3. /\ n \in Nat \ {0} /\ load \in Nat /\ Cardinality(W) \in Nat /\ IsFiniteSet(stored)
  BY <1>1, TableHasRoom
<1>4. load = Cardinality(stored) BY <1>1 DEF Fits
<1>5. G \in SUBSET stored /\ stored \ K = stored \ G OBVIOUS
<1>. HIDE DEF G
<1>6. /\ IsFiniteSet(G) /\ Cardinality(G) <= load
      /\ Cardinality(stored \ G) = load - Cardinality(G)
  <2>1. IsFiniteSet(G) /\ Cardinality(G) <= Cardinality(stored)
    BY <1>3, <1>5, FS_Subset
  <2>2. Cardinality(stored \ G) = Cardinality(stored) - Cardinality(stored \cap G)
    BY <1>3, FS_Difference
  <2>3. stored \cap G = G BY <1>5
  <2>. QED BY <1>4, <2>1, <2>2, <2>3
<1>7. Cardinality(G) \in Nat BY <1>6, FS_CardinalityType
<1>8. load' = load - Cardinality(G) BY DEF G
<1>9. load' = Cardinality(stored') BY <1>5, <1>6, <1>8
<1>10. Fits(ents', load', stored', n) BY <1>1, <1>2, <1>9 DEF Fits
<1>11. load + Cardinality(W) <= Limit(n) BY <1>1 DEF Bounded
<1>12. Limit(n) \in Nat BY <1>1, <1>3, TableConstants DEF Fits
<1>13. load' + Cardinality(W) <= Limit(n) BY <1>3, <1>7, <1>8, <1>11, <1>12
<1>14. Bounded(load', call', n) BY <1>1, <1>13 DEF Bounded
<1>. QED BY <1>10, <1>14, TableInvAgain

LEMMA TableStep ==
    ASSUME TableInv, Table!Next
    PROVE  TableInv'
<1>. DEFINE n == Table!size
<1>0. /\ Fits(ents, load, stored, n) /\ Bounded(load, call, n)
      /\ n \in Nat \ {0} /\ ents \in Tables(n) /\ Roomy(ents, n) /\ IsFiniteSet(stored)
      /\ Sound(ents, n) /\ stored = Table!Content(ents) /\ call \in [Threads -> Calls]
      /\ n >= InitialSize
  BY TableHasRoom DEF TableInv, Fits, Bounded
<1>1. ASSUME NEW t \in Threads, NEW k \in TableKeys, Table!Insert(t, k) PROVE TableInv'
  BY <1>1, InsertKeeps
<1>2. ASSUME NEW t \in Threads, NEW k \in TableKeys, Table!StartGrowing(t, k) PROVE TableInv'
  <2>. DEFINE x == [pc |-> "grow", key |-> k, newsize |-> 2 * n]
  <2>1. call' = [call EXCEPT ![t] = x] /\ UNCHANGED <<ents, load, stored>>
    BY <1>2 DEF Table!StartGrowing
  <2>2. x \in Calls
    <3>1. 2 * n \in Nat /\ 2 * n >= 2 * InitialSize BY <1>0, TableConstants
    <3>. HIDE DEF n
    <3>. QED BY <3>1 DEF Calls
  <2>3. x.pc = "grow" => x.newsize = 2 * n OBVIOUS
  <2>4. ~Waits(x, n)
    <3>. HIDE DEF n
    <3>. QED BY <1>0 DEF Waits
  <2>. HIDE DEF x
  <2>. QED BY <2>1, <2>2, <2>3, <2>4, CallKeeps
<1>3. ASSUME NEW t \in Threads, NEW k \in TableKeys, Table!Remove(t, k) PROVE TableInv'
  <2>. DEFINE p == Table!Stop(ents, k)  d == Table!Removed(ents, p)
  <2>1. /\ Table!Found(ents, k) /\ ents' = d /\ load' = load - 1
        /\ stored' = stored \ {k} /\ call' = call
    BY <1>3 DEF Table!Remove
  <2>2. p \in Slots(n) /\ ents[p] = k
    <3>1. p \in Slots(n) BY <1>0, StopIs
    <3>. QED BY <2>1, <3>1 DEF Table!Found
  <2>. HIDE DEF p, n
  <2>3. k # NoKey BY TableAssumption DEF Table!KeysAssumption
  <2>4. Sound(d, n) /\ Table!Content(d) = stored \ {k}
    BY <1>0, <2>2, <2>3, RemovedIsSound
  <2>. HIDE DEF d
  <2>5. k \in stored BY <1>0, <2>1, FoundIs
  <2>6. {k} \cap stored = {k} /\ Cardinality({k}) = 1 BY <2>5, FS_Singleton
  <2>7. load' = load - Cardinality({k} \cap stored) BY <2>1, <2>6
  <2>8. Sound(ents', n) /\ Table!Content(ents') = stored \ {k} BY <2>1, <2>4
  <2>. QED BY <2>1, <2>7, <2>8, LessKeeps DEF n
<1>4. ASSUME NEW t \in Threads, NEW K \in Filters, Table!Filter(t, K) PROVE TableInv'
  <2>1. K \in SUBSET TableKeys /\ IsFiniteSet(K) BY TableConstants
  <2>2. /\ ents' = Table!Filtered(ents, K) /\ stored' = stored \ K /\ call' = call
        /\ load' = load - Cardinality(K \cap stored)
    BY <1>0, <1>4, TableOperators DEF Table!Filter
  <2>. HIDE DEF n
  <2>3. Sound(ents', n) /\ Table!Content(ents') = stored \ K
    BY <1>0, <2>1, <2>2, FilteredIsSound
  <2>. QED BY <2>1, <2>2, <2>3, LessKeeps DEF n
<1>5. ASSUME NEW t \in Threads, Table!Grow(t) PROVE TableInv'
  BY <1>5, GrowKeeps
<1>6. ASSUME NEW t \in Threads, Table!GrownMeanwhile(t) PROVE TableInv'
  <2>. DEFINE x == [pc |-> "insert", key |-> call[t].key]
  <2>1. /\ call' = [call EXCEPT ![t] = x] /\ UNCHANGED <<ents, load, stored>>
        /\ call[t].pc = "grow" /\ n >= call[t].newsize
    BY <1>6 DEF Table!GrownMeanwhile
  <2>2. call[t].key \in TableKeys /\ call[t].newsize \in Nat BY <1>0, <2>1, CallsAre
  <2>3. x \in Calls BY <2>2 DEF Calls
  <2>4. x.pc # "grow" OBVIOUS
  <2>. HIDE DEF x, n
  <2>5. Waits(call[t], n) BY <1>0, <2>1, <2>2 DEF Waits
  <2>. QED BY <2>1, <2>3, <2>4, <2>5, CallKeeps DEF n
<1>7. ASSUME NEW t \in Threads, Table!GrowFails(t) PROVE TableInv'
  <2>1. call' = [call EXCEPT ![t] = Table!Idle] /\ UNCHANGED <<ents, load, stored>>
    BY <1>7 DEF Table!GrowFails
  <2>2. Table!Idle \in Calls BY DEF Calls
  <2>3. Table!Idle.pc # "grow" /\ ~Waits(Table!Idle, n) BY DEF Table!Idle, Waits
  <2>. QED BY <2>1, <2>2, <2>3, CallKeeps
<1>8. ASSUME NEW t \in Threads, Table!FinishInsert(t) PROVE TableInv'
  BY <1>8, FinishKeeps
<1>. QED BY <1>1, <1>2, <1>3, <1>4, <1>5, <1>6, <1>7, <1>8 DEF Table!Next

LEMMA TableInitially ==
    ASSUME Table!Init
    PROVE  TableInv
<1>. DEFINE n == InitialSize
<1>1. /\ ents = Table!Empty(n) /\ load = 0 /\ stored = {}
      /\ call = [t \in Threads |-> Table!Idle]
  BY DEF Table!Init
<1>2. n \in Nat \ {0} /\ n < 2 * n BY TableConstants
<1>3. Sound(ents, n) /\ Table!Content(ents) = {} BY <1>1, <1>2, EmptyIsSound
<1>4. Cardinality({}) = 0 BY FS_EmptySet
<1>5. Fits(ents, load, stored, n) BY <1>1, <1>2, <1>3, <1>4 DEF Fits
<1>6. \A t \in Threads : call[t].pc = "idle" BY <1>1 DEF Table!Idle
<1>7. Waiting(call, n) = {} BY <1>6 DEF Waiting
<1>8. call \in [Threads -> Calls] BY <1>1 DEF Calls
<1>9. load + Cardinality(Waiting(call, n)) <= Limit(n)
  <2>1. Limit(n) \in Nat BY <1>2, TableConstants
  <2>2. load + Cardinality(Waiting(call, n)) = 0 BY <1>1, <1>4, <1>7
  <2>. QED BY <2>1, <2>2
<1>10. Bounded(load, call, n) BY <1>6, <1>7, <1>8, <1>9 DEF Bounded
<1>11. Table!SizeOf(ents) = n BY <1>5, SizeIs
<1>. QED BY <1>5, <1>10, <1>11 DEF TableInv, Table!size

LEMMA TableStutter ==
    ASSUME TableInv, UNCHANGED table
    PROVE  TableInv'
<1>1. ents' = ents /\ load' = load /\ call' = call /\ stored' = stored BY DEF table
<1>2. Table!size' = Table!size BY <1>1 DEF Table!size
<1>. QED BY <1>1, <1>2 DEF TableInv

\* What the properties of the hash table follow from: the search for every
\* entry passes no free one, and the load leaves room for all the threads
\* that will still insert without looking at it.
THEOREM TableFitsTogether == Spec => []TableInv
<1>1. Init => TableInv BY TableInitially DEF Init
<1>2. TableInv /\ [Next]_vars => TableInv'
  <2>. SUFFICES ASSUME TableInv, [Next]_vars PROVE TableInv' OBVIOUS
  <2>1. CASE Table!Next BY <2>1, TableStep
  <2>2. CASE UNCHANGED table BY <2>2, TableStutter
  <2>. QED BY <2>1, <2>2 DEF Next, vars
<1>. QED BY <1>1, <1>2, PTL DEF Spec

\* A free entry ends every search (the loops of hash.c have no other end),
\* for any keys, hashes and initial size, although a thread that was growing
\* the table when another had done so inserts without looking at the load.
THEOREM SearchesAlwaysEnd == Spec => []TableSearchesEnd
<1>1. TableInv => TableSearchesEnd
  <2>. SUFFICES ASSUME TableInv PROVE TableSearchesEnd OBVIOUS
  <2>1. load < Table!size BY TableHasRoom DEF TableInv
  <2>2. load = Cardinality(Table!Content(ents)) BY DEF TableInv, Fits
  <2>. QED BY <2>1, <2>2, TableOperators DEF TableSearchesEnd, Table!SearchesEnd
<1>. QED BY <1>1, TableFitsTogether, PTL

\* A search finds what was inserted and not removed, and nothing else,
\* whatever collides, wraps round the end of the table, moves into a hole or
\* into a larger table; and no key is in the table twice.
THEOREM StoredIsFound == Spec => []TableFindsWhatIsStored
<1>1. TableInv => TableFindsWhatIsStored
  <2>. SUFFICES ASSUME TableInv PROVE TableFindsWhatIsStored OBVIOUS
  <2>. DEFINE n == Table!size
  <2>1. /\ Roomy(ents, n) /\ n \in Nat \ {0} /\ ents \in Tables(n)
    BY TableHasRoom DEF TableInv
  <2>2. Sound(ents, n) /\ stored = Table!Content(ents) BY DEF TableInv, Fits
  <2>. HIDE DEF n
  <2>3. \A k \in TableKeys : Table!Found(ents, k) <=> k \in stored BY <2>1, <2>2, FoundIs
  <2>4. {i \in DOMAIN ents : ents[i] # NoKey} = Filled(ents, n)
    BY <2>1, TableSize DEF Filled
  <2>5. Cardinality(Filled(ents, n)) = Cardinality(stored) BY <2>2, FilledCount
  <2>. QED BY <2>2, <2>3, <2>4, <2>5, TableOperators
           DEF TableFindsWhatIsStored, Table!FindsWhatIsStored
<1>. QED BY <1>1, TableFitsTogether, PTL

-----------------------------------------------------------------------------
(* The three together.                                                     *)

\* The variables of the three keep their types.
THEOREM CachesTyped == Spec => []TypeOK
<1>1. PagesInv => Pages!TypeOK
  <2>. SUFFICES ASSUME PagesInv PROVE Pages!TypeOK OBVIOUS
  <2>1. Agreeing(map, order, bytes, uses) BY DEF PagesInv
  <2>2. bytes \in Nat BY <2>1, AgreeingTypes
  <2>. QED BY <2>1, <2>2 DEF Agreeing, Pages!TypeOK
<1>2. GlyphsInv => Glyphs!TypeOK BY DEF GlyphsInv
<1>3. TableInv => Table!TypeOK
  <2>. SUFFICES ASSUME TableInv PROVE Table!TypeOK OBVIOUS
  <2>1. /\ ents \in Tables(Table!size) /\ load \in Nat /\ call \in [Threads -> Calls]
    BY TableHasRoom DEF TableInv, Bounded
  <2>2. \A t \in Threads : call[t] = Table!Idle \/ call[t].key \in TableKeys
    BY <2>1, CallsAre
  <2>. QED BY <2>1, <2>2 DEF Tables, Slots, Table!TypeOK
<1>4. PagesInv /\ GlyphsInv /\ TableInv => TypeOK BY <1>1, <1>2, <1>3 DEF TypeOK
<1>. QED BY <1>4, PagesFitTogether, GlyphsFitTogether, TableFitsTogether, PTL

=============================================================================
