---------------------------- MODULE CommonLemmas ---------------------------
(***************************************************************************)
(* Lemmas that the proofs of several components use: least elements of     *)
(* sets of naturals, and induction stated for a set; functions defined by  *)
(* recursion exist; sums over finite sets; removing entries from a         *)
(* sequence; sequences in which nothing is twice.                          *)
(***************************************************************************)
EXTENDS Selections, FiniteSets, FiniteSetTheorems, SequenceTheorems,
        WellFoundedInduction, TLAPS

\* A nonempty set of naturals has a least element.
LEMMA LeastExists ==
    ASSUME NEW S \in SUBSET Nat, S # {}
    PROVE  \E x \in S : \A y \in S : x <= y
<1>1. PICK x \in S : \A y \in S : <<y, x>> \notin OpToRel(<, Nat)
  BY WFMin, NatLessThanWellFounded
<1>2. \A y \in S : x <= y
  <2>. SUFFICES ASSUME NEW y \in S PROVE x <= y
    OBVIOUS
  <2>1. x \in Nat /\ y \in Nat OBVIOUS
  <2>2. ~(y < x) BY <1>1, <2>1 DEF OpToRel
  <2>. QED BY <2>1, <2>2
<1>. QED BY <1>2

\* Min names it.
LEMMA MinIsLeast ==
    ASSUME NEW S \in SUBSET Nat, S # {}
    PROVE  Min(S) \in S /\ \A y \in S : Min(S) <= y
BY LeastExists DEF Min

\* Max the greatest of a set that is bounded.
LEMMA MaxIsGreatest ==
    ASSUME NEW n \in Nat, NEW S \in SUBSET (0 .. n), S # {}
    PROVE  Max(S) \in S /\ \A y \in S : y <= Max(S)
<1>. DEFINE R == {i \in 0 .. n : n - i \in S}
<1>1. R \in SUBSET Nat /\ R # {}
  <2>1. PICK y \in S : TRUE OBVIOUS
  <2>2. n - y \in 0 .. n /\ n - (n - y) = y BY <2>1
  <2>3. n - y \in R BY <2>2
  <2>4. R \in SUBSET Nat OBVIOUS
  <2>. HIDE DEF R
  <2>. QED BY <2>3, <2>4
<1>2. PICK x \in R : \A y \in R : x <= y
  <2>. HIDE DEF R
  <2>. QED BY <1>1, LeastExists
<1>3. n - x \in S BY <1>2
<1>4. \A y \in S : y <= n - x
  <2>. SUFFICES ASSUME NEW y \in S PROVE y <= n - x OBVIOUS
  <2>1. n - y \in 0 .. n /\ n - (n - y) = y /\ y \in 0 .. n OBVIOUS
  <2>2. n - y \in R BY <2>1
  <2>3. x <= n - y /\ x \in 0 .. n BY <1>2, <2>2
  <2>. QED BY <2>1, <2>3
<1>. QED BY <1>3, <1>4 DEF Max

\* A set that holds zero, and with a number the next one, holds them all.
LEMMA Induction ==
    ASSUME NEW P, 0 \in P, \A n \in Nat : n \in P => n + 1 \in P
    PROVE  \A n \in Nat : n \in P
<1>. SUFFICES ASSUME NEW m \in Nat, m \notin P PROVE FALSE
  OBVIOUS
<1>. DEFINE out == {n \in Nat : n \notin P}
<1>1. PICK x \in out : \A y \in out : x <= y
  BY LeastExists
<1>2. x \in Nat /\ x # 0 OBVIOUS
<1>3. x - 1 \in Nat /\ ~(x <= x - 1) BY <1>2
<1>4. x - 1 \in P BY <1>1, <1>3
<1>. QED BY <1>2, <1>3, <1>4

\* f takes n steps, from a place to start at.
Runs(f, start, step, n) ==
    f[0] = start /\ \A k \in 1 .. n : f[k] = step[k - 1][f[k - 1]]

LEMMA RecursionExists ==
    ASSUME NEW S, NEW start \in S, NEW step \in [Nat -> [S -> S]], NEW n \in Nat
    PROVE  \E f \in [0 .. n -> S] : Runs(f, start, step, n)
<1>. DEFINE P == {m \in Nat : \E f \in [0 .. m -> S] : Runs(f, start, step, m)}
<1>1. 0 \in P
  <2>. DEFINE f == [i \in 0 .. 0 |-> start]
  <2>1. f \in [0 .. 0 -> S] /\ f[0] = start OBVIOUS
  <2>2. 1 .. 0 = {} OBVIOUS
  <2>. QED BY <2>1, <2>2 DEF Runs
<1>2. ASSUME NEW m \in Nat, m \in P PROVE m + 1 \in P
  <2>1. PICK f \in [0 .. m -> S] : Runs(f, start, step, m)
    BY <1>2
  <2>. DEFINE g == [k \in 0 .. m + 1 |-> IF k = m + 1 THEN step[m][f[m]] ELSE f[k]]
  <2>2. g \in [0 .. m + 1 -> S]
    <3>1. f[m] \in S /\ step[m] \in [S -> S] OBVIOUS
    <3>2. \A k \in 0 .. m + 1 : k # m + 1 => k \in 0 .. m OBVIOUS
    <3>. QED BY <3>1, <3>2
  <2>3. g[0] = start BY <2>1 DEF Runs
  <2>4. ASSUME NEW k \in 1 .. m + 1 PROVE g[k] = step[k - 1][g[k - 1]]
    <3>1. k - 1 \in 0 .. m + 1 /\ k - 1 # m + 1 /\ g[k - 1] = f[k - 1] OBVIOUS
    <3>2. CASE k = m + 1
      <4>1. g[k] = step[m][f[m]] /\ k - 1 = m BY <3>2
      <4>. QED BY <3>1, <4>1
    <3>3. CASE k # m + 1
      <4>1. k \in 1 .. m /\ g[k] = f[k] BY <3>3
      <4>. QED BY <2>1, <3>1, <4>1 DEF Runs
    <3>. QED BY <3>2, <3>3
  <2>. HIDE DEF g
  <2>5. Runs(g, start, step, m + 1) BY <2>3, <2>4 DEF Runs
  <2>. QED BY <2>2, <2>5
<1>. HIDE DEF P
<1>3. n \in P BY <1>1, <1>2, Induction
<1>. QED BY <1>3 DEF P

-----------------------------------------------------------------------------
(* Sums over finite sets.                                                  *)

Total(w, S) == SumFunctionOnSet(w, S)

Weights(w, S) == \A x \in S : w[x] \in Nat

\* The fold that defines a sum takes elements in an order of its own.
Chosen(s) == CHOOSE x \in s : TRUE

FoldAt(f, w, s) == IF s = {} THEN 0 ELSE w[Chosen(s)] + f[s \ {Chosen(s)}]

IsFold(f, w, S) == f = [s \in SUBSET S |-> FoldAt(f, w, s)]

LEMMA ChosenIn ==
    ASSUME NEW s, s # {}
    PROVE  Chosen(s) \in s
BY DEF Chosen

LEMMA SmallerSet ==
    ASSUME NEW S, IsFiniteSet(S), NEW x \in S
    PROVE  /\ IsFiniteSet(S \ {x}) /\ Cardinality(S) \in Nat \ {0}
           /\ Cardinality(S \ {x}) = Cardinality(S) - 1
           /\ Cardinality(S \ {x}) \in Nat
<1>1. IsFiniteSet(S \ {x}) /\ Cardinality(S \ {x}) = Cardinality(S) - 1
  BY FS_RemoveElement
<1>2. Cardinality(S) \in Nat BY FS_CardinalityType
<1>3. Cardinality(S) # 0 BY FS_EmptySet
<1>. QED BY <1>1, <1>2, <1>3

LEMMA FoldExists ==
    ASSUME NEW S, IsFiniteSet(S), NEW w, Weights(w, S)
    PROVE  \E f : IsFold(f, w, S) /\ f \in [SUBSET S -> Nat]
<1>. DEFINE Upto(f, n) == \A s \in SUBSET S : Cardinality(s) <= n => f[s] = FoldAt(f, w, s)
            P == {n \in Nat : \E f \in [SUBSET S -> Nat] : Upto(f, n)}
<1>0. \A s \in SUBSET S : IsFiniteSet(s) /\ Cardinality(s) \in Nat /\ Cardinality(s) <= Cardinality(S)
  BY FS_Subset, FS_CardinalityType
<1>1. 0 \in P
  <2>. DEFINE f == [s \in SUBSET S |-> 0]
  <2>1. f \in [SUBSET S -> Nat] OBVIOUS
  <2>2. ASSUME NEW s \in SUBSET S, Cardinality(s) <= 0 PROVE f[s] = FoldAt(f, w, s)
    <3>1. Cardinality(s) = 0 BY <1>0, <2>2
    <3>2. s = {} BY <1>0, <3>1, FS_EmptySet
    <3>. QED BY <3>2 DEF FoldAt
  <2>. QED BY <2>1, <2>2
<1>2. ASSUME NEW n \in Nat, n \in P PROVE n + 1 \in P
  <2>1. PICK f \in [SUBSET S -> Nat] : Upto(f, n) BY <1>2
  <2>. DEFINE g == [s \in SUBSET S |-> IF Cardinality(s) <= n THEN f[s] ELSE FoldAt(f, w, s)]
  <2>2. \A s \in SUBSET S : s # {} => /\ Chosen(s) \in s /\ s \ {Chosen(s)} \in SUBSET S
                                     /\ Cardinality(s \ {Chosen(s)}) = Cardinality(s) - 1
    BY <1>0, ChosenIn, SmallerSet
  <2>3. ASSUME NEW s \in SUBSET S PROVE FoldAt(f, w, s) \in Nat
    <3>1. CASE s = {} BY <3>1 DEF FoldAt
    <3>2. CASE s # {}
      <4>1. Chosen(s) \in S /\ s \ {Chosen(s)} \in SUBSET S BY <2>2, <3>2
      <4>2. w[Chosen(s)] \in Nat /\ f[s \ {Chosen(s)}] \in Nat BY <4>1 DEF Weights
      <4>. QED BY <3>2, <4>2 DEF FoldAt
    <3>. QED BY <3>1, <3>2
  <2>4. g \in [SUBSET S -> Nat] BY <2>3
  <2>5. ASSUME NEW s \in SUBSET S, Cardinality(s) <= n + 1 PROVE g[s] = FoldAt(g, w, s)
    <3>1. g[s] = FoldAt(f, w, s)
      BY <2>1
    <3>2. CASE s = {} BY <3>1, <3>2 DEF FoldAt
    <3>3. CASE s # {}
      <4>1. s \ {Chosen(s)} \in SUBSET S /\ Cardinality(s \ {Chosen(s)}) <= n
        BY <1>0, <2>2, <2>5, <3>3
      <4>2. g[s \ {Chosen(s)}] = f[s \ {Chosen(s)}] BY <4>1
      <4>. HIDE DEF g
      <4>. QED BY <3>1, <4>2 DEF FoldAt
    <3>. QED BY <3>2, <3>3
  <2>. HIDE DEF g
  <2>. QED BY <2>4, <2>5
<1>. HIDE DEF P
<1>3. Cardinality(S) \in Nat BY FS_CardinalityType
<1>4. Cardinality(S) \in P BY <1>1, <1>2, <1>3, Induction
<1>5. PICK f \in [SUBSET S -> Nat] : Upto(f, Cardinality(S)) BY <1>4 DEF P
<1>6. \A s \in SUBSET S : f[s] = FoldAt(f, w, s) BY <1>0, <1>5
<1>7. IsFold(f, w, S) BY <1>6 DEF IsFold
<1>. QED BY <1>7

\* Two folds of the same weights agree where both are defined.
LEMMA FoldUnique ==
    ASSUME NEW S, NEW R, IsFiniteSet(S), NEW w, NEW v, NEW f, NEW g,
           IsFold(f, w, S), IsFold(g, v, R), S \subseteq R, \A x \in S : w[x] = v[x]
    PROVE  f[S] = g[S]
<1>. DEFINE P == {n \in Nat : \A s \in SUBSET S : Cardinality(s) = n => f[s] = g[s]}
<1>0. \A s \in SUBSET S : IsFiniteSet(s) /\ Cardinality(s) \in Nat
  BY FS_Subset, FS_CardinalityType
<1>f. \A s \in SUBSET S : f[s] = FoldAt(f, w, s) /\ g[s] = FoldAt(g, v, s)
  <2>. SUFFICES ASSUME NEW s \in SUBSET S PROVE f[s] = FoldAt(f, w, s) /\ g[s] = FoldAt(g, v, s)
    OBVIOUS
  <2>. DEFINE a == [r \in SUBSET S |-> FoldAt(f, w, r)]
              b == [r \in SUBSET R |-> FoldAt(g, v, r)]
  <2>1. a[s] = FoldAt(f, w, s) OBVIOUS
  <2>2. b[s] = FoldAt(g, v, s) OBVIOUS
  <2>3. f = a /\ g = b BY DEF IsFold
  <2>. HIDE DEF a, b
  <2>. QED BY <2>1, <2>2, <2>3
<1>1. 0 \in P
  BY <1>0, <1>f, FS_EmptySet DEF FoldAt
<1>2. ASSUME NEW n \in Nat, n \in P PROVE n + 1 \in P
  <2>. SUFFICES ASSUME NEW s \in SUBSET S, Cardinality(s) = n + 1 PROVE f[s] = g[s]
    OBVIOUS
  <2>1. s # {} BY FS_EmptySet
  <2>. DEFINE x == Chosen(s)
  <2>2. x \in s BY <2>1, ChosenIn
  <2>3. Cardinality(s \ {x}) = n BY <1>0, <2>2, SmallerSet
  <2>4. f[s \ {x}] = g[s \ {x}] BY <1>2, <2>3
  <2>5. w[x] = v[x] BY <2>2
  <2>. QED BY <1>f, <2>1, <2>4, <2>5 DEF FoldAt
<1>. HIDE DEF P
<1>3. Cardinality(S) \in P BY <1>0, <1>1, <1>2, Induction
<1>. QED BY <1>3 DEF P

LEMMA TotalIsFold ==
    ASSUME NEW S, IsFiniteSet(S), NEW w, Weights(w, S)
    PROVE  \E f : IsFold(f, w, S) /\ f \in [SUBSET S -> Nat] /\ Total(w, S) = f[S]
<1>. DEFINE f == CHOOSE f : IsFold(f, w, S)
<1>1. \E g : IsFold(g, w, S) BY FoldExists
<1>2. IsFold(f, w, S) BY <1>1
<1>3. Total(w, S) = f[S]
  BY DEF Total, SumFunctionOnSet, FoldFunctionOnSet, MapThenFoldSet, IsFold, FoldAt, Chosen
<1>4. PICK g : IsFold(g, w, S) /\ g \in [SUBSET S -> Nat] BY FoldExists
<1>. HIDE DEF f
<1>5. f[S] = g[S] BY <1>2, <1>4, FoldUnique
<1>. QED BY <1>3, <1>4, <1>5

LEMMA TotalType ==
    ASSUME NEW S, IsFiniteSet(S), NEW w, Weights(w, S)
    PROVE  Total(w, S) \in Nat
<1>1. PICK f : f \in [SUBSET S -> Nat] /\ Total(w, S) = f[S] BY TotalIsFold
<1>2. S \in SUBSET S OBVIOUS
<1>. QED BY <1>1, <1>2

LEMMA TotalSame ==
    ASSUME NEW S, IsFiniteSet(S), NEW w, NEW v, Weights(w, S), \A x \in S : w[x] = v[x]
    PROVE  Total(w, S) = Total(v, S)
<1>1. Weights(v, S) BY DEF Weights
<1>2. PICK f : IsFold(f, w, S) /\ Total(w, S) = f[S] BY TotalIsFold
<1>3. PICK g : IsFold(g, v, S) /\ Total(v, S) = g[S] BY <1>1, TotalIsFold
<1>. QED BY <1>2, <1>3, FoldUnique

LEMMA TotalEmpty ==
    ASSUME NEW w
    PROVE  Total(w, {}) = 0
<1>1. IsFiniteSet({}) /\ Weights(w, {}) BY FS_EmptySet DEF Weights
<1>2. PICK f : IsFold(f, w, {}) /\ Total(w, {}) = f[{}] BY <1>1, TotalIsFold
<1>. DEFINE a == [s \in SUBSET {} |-> FoldAt(f, w, s)]
<1>3. a[{}] = 0 BY DEF FoldAt
<1>4. f = a BY <1>2 DEF IsFold
<1>. HIDE DEF a
<1>. QED BY <1>2, <1>3, <1>4

\* The element the fold begins with.
LEMMA TotalChosen ==
    ASSUME NEW S, IsFiniteSet(S), NEW w, Weights(w, S), S # {}
    PROVE  Chosen(S) \in S /\ Total(w, S) = w[Chosen(S)] + Total(w, S \ {Chosen(S)})
<1>. DEFINE x == Chosen(S)  R == S \ {x}
<1>1. x \in S BY ChosenIn
<1>2. IsFiniteSet(R) BY SmallerSet, <1>1
<1>3. Weights(w, R) BY DEF Weights
<1>4. PICK f : IsFold(f, w, S) /\ Total(w, S) = f[S] BY TotalIsFold
<1>5. PICK g : IsFold(g, w, R) /\ Total(w, R) = g[R] BY <1>2, <1>3, TotalIsFold
<1>6. f[R] = g[R] BY <1>2, <1>4, <1>5, FoldUnique
<1>. DEFINE a == [s \in SUBSET S |-> FoldAt(f, w, s)]
<1>7. a[S] = w[x] + f[R] BY DEF FoldAt
<1>8. f = a BY <1>4 DEF IsFold
<1>. HIDE DEF a, R, x
<1>9. Total(w, S) = w[x] + Total(w, R) BY <1>4, <1>5, <1>6, <1>7, <1>8
<1>. QED BY <1>1, <1>9 DEF R, x

\* Any element can be taken out of a sum.
LEMMA TotalRemove ==
    ASSUME NEW S, IsFiniteSet(S), NEW w, Weights(w, S), NEW x \in S
    PROVE  Total(w, S) = w[x] + Total(w, S \ {x})
<1>. DEFINE P == {n \in Nat : \A s \in SUBSET S : \A y \in s :
                     Cardinality(s) = n => Total(w, s) = w[y] + Total(w, s \ {y})}
<1>0. \A s \in SUBSET S : IsFiniteSet(s) /\ Cardinality(s) \in Nat /\ Weights(w, s) /\ Total(w, s) \in Nat
  BY FS_Subset, FS_CardinalityType, TotalType DEF Weights
<1>1. 0 \in P BY <1>0, FS_EmptySet
<1>2. ASSUME NEW n \in Nat, n \in P PROVE n + 1 \in P
  <2>. SUFFICES ASSUME NEW s \in SUBSET S, NEW y \in s, Cardinality(s) = n + 1
                PROVE  Total(w, s) = w[y] + Total(w, s \ {y})
    OBVIOUS
  <2>1. PICK z \in s : Total(w, s) = w[z] + Total(w, s \ {z}) BY <1>0, TotalChosen
  <2>2. CASE y = z BY <2>1, <2>2
  <2>3. CASE y # z
    <3>1. Cardinality(s \ {z}) = n /\ Cardinality(s \ {y}) = n BY <1>0, SmallerSet
    <3>2. Total(w, s \ {z}) = w[y] + Total(w, (s \ {z}) \ {y}) BY <1>2, <2>3, <3>1
    <3>3. Total(w, s \ {y}) = w[z] + Total(w, (s \ {y}) \ {z}) BY <1>2, <2>3, <3>1
    <3>4. (s \ {z}) \ {y} = (s \ {y}) \ {z} OBVIOUS
    <3>5. w[y] \in Nat /\ w[z] \in Nat BY DEF Weights
    <3>6. Total(w, (s \ {y}) \ {z}) \in Nat BY <1>0
    <3>. DEFINE r == Total(w, (s \ {y}) \ {z})  wy == w[y]  wz == w[z]
                sy == Total(w, s \ {y})  sz == Total(w, s \ {z})
    <3>7. sz = wy + r BY <3>2, <3>4
    <3>8. sy = wz + r BY <3>3
    <3>9. Total(w, s) = wz + sz BY <2>1
    <3>10. r \in Nat /\ wy \in Nat /\ wz \in Nat BY <3>5, <3>6
    <3>. HIDE DEF r, wy, wz, sy, sz
    <3>11. Total(w, s) = wy + sy BY <3>7, <3>8, <3>9, <3>10
    <3>. QED BY <3>11 DEF wy, sy
  <2>. QED BY <2>2, <2>3
<1>. HIDE DEF P
<1>3. Cardinality(S) \in P BY <1>0, <1>1, <1>2, Induction
<1>. QED BY <1>3 DEF P

LEMMA TotalAdd ==
    ASSUME NEW S, IsFiniteSet(S), NEW w, NEW x, Weights(w, S \cup {x}), x \notin S
    PROVE  Total(w, S \cup {x}) = w[x] + Total(w, S)
<1>1. IsFiniteSet(S \cup {x}) BY FS_AddElement
<1>2. (S \cup {x}) \ {x} = S OBVIOUS
<1>. DEFINE T == S \cup {x}
<1>3. x \in T /\ IsFiniteSet(T) /\ Weights(w, T) /\ T \ {x} = S BY <1>1, <1>2
<1>. HIDE DEF T
<1>4. Total(w, T) = w[x] + Total(w, T \ {x}) BY <1>3, TotalRemove
<1>. QED BY <1>3, <1>4 DEF T

\* The sum over two sets that have nothing in common.
LEMMA TotalUnion ==
    ASSUME NEW S, IsFiniteSet(S), NEW R, IsFiniteSet(R), NEW w,
           Weights(w, S \cup R), S \cap R = {}
    PROVE  Total(w, S \cup R) = Total(w, S) + Total(w, R)
<1>. DEFINE P == {n \in Nat : \A s \in SUBSET R :
                     Cardinality(s) = n => Total(w, S \cup s) = Total(w, S) + Total(w, s)}
<1>0. \A s \in SUBSET R : IsFiniteSet(s) /\ Cardinality(s) \in Nat /\ IsFiniteSet(S \cup s)
  BY FS_Subset, FS_CardinalityType, FS_Union
<1>w. \A s \in SUBSET R : Weights(w, S \cup s) /\ Weights(w, s) /\ Weights(w, S) BY DEF Weights
<1>t. Total(w, S) \in Nat /\ \A s \in SUBSET R : Total(w, s) \in Nat
  BY <1>0, <1>w, TotalType
<1>1. 0 \in P
  <2>. SUFFICES ASSUME NEW s \in SUBSET R, Cardinality(s) = 0
                PROVE  Total(w, S \cup s) = Total(w, S) + Total(w, s)
    OBVIOUS
  <2>1. s = {} BY <1>0, FS_EmptySet
  <2>2. S \cup s = S /\ Total(w, s) = 0 BY <2>1, TotalEmpty
  <2>. QED BY <2>2, <1>t
<1>2. ASSUME NEW n \in Nat, n \in P PROVE n + 1 \in P
  <2>. SUFFICES ASSUME NEW s \in SUBSET R, Cardinality(s) = n + 1
                PROVE  Total(w, S \cup s) = Total(w, S) + Total(w, s)
    OBVIOUS
  <2>1. s # {} BY FS_EmptySet
  <2>2. PICK x \in s : TRUE BY <2>1
  <2>3. Cardinality(s \ {x}) = n
    <3>1. IsFiniteSet(s) BY <1>0
    <3>2. Cardinality(s \ {x}) = Cardinality(s) - 1 BY <3>1, SmallerSet
    <3>. QED BY <3>2
  <2>. DEFINE r == s \ {x}
  <2>4. r \in SUBSET R OBVIOUS
  <2>5. Total(w, S \cup r) = Total(w, S) + Total(w, r) BY <1>2, <2>3, <2>4
  <2>6. Total(w, s) = w[x] + Total(w, r) BY <1>0, <1>w, TotalRemove
  <2>7. S \cup s = (S \cup r) \cup {x} /\ x \notin S \cup r OBVIOUS
  <2>8. Weights(w, (S \cup r) \cup {x}) BY <1>w, <2>7
  <2>9. IsFiniteSet(S \cup r) BY <1>0, <2>4
  <2>10. Total(w, S \cup s) = w[x] + Total(w, S \cup r) BY <2>7, <2>8, <2>9, TotalAdd
  <2>11. w[x] \in Nat /\ Total(w, r) \in Nat BY <1>t, <1>w, <2>4 DEF Weights
  <2>. HIDE DEF r
  <2>. QED BY <1>t, <2>5, <2>6, <2>10, <2>11
<1>. HIDE DEF P
<1>3. Cardinality(R) \in P BY <1>0, <1>1, <1>2, Induction
<1>. QED BY <1>0, <1>3 DEF P

\* Taking a set out of a sum.
LEMMA TotalMinus ==
    ASSUME NEW S, IsFiniteSet(S), NEW w, Weights(w, S), NEW R \in SUBSET S
    PROVE  /\ Total(w, S \ R) = Total(w, S) - Total(w, R)
           /\ Total(w, R) \in Nat /\ Total(w, S \ R) \in Nat
           /\ Total(w, R) <= Total(w, S)
<1>1. IsFiniteSet(R) /\ IsFiniteSet(S \ R) BY FS_Subset
<1>2. Weights(w, R) /\ Weights(w, S \ R) BY DEF Weights
<1>3. (S \ R) \cup R = S /\ (S \ R) \cap R = {} OBVIOUS
<1>4. Total(w, S) = Total(w, S \ R) + Total(w, R) BY <1>1, <1>3, TotalUnion
<1>5. Total(w, R) \in Nat /\ Total(w, S \ R) \in Nat BY <1>1, <1>2, TotalType
<1>. QED BY <1>4, <1>5

\* The sum of weights that are all zero.
LEMMA TotalOfZeros ==
    ASSUME NEW w, NEW S, IsFiniteSet(S), \A x \in S : w[x] = 0
    PROVE  Total(w, S) = 0
<1>. DEFINE P == {n \in Nat : \A T \in SUBSET S : Cardinality(T) = n => Total(w, T) = 0}
<1>1. 0 \in P
  <2>1. ASSUME NEW T \in SUBSET S, Cardinality(T) = 0 PROVE Total(w, T) = 0
    <3>1. IsFiniteSet(T) BY FS_Subset
    <3>2. T = {} BY <2>1, <3>1, FS_EmptySet
    <3>. QED BY <3>2, TotalEmpty
  <2>. QED BY <2>1
<1>2. ASSUME NEW n \in Nat, n \in P PROVE n + 1 \in P
  <2>1. ASSUME NEW T \in SUBSET S, Cardinality(T) = n + 1 PROVE Total(w, T) = 0
    <3>1. IsFiniteSet(T) BY FS_Subset
    <3>2. T # {} BY <2>1, <3>1, FS_EmptySet
    <3>3. PICK x \in T : TRUE BY <3>2
    <3>4. Cardinality(T \ {x}) = Cardinality(T) - 1 BY <3>1, <3>3, FS_RemoveElement
    <3>5. T \ {x} \in SUBSET S /\ Cardinality(T \ {x}) = n BY <1>2, <2>1, <3>4
    <3>6. Total(w, T \ {x}) = 0 BY <1>2, <3>5
    <3>7. Weights(w, T) BY DEF Weights
    <3>8. Total(w, T) = w[x] + Total(w, T \ {x}) BY <3>1, <3>3, <3>7, TotalRemove
    <3>. QED BY <2>1, <3>6, <3>8
  <2>. QED BY <2>1
<1>. HIDE DEF P
<1>3. \A n \in Nat : n \in P BY <1>1, <1>2, Induction
<1>4. Cardinality(S) \in Nat BY FS_CardinalityType
<1>. QED BY <1>3, <1>4 DEF P

-----------------------------------------------------------------------------
(* Sequences from which entries are removed.                               *)

\* The prefixes of what is kept.
Keeping(f, s, K) ==
    /\ DOMAIN f = 0 .. Len(s) /\ f[0] = <<>>
    /\ \A k \in 1 .. Len(s) : f[k] = IF s[k] \in K THEN f[k - 1] ELSE Append(f[k - 1], s[k])

LEMMA KeepingExists ==
    ASSUME NEW S, NEW s \in Seq(S), NEW K
    PROVE  \E f \in [0 .. Len(s) -> Seq(S)] : Keeping(f, s, K)
<1>. DEFINE n == Len(s)
            step == [k \in Nat |-> [t \in Seq(S) |->
                        IF k + 1 \in 1 .. n /\ s[k + 1] \notin K
                        THEN Append(t, s[k + 1]) ELSE t]]
<1>1. n \in Nat OBVIOUS
<1>2. step \in [Nat -> [Seq(S) -> Seq(S)]]
  <2>. SUFFICES ASSUME NEW k \in Nat, NEW t \in Seq(S)
                PROVE  (IF k + 1 \in 1 .. n /\ s[k + 1] \notin K
                        THEN Append(t, s[k + 1]) ELSE t) \in Seq(S)
    OBVIOUS
  <2>1. k + 1 \in 1 .. n => s[k + 1] \in S OBVIOUS
  <2>. QED BY <2>1
<1>3. <<>> \in Seq(S) OBVIOUS
<1>. HIDE DEF n, step
<1>4. PICK f \in [0 .. n -> Seq(S)] : Runs(f, <<>>, step, n)
  BY <1>1, <1>2, <1>3, RecursionExists
<1>5. ASSUME NEW k \in 1 .. n
      PROVE  f[k] = IF s[k] \in K THEN f[k - 1] ELSE Append(f[k - 1], s[k])
  <2>1. k - 1 \in Nat /\ f[k - 1] \in Seq(S) /\ (k - 1) + 1 = k
    BY <1>1, <1>4
  <2>2. step[k - 1][f[k - 1]] =
          IF k \in 1 .. n /\ s[k] \notin K THEN Append(f[k - 1], s[k]) ELSE f[k - 1]
    BY <2>1 DEF step
  <2>3. f[k] = step[k - 1][f[k - 1]] BY <1>4 DEF Runs
  <2>. QED BY <2>2, <2>3
<1>6. DOMAIN f = 0 .. Len(s) /\ f[0] = <<>> BY <1>4 DEF Runs, n
<1>7. Keeping(f, s, K) BY <1>5, <1>6 DEF Keeping, n
<1>. QED BY <1>4, <1>7 DEF n

LEMMA WithoutIsKept ==
    ASSUME NEW S, NEW s \in Seq(S), NEW K
    PROVE  \E f : Keeping(f, s, K) /\ Without(s, K) = f[Len(s)]
<1>. DEFINE Is(f) == f = [i \in 0 .. Len(s) |->
                             IF i = 0 THEN <<>>
                             ELSE IF s[i] \in K THEN f[i - 1]
                             ELSE Append(f[i - 1], s[i])]
            n == Len(s)
<1>1. n \in Nat OBVIOUS
<1>2. PICK f : f \in [0 .. n -> Seq(S)] /\ Keeping(f, s, K) BY KeepingExists
<1>3. Is(f)
  <2>. DEFINE g == [i \in 0 .. n |-> IF i = 0 THEN <<>>
                                     ELSE IF s[i] \in K THEN f[i - 1]
                                     ELSE Append(f[i - 1], s[i])]
  <2>1. ASSUME NEW i \in 0 .. n PROVE f[i] = g[i]
    <3>1. CASE i = 0 BY <3>1, <1>2 DEF Keeping
    <3>2. CASE i # 0
      <4>1. i \in 1 .. Len(s) BY <3>2, <1>1
      <4>. QED BY <3>2, <4>1, <1>2 DEF Keeping
    <3>. QED BY <3>1, <3>2
  <2>2. f = [i \in 0 .. n |-> f[i]] /\ g = [i \in 0 .. n |-> g[i]] BY <1>2
  <2>. HIDE DEF g
  <2>3. f = g BY <2>1, <2>2
  <2>. QED BY <2>3 DEF g
<1>. DEFINE kept == CHOOSE g : Is(g)
<1>4. Is(kept) BY <1>3
<1>5. Without(s, K) = kept[Len(s)] BY DEF Without
<1>. HIDE DEF kept, n
<1>6. DOMAIN kept = 0 .. Len(s) /\ kept[0] = <<>> BY <1>1, <1>4 DEF n
<1>7. ASSUME NEW k \in 1 .. Len(s)
      PROVE  kept[k] = IF s[k] \in K THEN kept[k - 1] ELSE Append(kept[k - 1], s[k])
  <2>1. k \in 0 .. Len(s) /\ k # 0 OBVIOUS
  <2>. QED BY <2>1, <1>4
<1>. QED BY <1>5, <1>6, <1>7 DEF Keeping

LEMMA KeepingUnique ==
    ASSUME NEW S, NEW s \in Seq(S), NEW t \in Seq(S), NEW K, NEW f, NEW g,
           Keeping(f, s, K), Keeping(g, t, K), Len(s) <= Len(t),
           \A i \in 1 .. Len(s) : s[i] = t[i]
    PROVE  f[Len(s)] = g[Len(s)]
<1>. DEFINE P == {k \in Nat : k <= Len(s) => f[k] = g[k]}
<1>1. Len(s) \in Nat /\ Len(t) \in Nat OBVIOUS
<1>2. 0 \in P BY DEF Keeping
<1>3. ASSUME NEW k \in Nat, k \in P PROVE k + 1 \in P
  <2>. SUFFICES ASSUME k + 1 <= Len(s) PROVE f[k + 1] = g[k + 1]
    OBVIOUS
  <2>. DEFINE m == k + 1
  <2>1. m \in 1 .. Len(s) /\ m \in 1 .. Len(t) /\ m - 1 = k BY <1>1
  <2>2. f[m - 1] = g[m - 1] BY <1>1, <1>3, <2>1
  <2>. HIDE DEF m
  <2>3. f[m] = g[m] BY <2>1, <2>2 DEF Keeping
  <2>. QED BY <2>3 DEF m
<1>. HIDE DEF P
<1>4. Len(s) \in P BY <1>1, <1>2, <1>3, Induction
<1>. QED BY <1>1, <1>4 DEF P

LEMMA WithoutEmpty ==
    ASSUME NEW K
    PROVE  Without(<<>>, K) = <<>>
<1>1. <<>> \in Seq({}) /\ Len(<<>>) = 0 OBVIOUS
<1>. QED BY <1>1, WithoutIsKept DEF Keeping

\* The last entry is kept or not.
LEMMA WithoutAppend ==
    ASSUME NEW S, NEW s \in Seq(S), NEW x \in S, NEW K
    PROVE  Without(Append(s, x), K) =
              IF x \in K THEN Without(s, K) ELSE Append(Without(s, K), x)
<1>. DEFINE t == Append(s, x)  n == Len(s)
<1>1. t \in Seq(S) /\ Len(t) = n + 1 /\ n \in Nat /\ t[n + 1] = x
      /\ \A i \in 1 .. n : s[i] = t[i]
  OBVIOUS
<1>2. PICK f : Keeping(f, s, K) /\ Without(s, K) = f[n] BY WithoutIsKept
<1>. HIDE DEF t
<1>3. PICK g : Keeping(g, t, K) /\ Without(t, K) = g[Len(t)] BY <1>1, WithoutIsKept
<1>4. f[n] = g[n] BY <1>1, <1>2, <1>3, KeepingUnique
<1>5. n + 1 \in 1 .. Len(t) /\ (n + 1) - 1 = n BY <1>1
<1>6. g[n + 1] = IF x \in K THEN g[n] ELSE Append(g[n], x)
  BY <1>1, <1>3, <1>5 DEF Keeping
<1>7. Without(t, K) = IF x \in K THEN Without(s, K) ELSE Append(Without(s, K), x)
  BY <1>1, <1>2, <1>3, <1>4, <1>6
<1>. QED BY <1>7 DEF t

\* Induction over the length of a sequence.
LEMMA SequenceInduction ==
    ASSUME NEW S, NEW P, <<>> \in P,
           \A s \in Seq(S) : \A x \in S : s \in P => Append(s, x) \in P
    PROVE  \A s \in Seq(S) : s \in P
<1>. DEFINE N == {n \in Nat : \A s \in Seq(S) : Len(s) = n => s \in P}
<1>1. 0 \in N
  <2>. SUFFICES ASSUME NEW s \in Seq(S), Len(s) = 0 PROVE s \in P OBVIOUS
  <2>1. s = <<>> BY EmptySeq
  <2>. QED BY <2>1
<1>2. ASSUME NEW n \in Nat, n \in N PROVE n + 1 \in N
  <2>. SUFFICES ASSUME NEW s \in Seq(S), Len(s) = n + 1 PROVE s \in P OBVIOUS
  <2>1. s # <<>> OBVIOUS
  <2>2. PICK t \in Seq(S), x \in S : s = Append(t, x) BY <2>1, SequenceEmptyOrAppend
  <2>3. Len(t) = n BY <2>2
  <2>. QED BY <1>2, <2>2, <2>3
<1>. HIDE DEF N
<1>3. \A n \in Nat : n \in N BY <1>1, <1>2, Induction
<1>. QED BY <1>3 DEF N

LEMMA AppendRange ==
    ASSUME NEW S, NEW s \in Seq(S), NEW x
    PROVE  Range(Append(s, x)) = Range(s) \cup {x}
<1>1. DOMAIN s = 1 .. Len(s) /\ DOMAIN Append(s, x) = 1 .. Len(s) + 1 /\ Len(s) \in Nat
  BY AppendProperties
<1>2. Append(s, x)[Len(s) + 1] = x /\ \A i \in 1 .. Len(s) : Append(s, x)[i] = s[i]
  BY AppendProperties
<1>3. 1 .. Len(s) + 1 = (1 .. Len(s)) \cup {Len(s) + 1} BY <1>1
<1>. DEFINE t == Append(s, x)
<1>. HIDE DEF t
<1>4. Range(t) = Range(s) \cup {x}
  BY <1>1, <1>2, <1>3 DEF Range, t
<1>. QED BY <1>4 DEF t

LEMMA EmptyRange == Range(<<>>) = {}
BY DEF Range

LEMMA WithoutType ==
    ASSUME NEW S, NEW K
    PROVE  \A s \in Seq(S) : Without(s, K) \in Seq(S) /\ Range(Without(s, K)) = Range(s) \ K
<1>. DEFINE P == {s \in Seq(S) : Without(s, K) \in Seq(S) /\ Range(Without(s, K)) = Range(s) \ K}
<1>1. <<>> \in P
  <2>1. <<>> \in Seq(S) /\ {} = {} \ K OBVIOUS
  <2>. QED BY <2>1, WithoutEmpty, EmptyRange
<1>2. ASSUME NEW s \in Seq(S), NEW x \in S, s \in P PROVE Append(s, x) \in P
  <2>1. CASE x \in K BY <1>2, <2>1, WithoutAppend, AppendRange
  <2>2. CASE x \notin K
    <3>1. Without(Append(s, x), K) = Append(Without(s, K), x) BY <2>2, WithoutAppend
    <3>2. Range(Append(Without(s, K), x)) = Range(Without(s, K)) \cup {x} BY <1>2, AppendRange
    <3>3. Range(Append(s, x)) = Range(s) \cup {x} BY AppendRange
    <3>4. Without(Append(s, x), K) \in Seq(S) BY <1>2, <3>1
    <3>5. Range(Without(Append(s, x), K)) = Range(Append(s, x)) \ K
      BY <1>2, <2>2, <3>1, <3>2, <3>3
    <3>. QED BY <3>4, <3>5
  <2>. QED BY <2>1, <2>2
<1>. HIDE DEF P
<1>3. \A s \in Seq(S) : s \in P BY <1>1, <1>2, SequenceInduction
<1>. QED BY <1>3 DEF P

LEMMA WithoutTwice ==
    ASSUME NEW S, NEW K, NEW L
    PROVE  \A s \in Seq(S) : Without(Without(s, K), L) = Without(s, K \cup L)
<1>. DEFINE P == {s \in Seq(S) : Without(Without(s, K), L) = Without(s, K \cup L)}
<1>1. <<>> \in P BY WithoutEmpty
<1>2. ASSUME NEW s \in Seq(S), NEW x \in S, s \in P PROVE Append(s, x) \in P
  <2>1. Without(s, K) \in Seq(S) BY WithoutType
  <2>2. Without(Append(s, x), K \cup L) =
           IF x \in K \cup L THEN Without(s, K \cup L) ELSE Append(Without(s, K \cup L), x)
    BY WithoutAppend
  <2>3. Without(Append(s, x), K) = IF x \in K THEN Without(s, K) ELSE Append(Without(s, K), x)
    BY WithoutAppend
  <2>4. Without(Append(Without(s, K), x), L) =
           IF x \in L THEN Without(Without(s, K), L) ELSE Append(Without(Without(s, K), L), x)
    BY <2>1, WithoutAppend
  <2>5. Without(Without(Append(s, x), K), L) = Without(Append(s, x), K \cup L)
    BY <1>2, <2>2, <2>3, <2>4
  <2>. QED BY <2>5
<1>. HIDE DEF P
<1>3. \A s \in Seq(S) : s \in P BY <1>1, <1>2, SequenceInduction
<1>. QED BY <1>3 DEF P

\* Only what is there can be removed.
LEMMA WithoutSame ==
    ASSUME NEW S, NEW K, NEW L
    PROVE  \A s \in Seq(S) : Range(s) \cap K = Range(s) \cap L => Without(s, K) = Without(s, L)
<1>. DEFINE P == {s \in Seq(S) : Range(s) \cap K = Range(s) \cap L => Without(s, K) = Without(s, L)}
<1>1. <<>> \in P BY WithoutEmpty
<1>2. ASSUME NEW s \in Seq(S), NEW x \in S, s \in P PROVE Append(s, x) \in P
  <2>. SUFFICES ASSUME Range(Append(s, x)) \cap K = Range(Append(s, x)) \cap L
                PROVE  Without(Append(s, x), K) = Without(Append(s, x), L)
    OBVIOUS
  <2>1. Range(Append(s, x)) = Range(s) \cup {x} BY AppendRange
  <2>2. Range(s) \cap K = Range(s) \cap L /\ (x \in K <=> x \in L) BY <2>1
  <2>3. Without(s, K) = Without(s, L) BY <1>2, <2>2
  <2>4. Without(Append(s, x), K) = IF x \in K THEN Without(s, K) ELSE Append(Without(s, K), x)
    BY WithoutAppend
  <2>5. Without(Append(s, x), L) = IF x \in L THEN Without(s, L) ELSE Append(Without(s, L), x)
    BY WithoutAppend
  <2>. QED BY <2>2, <2>3, <2>4, <2>5
<1>. HIDE DEF P
<1>3. \A s \in Seq(S) : s \in P BY <1>1, <1>2, SequenceInduction
<1>. QED BY <1>3 DEF P

LEMMA WithoutNone ==
    ASSUME NEW S
    PROVE  \A s \in Seq(S) : Without(s, {}) = s
<1>. DEFINE P == {s \in Seq(S) : Without(s, {}) = s}
<1>1. <<>> \in P BY WithoutEmpty
<1>2. ASSUME NEW s \in Seq(S), NEW x \in S, s \in P PROVE Append(s, x) \in P
  <2>1. Without(Append(s, x), {}) = Append(Without(s, {}), x) BY WithoutAppend
  <2>. QED BY <1>2, <2>1
<1>. HIDE DEF P
<1>3. \A s \in Seq(S) : s \in P BY <1>1, <1>2, SequenceInduction
<1>. QED BY <1>3 DEF P

LEMMA WithoutConcat ==
    ASSUME NEW S, NEW K, NEW s \in Seq(S)
    PROVE  \A t \in Seq(S) : Without(s \o t, K) = Without(s, K) \o Without(t, K)
<1>. DEFINE P == {t \in Seq(S) : Without(s \o t, K) = Without(s, K) \o Without(t, K)}
<1>0. Without(s, K) \in Seq(S) BY WithoutType
<1>1. <<>> \in P BY <1>0, WithoutEmpty, ConcatEmptySeq
<1>2. ASSUME NEW t \in Seq(S), NEW x \in S, t \in P PROVE Append(t, x) \in P
  <2>1. s \o Append(t, x) = Append(s \o t, x) /\ s \o t \in Seq(S) OBVIOUS
  <2>2. Without(Append(s \o t, x), K) =
           IF x \in K THEN Without(s \o t, K) ELSE Append(Without(s \o t, K), x)
    BY <2>1, WithoutAppend
  <2>3. Without(Append(t, x), K) = IF x \in K THEN Without(t, K) ELSE Append(Without(t, K), x)
    BY WithoutAppend
  <2>4. Without(t, K) \in Seq(S) BY WithoutType
  <2>5. Without(s, K) \o Append(Without(t, K), x) = Append(Without(s, K) \o Without(t, K), x)
    BY <1>0, <2>4
  <2>6. Without(s \o Append(t, x), K) = Without(s, K) \o Without(Append(t, x), K)
    BY <1>2, <2>1, <2>2, <2>3, <2>5
  <2>. QED BY <2>6
<1>. HIDE DEF P
<1>3. \A t \in Seq(S) : t \in P BY <1>1, <1>2, SequenceInduction
<1>. QED BY <1>3 DEF P

\* The entries that are left are in the order they were in.
LEMMA WithoutOrder ==
    ASSUME NEW S, NEW K
    PROVE  \A s \in Seq(S) : \A i, j \in 1 .. Len(Without(s, K)) :
              i < j => \E a, b \in 1 .. Len(s) :
                          /\ a < b /\ s[a] = Without(s, K)[i] /\ s[b] = Without(s, K)[j]
<1>. DEFINE Ordered(s, r) ==
               \A i, j \in 1 .. Len(r) : i < j =>
                  \E a, b \in 1 .. Len(s) : a < b /\ s[a] = r[i] /\ s[b] = r[j]
            P == {s \in Seq(S) : Ordered(s, Without(s, K))}
<1>1. <<>> \in P BY WithoutEmpty
<1>2. ASSUME NEW s \in Seq(S), NEW x \in S, s \in P PROVE Append(s, x) \in P
  <2>. DEFINE t == Append(s, x)  r == Without(s, K)  n == Len(s)
  <2>1. r \in Seq(S) /\ Range(r) = Range(s) \ K BY WithoutType
  <2>2. t \in Seq(S) /\ Len(t) = n + 1 /\ n \in Nat /\ t[n + 1] = x
        /\ \A i \in 1 .. n : t[i] = s[i]
    OBVIOUS
  <2>3. Ordered(s, r) BY <1>2
  <2>4. Without(t, K) = IF x \in K THEN r ELSE Append(r, x) BY WithoutAppend
  <2>. HIDE DEF r, t, n
  <2>5. Ordered(t, r)
    <3>. SUFFICES ASSUME NEW i \in 1 .. Len(r), NEW j \in 1 .. Len(r), i < j
                  PROVE  \E a, b \in 1 .. Len(t) : a < b /\ t[a] = r[i] /\ t[b] = r[j]
      OBVIOUS
    <3>1. PICK a \in 1 .. n, b \in 1 .. n : a < b /\ s[a] = r[i] /\ s[b] = r[j]
      BY <2>3 DEF n
    <3>2. a \in 1 .. Len(t) /\ b \in 1 .. Len(t) BY <2>2
    <3>. QED BY <2>2, <3>1, <3>2
  <2>6. CASE x \in K
    <3>1. Without(t, K) = r BY <2>4, <2>6
    <3>2. t \in P BY <2>2, <2>5, <3>1
    <3>. QED BY <3>2 DEF t
  <2>7. CASE x \notin K
    <3>. DEFINE u == Append(r, x)
    <3>1. Len(u) = Len(r) + 1 /\ Len(r) \in Nat /\ u[Len(r) + 1] = x
          /\ \A i \in 1 .. Len(r) : u[i] = r[i]
      BY <2>1
    <3>. HIDE DEF u
    <3>2. ASSUME NEW i \in 1 .. Len(u), NEW j \in 1 .. Len(u), i < j
          PROVE  \E a, b \in 1 .. Len(t) : a < b /\ t[a] = u[i] /\ t[b] = u[j]
      <4>1. i \in 1 .. Len(r) BY <3>1, <3>2
      <4>2. CASE j \in 1 .. Len(r)
        <5>1. u[i] = r[i] /\ u[j] = r[j] BY <3>1, <4>1, <4>2
        <5>2. \E a, b \in 1 .. Len(t) : a < b /\ t[a] = r[i] /\ t[b] = r[j]
          BY <2>5, <3>2, <4>1, <4>2
        <5>. QED BY <5>1, <5>2
      <4>3. CASE j \notin 1 .. Len(r)
        <5>1. u[j] = t[n + 1] BY <2>2, <3>1, <4>3
        <5>2. r[i] \in Range(s) BY <2>1, <4>1 DEF Range
        <5>3. PICK a \in 1 .. n : s[a] = r[i] BY <5>2 DEF Range, n
        <5>4. a \in 1 .. Len(t) /\ n + 1 \in 1 .. Len(t) /\ a < n + 1 /\ t[a] = u[i]
          BY <2>2, <3>1, <4>1, <5>3
        <5>. QED BY <5>1, <5>4
      <4>. QED BY <4>2, <4>3
    <3>3. Ordered(t, u) BY <3>2
    <3>4. Without(t, K) = u BY <2>4, <2>7 DEF u
    <3>. HIDE DEF Ordered
    <3>5. Ordered(t, Without(t, K)) BY <3>3, <3>4
    <3>6. t \in P BY <2>2, <3>5
    <3>. QED BY <3>6 DEF t
  <2>. QED BY <2>6, <2>7
<1>. HIDE DEF P
<1>3. \A s \in Seq(S) : s \in P BY <1>1, <1>2, SequenceInduction
<1>. QED BY <1>3 DEF P

-----------------------------------------------------------------------------
(* Sequences in which nothing is twice.                                    *)

Distinct(s) == \A i, j \in 1 .. Len(s) : s[i] = s[j] => i = j

LEMMA DistinctAppend ==
    ASSUME NEW S, NEW s \in Seq(S), NEW x \in S
    PROVE  Distinct(Append(s, x)) <=> Distinct(s) /\ x \notin Range(s)
<1>. DEFINE t == Append(s, x)  n == Len(s)
<1>1. Len(t) = n + 1 /\ n \in Nat /\ t[n + 1] = x /\ \A i \in 1 .. n : t[i] = s[i]
  OBVIOUS
<1>2. Range(s) = {s[i] : i \in 1 .. n} BY DEF Range
<1>. HIDE DEF t
<1>3. ASSUME Distinct(t) PROVE Distinct(s) /\ x \notin Range(s)
  <2>1. Distinct(s) BY <1>1, <1>3 DEF Distinct
  <2>2. ASSUME NEW i \in 1 .. n PROVE s[i] # x
    <3>1. i \in 1 .. Len(t) /\ n + 1 \in 1 .. Len(t) /\ i # n + 1 BY <1>1
    <3>. QED BY <1>1, <1>3, <3>1 DEF Distinct
  <2>. QED BY <1>2, <2>1, <2>2
<1>4. ASSUME Distinct(s), x \notin Range(s) PROVE Distinct(t)
  <2>1. \A i \in 1 .. n : s[i] # x BY <1>2, <1>4
  <2>2. \A i \in 1 .. Len(t) : i \in 1 .. n \/ i = n + 1 BY <1>1
  <2>. QED BY <1>1, <1>4, <2>1, <2>2 DEF Distinct
<1>5. Distinct(t) <=> Distinct(s) /\ x \notin Range(s) BY <1>3, <1>4
<1>. QED BY <1>5 DEF t

LEMMA WithoutDistinct ==
    ASSUME NEW S, NEW K
    PROVE  \A s \in Seq(S) : Distinct(s) => Distinct(Without(s, K))
<1>. DEFINE P == {s \in Seq(S) : Distinct(s) => Distinct(Without(s, K))}
<1>1. <<>> \in P BY WithoutEmpty
<1>2. ASSUME NEW s \in Seq(S), NEW x \in S, s \in P PROVE Append(s, x) \in P
  <2>. SUFFICES ASSUME Distinct(Append(s, x)) PROVE Distinct(Without(Append(s, x), K))
    OBVIOUS
  <2>1. Distinct(s) /\ x \notin Range(s) BY DistinctAppend
  <2>2. Without(s, K) \in Seq(S) /\ Range(Without(s, K)) = Range(s) \ K BY WithoutType
  <2>3. Distinct(Without(s, K)) /\ x \notin Range(Without(s, K)) BY <1>2, <2>1, <2>2
  <2>4. Distinct(Append(Without(s, K), x)) BY <2>2, <2>3, DistinctAppend
  <2>5. Without(Append(s, x), K) = IF x \in K THEN Without(s, K) ELSE Append(Without(s, K), x)
    BY WithoutAppend
  <2>. QED BY <2>3, <2>4, <2>5
<1>. HIDE DEF P
<1>3. \A s \in Seq(S) : s \in P BY <1>1, <1>2, SequenceInduction
<1>. QED BY <1>3 DEF P

LEMMA DistinctLength ==
    ASSUME NEW S
    PROVE  \A s \in Seq(S) : /\ IsFiniteSet(Range(s)) /\ Cardinality(Range(s)) <= Len(s)
                             /\ Distinct(s) <=> Len(s) = Cardinality(Range(s))
<1>. DEFINE P == {s \in Seq(S) : /\ IsFiniteSet(Range(s)) /\ Cardinality(Range(s)) <= Len(s)
                                 /\ Distinct(s) <=> Len(s) = Cardinality(Range(s))}
<1>1. <<>> \in P
  <2>1. Range(<<>>) = {} /\ IsFiniteSet({}) /\ Cardinality({}) = 0 BY EmptyRange, FS_EmptySet
  <2>2. Len(<<>>) = 0 /\ Distinct(<<>>) BY DEF Distinct
  <2>3. <<>> \in Seq(S) OBVIOUS
  <2>4. Cardinality(Range(<<>>)) = 0 /\ IsFiniteSet(Range(<<>>)) BY <2>1
  <2>. QED BY <2>2, <2>3, <2>4
<1>2. ASSUME NEW s \in Seq(S), NEW x \in S, s \in P PROVE Append(s, x) \in P
  <2>. DEFINE R == Range(s)  t == Append(s, x)
  <2>1. Range(t) = R \cup {x} /\ t \in Seq(S) /\ Len(t) = Len(s) + 1 /\ Len(s) \in Nat
    BY AppendRange
  <2>2. IsFiniteSet(R) /\ Cardinality(R) \in Nat /\ Cardinality(R) <= Len(s)
        /\ (Distinct(s) <=> Len(s) = Cardinality(R))
    BY <1>2, FS_CardinalityType
  <2>3. IsFiniteSet(R \cup {x})
        /\ Cardinality(R \cup {x}) = IF x \in R THEN Cardinality(R) ELSE Cardinality(R) + 1
    BY <2>2, FS_AddElement
  <2>4. Distinct(t) <=> Distinct(s) /\ x \notin R BY DistinctAppend
  <2>. HIDE DEF R, t
  <2>5. Cardinality(R \cup {x}) <= Len(s) + 1 BY <2>1, <2>2, <2>3
  <2>6. (Distinct(s) /\ x \notin R) <=> Len(s) + 1 = Cardinality(R \cup {x})
    BY <2>1, <2>2, <2>3
  <2>7. t \in P BY <2>1, <2>3, <2>4, <2>5, <2>6
  <2>. QED BY <2>7 DEF t
<1>. HIDE DEF P
<1>3. \A s \in Seq(S) : s \in P BY <1>1, <1>2, SequenceInduction
<1>. QED BY <1>3 DEF P

LEMMA WithoutAll ==
    ASSUME NEW S, NEW s \in Seq(S), NEW K, Range(s) \subseteq K
    PROVE  Without(s, K) = <<>>
<1>. DEFINE r == Without(s, K)
<1>1. r \in Seq(S) /\ Range(r) = {} BY WithoutType
<1>. HIDE DEF r
<1>2. Len(r) = 0
  <2>1. Len(r) \in Nat /\ DOMAIN r = 1 .. Len(r) BY <1>1
  <2>2. ASSUME Len(r) # 0 PROVE FALSE
    <3>1. 1 \in DOMAIN r BY <2>1, <2>2
    <3>. QED BY <1>1, <3>1 DEF Range
  <2>. QED BY <2>2
<1>3. r = <<>> BY <1>1, <1>2, EmptySeq
<1>. QED BY <1>3 DEF r

LEMMA WithoutNothing ==
    ASSUME NEW S, NEW s \in Seq(S), NEW K, Range(s) \cap K = {}
    PROVE  Without(s, K) = s
<1>1. Range(s) \cap K = Range(s) \cap {} OBVIOUS
<1>2. Without(s, K) = Without(s, {}) BY <1>1, WithoutSame
<1>. QED BY <1>2, WithoutNone

\* Removing the first entries, or the last ones.
LEMMA WithoutEnds ==
    ASSUME NEW S, NEW s \in Seq(S), Distinct(s), NEW n \in 0 .. Len(s)
    PROVE  /\ Without(s, {s[j] : j \in 1 .. n}) = SubSeq(s, n + 1, Len(s))
           /\ Without(s, {s[j] : j \in n + 1 .. Len(s)}) = SubSeq(s, 1, n)
<1>. DEFINE a == SubSeq(s, 1, n)  b == SubSeq(s, n + 1, Len(s))
            A == {s[j] : j \in 1 .. n}  B == {s[j] : j \in n + 1 .. Len(s)}
<1>1. n \in Nat /\ Len(s) \in Nat /\ n <= Len(s) OBVIOUS
<1>2. a \in Seq(S) /\ Len(a) = n /\ \A i \in 1 .. n : a[i] = s[i]
  BY <1>1, SubSeqProperties
<1>3. b \in Seq(S) /\ Len(b) = Len(s) - n /\ \A i \in 1 .. Len(s) - n : b[i] = s[n + i]
  BY <1>1, SubSeqProperties
<1>4. s = a \o b
  <2>. HIDE DEF a, b, A, B
  <2>1. a \o b \in Seq(S) /\ Len(a \o b) = Len(s)
    <3>1. a \o b \in Seq(S) /\ Len(a \o b) = Len(a) + Len(b) BY <1>2, <1>3, ConcatProperties
    <3>2. Len(a) + Len(b) = Len(s) BY <1>1, <1>2, <1>3
    <3>. QED BY <3>1, <3>2
  <2>2. ASSUME NEW i \in 1 .. Len(s) PROVE (a \o b)[i] = s[i]
    <3>1. (a \o b)[i] = IF i <= n THEN a[i] ELSE b[i - n] BY <1>1, <1>2, <1>3, ConcatProperties
    <3>2. CASE i <= n
      <4>1. i \in 1 .. n BY <1>1, <3>2
      <4>. QED BY <1>2, <3>1, <3>2, <4>1
    <3>3. CASE ~(i <= n)
      <4>1. i - n \in 1 .. Len(s) - n /\ n + (i - n) = i BY <1>1, <3>3
      <4>2. b[i - n] = s[i] BY <1>3, <4>1
      <4>. QED BY <3>1, <3>3, <4>2
    <3>. QED BY <3>2, <3>3
  <2>. QED BY <2>1, <2>2, SeqEqual
<1>5. Range(a) = A
  <2>1. DOMAIN a = 1 .. n BY <1>2
  <2>. QED BY <1>2, <2>1 DEF Range
<1>6. Range(b) = B
  <2>1. DOMAIN b = 1 .. Len(s) - n BY <1>3
  <2>2. \A i \in 1 .. Len(s) - n : b[i] = s[n + i] /\ n + i \in n + 1 .. Len(s) BY <1>1, <1>3
  <2>3. \A j \in n + 1 .. Len(s) : j - n \in 1 .. Len(s) - n /\ s[j] = b[j - n]
    <3>. SUFFICES ASSUME NEW j \in n + 1 .. Len(s)
                  PROVE  j - n \in 1 .. Len(s) - n /\ s[j] = b[j - n]
      OBVIOUS
    <3>1. j - n \in 1 .. Len(s) - n /\ n + (j - n) = j BY <1>1
    <3>2. b[j - n] = s[n + (j - n)] BY <1>3, <3>1
    <3>. QED BY <3>1, <3>2
  <2>. HIDE DEF b
  <2>. QED BY <2>1, <2>2, <2>3 DEF Range
<1>7. A \cap B = {}
  <2>. SUFFICES ASSUME NEW i \in 1 .. n, NEW j \in n + 1 .. Len(s), s[i] = s[j] PROVE FALSE
    OBVIOUS
  <2>1. i \in 1 .. Len(s) /\ j \in 1 .. Len(s) /\ i # j BY <1>1
  <2>. QED BY <2>1 DEF Distinct
<1>. HIDE DEF a, b, A, B
<1>8. Without(s, A) = b
  <2>1. Without(a, A) = <<>> BY <1>2, <1>5, WithoutAll
  <2>2. Without(b, A) = b BY <1>3, <1>6, <1>7, WithoutNothing
  <2>3. Without(a \o b, A) = Without(a, A) \o Without(b, A) BY <1>2, <1>3, WithoutConcat
  <2>. QED BY <1>3, <1>4, <2>1, <2>2, <2>3, ConcatEmptySeq
<1>9. Without(s, B) = a
  <2>1. Without(a, B) = a BY <1>2, <1>5, <1>7, WithoutNothing
  <2>2. Without(b, B) = <<>> BY <1>3, <1>6, WithoutAll
  <2>3. Without(a \o b, B) = Without(a, B) \o Without(b, B) BY <1>2, <1>3, WithoutConcat
  <2>. QED BY <1>2, <1>4, <2>1, <2>2, <2>3, ConcatEmptySeq
<1>. QED BY <1>8, <1>9 DEF a, b, A, B

LEMMA FrontRange ==
    ASSUME NEW S, NEW s \in Seq(S), NEW x \in S
    PROVE  /\ Range(<<x>> \o s) = {x} \cup Range(s)
           /\ \A i \in 1 .. Len(s) + 1 : \/ i = 1 /\ (<<x>> \o s)[i] = x
                                         \/ i - 1 \in 1 .. Len(s) /\ (<<x>> \o s)[i] = s[i - 1]
<1>. DEFINE t == <<x>> \o s
<1>1. /\ Len(s) \in Nat /\ t[1] = x /\ \A i \in 1 .. Len(s) : t[i + 1] = s[i]
      /\ DOMAIN t = 1 .. Len(s) + 1 /\ DOMAIN s = 1 .. Len(s)
  OBVIOUS
<1>. HIDE DEF t
<1>2. \A i \in 1 .. Len(s) + 1 : \/ i = 1 /\ t[i] = x
                                 \/ i - 1 \in 1 .. Len(s) /\ t[i] = s[i - 1]
  <2>. SUFFICES ASSUME NEW i \in 1 .. Len(s) + 1, i # 1
                PROVE  i - 1 \in 1 .. Len(s) /\ t[i] = s[i - 1]
    BY <1>1
  <2>1. i - 1 \in 1 .. Len(s) /\ (i - 1) + 1 = i BY <1>1
  <2>2. t[(i - 1) + 1] = s[i - 1] BY <1>1, <2>1
  <2>. QED BY <2>1, <2>2
<1>3. ASSUME NEW y \in Range(t) PROVE y \in {x} \cup Range(s)
  <2>1. PICK i \in 1 .. Len(s) + 1 : y = t[i] BY <1>1 DEF Range
  <2>. QED BY <1>1, <1>2, <2>1 DEF Range
<1>4. ASSUME NEW y \in Range(s) PROVE y \in Range(t)
  <2>1. PICK i \in 1 .. Len(s) : y = s[i] BY <1>1 DEF Range
  <2>2. i + 1 \in DOMAIN t /\ y = t[i + 1] BY <1>1, <2>1
  <2>. QED BY <2>2 DEF Range
<1>5. x \in Range(t)
  <2>1. 1 \in DOMAIN t /\ x = t[1] BY <1>1
  <2>. QED BY <2>1 DEF Range
<1>. QED BY <1>2, <1>3, <1>4, <1>5 DEF t

\* What is put first in a list it is not in.
LEMMA FrontAdded ==
    ASSUME NEW S, NEW s \in Seq(S), NEW x \in S, Distinct(s), x \notin Range(s)
    PROVE  /\ <<x>> \o s \in Seq(S) /\ Distinct(<<x>> \o s)
           /\ Range(<<x>> \o s) = {x} \cup Range(s)
           /\ Len(<<x>> \o s) = Len(s) + 1
<1>. DEFINE t == <<x>> \o s
<1>1. t \in Seq(S) /\ Len(t) = Len(s) + 1 /\ Len(s) \in Nat OBVIOUS
<1>2. /\ Range(t) = {x} \cup Range(s)
      /\ \A i \in 1 .. Len(s) + 1 : \/ i = 1 /\ t[i] = x
                                    \/ i - 1 \in 1 .. Len(s) /\ t[i] = s[i - 1]
  BY FrontRange
<1>. HIDE DEF t
<1>3. \A i \in 1 .. Len(s) : s[i] # x BY DEF Range
<1>4. Distinct(t)
  <2>. SUFFICES ASSUME NEW i \in 1 .. Len(s) + 1, NEW j \in 1 .. Len(s) + 1, t[i] = t[j]
                PROVE  i = j
    BY <1>1 DEF Distinct
  <2>1. CASE i = 1 BY <1>2, <1>3, <2>1
  <2>2. CASE j = 1 BY <1>2, <1>3, <2>2
  <2>3. CASE i # 1 /\ j # 1
    <3>1. i - 1 \in 1 .. Len(s) /\ j - 1 \in 1 .. Len(s) /\ s[i - 1] = s[j - 1]
      BY <1>2, <2>3
    <3>2. i - 1 = j - 1 BY <3>1 DEF Distinct
    <3>. QED BY <1>1, <3>2
  <2>. QED BY <2>1, <2>2, <2>3
<1>. QED BY <1>1, <1>2, <1>4 DEF t

\* The entries of the second half of a list.
LEMMA TailRange ==
    ASSUME NEW S, NEW s \in Seq(S), NEW n \in 0 .. Len(s)
    PROVE  Range(SubSeq(s, n + 1, Len(s))) = {s[j] : j \in n + 1 .. Len(s)}
<1>. DEFINE t == SubSeq(s, n + 1, Len(s))
<1>1. /\ Len(s) \in Nat /\ Len(t) = Len(s) - n /\ DOMAIN t = 1 .. Len(s) - n
      /\ \A i \in 1 .. Len(s) - n : t[i] = s[i + n]
  OBVIOUS
<1>. HIDE DEF t
<1>2. ASSUME NEW y \in Range(t) PROVE y \in {s[j] : j \in n + 1 .. Len(s)}
  <2>1. PICK i \in 1 .. Len(s) - n : y = t[i] BY <1>1 DEF Range
  <2>2. i + n \in n + 1 .. Len(s) /\ y = s[i + n] BY <1>1, <2>1
  <2>. QED BY <2>2
<1>3. ASSUME NEW j \in n + 1 .. Len(s) PROVE s[j] \in Range(t)
  <2>1. j - n \in 1 .. Len(s) - n /\ (j - n) + n = j BY <1>1
  <2>2. j - n \in DOMAIN t /\ t[j - n] = s[j] BY <1>1, <2>1
  <2>. QED BY <2>2 DEF Range
<1>. QED BY <1>2, <1>3 DEF t
=============================================================================
