------------------------ MODULE ResourceStore_proofs ------------------------
(***************************************************************************)
(* The resource store, for any threads, values, keys, sizes and limits.    *)
(***************************************************************************)
EXTENDS ResourceStore, CommonLemmas, TLAPS

-----------------------------------------------------------------------------
(* The calls a thread can be in.                                           *)

Lists   == {s \in Seq(Vals) : Distinct(s)}
Stores  == [pc : {"store", "reaped"}, item : Vals, want : Int]
Spaces  == [pc : {"space"}, chain : Lists \ {<<>>}, item : Vals, want : Int]
Mallocs == [pc : {"malloc", "phase", "while"}, size : Int, phase : Int, max : Int]
Scavs   == [pc : {"scavenge"}, tofree : Int, freed : Int, back : Mallocs \cup {Idle}]
Emptying == [pc |-> "empty"]

Frames == {Idle, Emptying} \cup Stores \cup Spaces \cup Mallocs \cup Scavs

Drops ==
    {c \in [pc : {"drop"}, chain : Lists, dead : SUBSET Vals, back : Frames] :
        /\ c.dead \subseteq Range(c.chain)
        /\ c.chain = <<>> => c.back # Idle}

Calls == Frames \cup Drops

\* What a call still has to discard.
ChainOf(c) == IF c.pc = "drop" THEN Range(c.chain) ELSE {}

LEMMA RangeIn ==
    ASSUME NEW S, NEW s \in Seq(S)
    PROVE  Range(s) \subseteq S /\ IsFiniteSet(Range(s))
<1>1. IsFiniteSet(Range(s)) BY DistinctLength
<1>2. DOMAIN s = 1 .. Len(s) /\ \A i \in 1 .. Len(s) : s[i] \in S OBVIOUS
<1>. QED BY <1>1, <1>2 DEF Range

LEMMA FrameIs ==
    ASSUME NEW c \in Frames
    PROVE  /\ c.pc # "drop" /\ Resumed(c) = c /\ DoomedOf(c) = {} /\ ChainOf(c) = {}
           /\ c.pc = "idle" => c = Idle
           /\ c.pc = "empty" => c = Emptying
           /\ c.pc \in {"store", "reaped"} => c \in Stores
           /\ c.pc = "space" => c \in Spaces
           /\ c.pc = "scavenge" => c \in Scavs
           /\ c.pc \in {"malloc", "phase", "while"} => c \in Mallocs
<1>1. CASE c = Idle \/ c = Emptying
  BY <1>1 DEF Idle, Emptying, Resumed, DoomedOf, ChainOf
<1>2. CASE c \in Stores
  BY <1>2 DEF Stores, Resumed, DoomedOf, ChainOf
<1>3. CASE c \in Spaces
  BY <1>3 DEF Spaces, Resumed, DoomedOf, ChainOf
<1>4. CASE c \in Mallocs
  BY <1>4 DEF Mallocs, Resumed, DoomedOf, ChainOf
<1>5. CASE c \in Scavs
  BY <1>5 DEF Scavs, Resumed, DoomedOf, ChainOf
<1>. QED BY <1>1, <1>2, <1>3, <1>4, <1>5 DEF Frames

LEMMA CallIs ==
    ASSUME NEW c \in Calls
    PROVE  /\ c.pc = "drop" => c \in Drops /\ Resumed(c) = c.back
           /\ c.pc # "drop" => c \in Frames /\ Resumed(c) = c
           /\ Resumed(c) \in Frames
<1>1. CASE c \in Frames BY <1>1, FrameIs
<1>2. CASE c \in Drops BY <1>2 DEF Drops, Resumed
<1>. QED BY <1>1, <1>2 DEF Calls

\* What calls have is of the types of the store.
LEMMA ViewTypes ==
    ASSUME NEW c \in Calls
    PROVE  /\ ItemOf(c) \subseteq Vals /\ LeavingOf(c) \subseteq Vals
           /\ ChainOf(c) \subseteq Vals /\ IsFiniteSet(ChainOf(c))
           /\ DoomedOf(c) \subseteq ChainOf(c)
<1>1. ItemOf(c) \subseteq Vals
  <2>1. CASE Resumed(c).pc \in {"store", "reaped"}
    <3>1. Resumed(c) \in Stores BY <2>1, CallIs, FrameIs
    <3>. QED BY <3>1 DEF Stores, ItemOf
  <2>2. CASE Resumed(c).pc = "space"
    <3>1. Resumed(c) \in Spaces BY <2>2, CallIs, FrameIs
    <3>. QED BY <3>1 DEF Spaces, ItemOf
  <2>3. CASE Resumed(c).pc \notin {"store", "reaped", "space"} BY <2>3 DEF ItemOf
  <2>. QED BY <2>1, <2>2, <2>3
<1>2. LeavingOf(c) \subseteq Vals
  <2>1. CASE Resumed(c).pc = "space"
    <3>1. Resumed(c) \in Spaces BY <2>1, CallIs, FrameIs
    <3>2. Resumed(c).chain \in Seq(Vals) BY <3>1 DEF Spaces, Lists
    <3>3. Range(Resumed(c).chain) \subseteq Vals BY <3>2, RangeIn
    <3>. QED BY <3>3 DEF LeavingOf
  <2>2. CASE Resumed(c).pc # "space" BY <2>2 DEF LeavingOf
  <2>. QED BY <2>1, <2>2
<1>3. CASE c.pc = "drop"
  <2>1. c \in Drops BY <1>3, CallIs
  <2>2. c.chain \in Seq(Vals) /\ c.dead \subseteq Range(c.chain) BY <2>1 DEF Drops, Lists
  <2>. QED BY <1>1, <1>2, <1>3, <2>2, RangeIn DEF ChainOf, DoomedOf
<1>4. CASE c.pc # "drop" BY <1>1, <1>2, <1>4, FS_EmptySet DEF ChainOf, DoomedOf
<1>. QED BY <1>3, <1>4

\* The call that discards a chain and goes on with a frame.
LEMMA DiscardIs ==
    ASSUME NEW s \in Lists, NEW dead \in SUBSET Range(s), NEW back \in Frames
    PROVE  /\ Discard(s, dead, back) \in Calls
           /\ Discard(s, dead, back).pc \in {"idle", "drop"}
           /\ Resumed(Discard(s, dead, back)) = back
           /\ ChainOf(Discard(s, dead, back)) = Range(s)
           /\ DoomedOf(Discard(s, dead, back)) = dead
<1>. DEFINE c == Discard(s, dead, back)
<1>1. CASE s = <<>> /\ back = Idle
  <2>1. c = Idle BY <1>1 DEF Discard
  <2>2. Range(s) = {} BY <1>1, EmptyRange
  <2>3. Idle \in Frames /\ Idle \in Calls /\ Idle.pc = "idle" BY DEF Frames, Calls, Idle
  <2>. HIDE DEF c
  <2>4. Resumed(c) = back /\ ChainOf(c) = {} /\ DoomedOf(c) = {} BY <1>1, <2>1, <2>3, FrameIs
  <2>5. dead = {} BY <2>2
  <2>. QED BY <2>1, <2>2, <2>3, <2>4, <2>5 DEF c
<1>2. CASE ~(s = <<>> /\ back = Idle)
  <2>1. c = [pc |-> "drop", chain |-> s, dead |-> dead, back |-> back] BY <1>2 DEF Discard
  <2>2. Range(s) \subseteq Vals BY RangeIn DEF Lists
  <2>3. c.pc = "drop" /\ c.chain = s /\ c.dead = dead /\ c.back = back BY <2>1
  <2>4. c \in [pc : {"drop"}, chain : Lists, dead : SUBSET Vals, back : Frames] BY <2>1, <2>2
  <2>. HIDE DEF c
  <2>5. c \in Drops BY <1>2, <2>3, <2>4 DEF Drops
  <2>. QED BY <2>3, <2>5 DEF Calls, Resumed, ChainOf, DoomedOf, c
<1>. QED BY <1>1, <1>2

-----------------------------------------------------------------------------
(* The calls of all threads, and what a step of one of them changes.       *)

\* Inside of a critical section a thread has the lock.
Locked == \A t \in Threads : call[t].pc \notin {"idle", "drop"} => lock = t

\* A thread uses what it stores, and the key it stores it under.
Owned ==
    \A t \in Threads : \A v \in ItemOf(call[t]) :
        v \in held[t] /\ t \in ctxs /\ Usable(t, KeyOf[v])

\* No two threads store, take out or destroy the same.
Apart ==
    \A s, t \in Threads : s # t =>
        /\ ItemOf(call[s]) \cap ItemOf(call[t]) = {}
        /\ LeavingOf(call[s]) \cap LeavingOf(call[t]) = {}
        /\ DoomedOf(call[s]) \cap DoomedOf(call[t]) = {}

CallsInv == call \in [Threads -> Calls] /\ Locked /\ Owned /\ Apart

Disjoint(f, T) == \A s, t \in T : s # t => f[s] \cap f[t] = {}

Whole(f, T) == UNION {f[s] : s \in T}

\* One of many sets that have nothing in common changes.
LEMMA UnionUpdated ==
    ASSUME NEW T, NEW t \in T, NEW f, NEW g, Disjoint(f, T),
           \A s \in T : s # t => g[s] = f[s],
           \A v \in g[t] : v \notin f[t] => v \notin Whole(f, T)
    PROVE  /\ Disjoint(g, T)
           /\ Whole(g, T) = (Whole(f, T) \ f[t]) \cup g[t]
<1>1. Disjoint(g, T)
  <2>. SUFFICES ASSUME NEW r \in T, NEW s \in T, r # s, NEW v, v \in g[r], v \in g[s]
                PROVE  FALSE
    BY DEF Disjoint
  <2>1. ASSUME NEW q \in T, q # t, v \in g[q], v \in g[t] PROVE FALSE
    <3>1. v \in f[q] BY <2>1
    <3>2. v \in f[t] BY <2>1, <3>1 DEF Whole
    <3>. QED BY <2>1, <3>1, <3>2 DEF Disjoint
  <2>2. CASE r = t BY <2>1, <2>2
  <2>3. CASE s = t BY <2>1, <2>3
  <2>4. CASE r # t /\ s # t BY <2>4 DEF Disjoint
  <2>. QED BY <2>2, <2>3, <2>4
<1>2. ASSUME NEW v, v \in Whole(g, T)
      PROVE  v \in (Whole(f, T) \ f[t]) \cup g[t]
  <2>1. PICK s \in T : v \in g[s] BY <1>2 DEF Whole
  <2>2. CASE s = t BY <2>1, <2>2
  <2>3. CASE s # t
    <3>1. v \in f[s] BY <2>1, <2>3
    <3>2. v \notin f[t] BY <2>3, <3>1 DEF Disjoint
    <3>. QED BY <3>1, <3>2 DEF Whole
  <2>. QED BY <2>2, <2>3
<1>3. ASSUME NEW v, v \in (Whole(f, T) \ f[t]) \cup g[t]
      PROVE  v \in Whole(g, T)
  <2>1. CASE v \in g[t] BY <2>1 DEF Whole
  <2>2. CASE v \notin g[t]
    <3>1. PICK s \in T : v \in f[s] /\ s # t BY <1>3, <2>2 DEF Whole
    <3>. QED BY <3>1 DEF Whole
  <2>. QED BY <2>1, <2>2
<1>. QED BY <1>1, <1>2, <1>3

\* One of the weights of a sum changes.
LEMMA TotalUpdated ==
    ASSUME NEW S, IsFiniteSet(S), NEW w, NEW v, Weights(w, S), Weights(v, S), NEW x \in S,
           \A y \in S : y # x => w[y] = v[y]
    PROVE  Total(v, S) + w[x] = Total(w, S) + v[x]
<1>. DEFINE R == S \ {x}  a == Total(w, R)  b == Total(v, R)
<1>1. IsFiniteSet(R) /\ Weights(w, R) /\ Weights(v, R) BY FS_Subset DEF Weights
<1>2. Total(w, S) = w[x] + a /\ Total(v, S) = v[x] + b BY TotalRemove
<1>3. \A y \in R : w[y] = v[y] OBVIOUS
<1>. HIDE DEF R
<1>4. a = b BY <1>1, <1>3, TotalSame
<1>5. a \in Nat /\ b \in Nat BY <1>1, TotalType
<1>6. w[x] \in Nat /\ v[x] \in Nat BY DEF Weights
<1>. HIDE DEF a, b
<1>. QED BY <1>2, <1>4, <1>5, <1>6

\* A thread goes from one place of its calls to another.
LEMMA Stepped ==
    ASSUME CallsInv, NEW t \in Threads, NEW c \in Calls, call' = [call EXCEPT ![t] = c],
           lock \in {NoOne, t}, lock' = t \/ c.pc \in {"idle", "drop"},
           \A v \in ItemOf(c) : v \notin ItemOf(call[t]) => v \notin Inserting,
           \A v \in LeavingOf(c) : v \notin LeavingOf(call[t]) => v \notin Leaving,
           \A v \in DoomedOf(c) : v \notin DoomedOf(call[t]) => v \notin Doomed,
           \A v \in ItemOf(c) : (v \in held[t] /\ t \in ctxs /\ Usable(t, KeyOf[v]))',
           \A s \in Threads : s # t =>
              held'[s] = held[s] /\ users'[s] = users[s] /\ (s \in ctxs => s \in ctxs')
    PROVE  /\ CallsInv'
           /\ Inserting' = (Inserting \ ItemOf(call[t])) \cup ItemOf(c)
           /\ Leaving' = (Leaving \ LeavingOf(call[t])) \cup LeavingOf(c)
           /\ Doomed' = (Doomed \ DoomedOf(call[t])) \cup DoomedOf(c)
<1>. DEFINE e == call'
<1>1. /\ e \in [Threads -> Calls] /\ e[t] = c
      /\ \A s \in Threads : s # t => e[s] = call[s]
  BY DEF CallsInv
<1>2. /\ Disjoint([s \in Threads |-> ItemOf(call[s])], Threads)
      /\ Disjoint([s \in Threads |-> LeavingOf(call[s])], Threads)
      /\ Disjoint([s \in Threads |-> DoomedOf(call[s])], Threads)
  BY DEF CallsInv, Apart, Disjoint
<1>3. /\ Disjoint([s \in Threads |-> ItemOf(e[s])], Threads)
      /\ UNION {ItemOf(e[s]) : s \in Threads} = (Inserting \ ItemOf(call[t])) \cup ItemOf(c)
  <2>. DEFINE f == [s \in Threads |-> ItemOf(call[s])]  g == [s \in Threads |-> ItemOf(e[s])]
  <2>1. /\ f[t] = ItemOf(call[t]) /\ g[t] = ItemOf(c)
        /\ Whole(f, Threads) = Inserting
        /\ Whole(g, Threads) = UNION {ItemOf(e[s]) : s \in Threads}
        /\ \A s \in Threads : s # t => g[s] = f[s]
    BY <1>1 DEF Inserting, Whole
  <2>2. \A v \in g[t] : v \notin f[t] => v \notin Whole(f, Threads) BY <2>1
  <2>3. Disjoint(f, Threads) BY <1>2
  <2>. HIDE DEF f, g
  <2>4. /\ Disjoint(g, Threads)
        /\ Whole(g, Threads) = (Whole(f, Threads) \ f[t]) \cup g[t]
    BY <2>1, <2>2, <2>3, UnionUpdated
  <2>5. Disjoint([s \in Threads |-> ItemOf(e[s])], Threads) BY <2>4 DEF g
  <2>. QED BY <2>1, <2>4, <2>5
<1>4. /\ Disjoint([s \in Threads |-> LeavingOf(e[s])], Threads)
      /\ UNION {LeavingOf(e[s]) : s \in Threads} = (Leaving \ LeavingOf(call[t])) \cup LeavingOf(c)
  <2>. DEFINE f == [s \in Threads |-> LeavingOf(call[s])]
              g == [s \in Threads |-> LeavingOf(e[s])]
  <2>1. /\ f[t] = LeavingOf(call[t]) /\ g[t] = LeavingOf(c)
        /\ Whole(f, Threads) = Leaving
        /\ Whole(g, Threads) = UNION {LeavingOf(e[s]) : s \in Threads}
        /\ \A s \in Threads : s # t => g[s] = f[s]
    BY <1>1 DEF Leaving, Whole
  <2>2. \A v \in g[t] : v \notin f[t] => v \notin Whole(f, Threads) BY <2>1
  <2>3. Disjoint(f, Threads) BY <1>2
  <2>. HIDE DEF f, g
  <2>4. /\ Disjoint(g, Threads)
        /\ Whole(g, Threads) = (Whole(f, Threads) \ f[t]) \cup g[t]
    BY <2>1, <2>2, <2>3, UnionUpdated
  <2>5. Disjoint([s \in Threads |-> LeavingOf(e[s])], Threads) BY <2>4 DEF g
  <2>. QED BY <2>1, <2>4, <2>5
<1>5. /\ Disjoint([s \in Threads |-> DoomedOf(e[s])], Threads)
      /\ UNION {DoomedOf(e[s]) : s \in Threads} = (Doomed \ DoomedOf(call[t])) \cup DoomedOf(c)
  <2>. DEFINE f == [s \in Threads |-> DoomedOf(call[s])]
              g == [s \in Threads |-> DoomedOf(e[s])]
  <2>1. /\ f[t] = DoomedOf(call[t]) /\ g[t] = DoomedOf(c)
        /\ Whole(f, Threads) = Doomed
        /\ Whole(g, Threads) = UNION {DoomedOf(e[s]) : s \in Threads}
        /\ \A s \in Threads : s # t => g[s] = f[s]
    BY <1>1 DEF Doomed, Whole
  <2>2. \A v \in g[t] : v \notin f[t] => v \notin Whole(f, Threads) BY <2>1
  <2>3. Disjoint(f, Threads) BY <1>2
  <2>. HIDE DEF f, g
  <2>4. /\ Disjoint(g, Threads)
        /\ Whole(g, Threads) = (Whole(f, Threads) \ f[t]) \cup g[t]
    BY <2>1, <2>2, <2>3, UnionUpdated
  <2>5. Disjoint([s \in Threads |-> DoomedOf(e[s])], Threads) BY <2>4 DEF g
  <2>. QED BY <2>1, <2>4, <2>5
<1>6. Apart'
  <2>. SUFFICES ASSUME NEW r \in Threads, NEW s \in Threads, r # s
                PROVE  /\ ItemOf(e[r]) \cap ItemOf(e[s]) = {}
                       /\ LeavingOf(e[r]) \cap LeavingOf(e[s]) = {}
                       /\ DoomedOf(e[r]) \cap DoomedOf(e[s]) = {}
    BY DEF Apart
  <2>1. ItemOf(e[r]) \cap ItemOf(e[s]) = {} BY <1>3 DEF Disjoint
  <2>2. LeavingOf(e[r]) \cap LeavingOf(e[s]) = {} BY <1>4 DEF Disjoint
  <2>3. DoomedOf(e[r]) \cap DoomedOf(e[s]) = {} BY <1>5 DEF Disjoint
  <2>. QED BY <2>1, <2>2, <2>3
<1>7. Locked'
  <2>. SUFFICES ASSUME NEW s \in Threads, e[s].pc \notin {"idle", "drop"} PROVE lock' = s
    BY DEF Locked
  <2>1. CASE s = t BY <1>1, <2>1
  <2>2. CASE s # t
    <3>1. lock = s BY <1>1, <2>2 DEF CallsInv, Locked
    <3>. QED BY <2>2, <3>1, ValsAssumption
  <2>. QED BY <2>1, <2>2
<1>8. Owned'
  <2>. SUFFICES ASSUME NEW s \in Threads, NEW v \in ItemOf(e[s])
                PROVE  (v \in held[s] /\ s \in ctxs /\ Usable(s, KeyOf[v]))'
    BY DEF Owned
  <2>1. CASE s = t BY <1>1, <2>1
  <2>2. CASE s # t
    <3>1. v \in held[s] /\ s \in ctxs /\ Usable(s, KeyOf[v])
      BY <1>1, <2>2 DEF CallsInv, Owned
    <3>2. held'[s] = held[s] /\ users'[s] = users[s] /\ s \in ctxs' BY <2>2, <3>1
    <3>. QED BY <3>1, <3>2 DEF Usable
  <2>. QED BY <2>1, <2>2
<1>9. CallsInv' BY <1>1, <1>6, <1>7, <1>8 DEF CallsInv
<1>. QED BY <1>3, <1>4, <1>5, <1>9 DEF Inserting, Leaving, Doomed

-----------------------------------------------------------------------------
(* Values, items and keys: who counts for what.                            *)

Holders(v) == {t \in Threads : v \in held[t]}
UsersOf(i) == {t \in Threads : i \in users[t]}
Held == UNION {held[t] : t \in Threads}

KeyedIn(V, i) == {v \in V : KeyOf[v] = i}

\* The items of an image that each thread has yet to discard.
Chained(i) == [t \in Threads |-> Cardinality(KeyedIn(ChainOf(call[t]), i))]

Counts ==
    /\ held \in [Threads -> SUBSET Vals] /\ refs \in [Vals -> Nat]
    /\ RefsAreUsers

\* What is allocated is used, in the store or about to be destroyed, and
\* what is about to be destroyed is neither of the others.
Lives ==
    /\ InStore \subseteq Vals
    /\ alive = Held \cup InStore \cup Doomed
    /\ Doomed \cap (Held \cup InStore) = {}

\* An image has a reference for each item under it, until that item has
\* been discarded.
ItemKeys ==
    /\ IsFiniteSet(InStore)
    /\ keyRefs \in [Images -> Nat]
    /\ \A i \in Images :
          keyRefs[i] = Cardinality(KeyedIn(InStore, i)) + Total(Chained(i), Threads)

ImageUses ==
    /\ users \in [Threads -> SUBSET Images] /\ imgRefs \in [Images -> Nat]
    /\ \A i \in Images : imgRefs[i] = keyRefs[i] + Cardinality(UsersOf(i))

Accounts == Counts /\ Lives /\ ItemKeys /\ ImageUses

LEMMA HoldersFinite ==
    /\ \A v : IsFiniteSet(Holders(v)) /\ Cardinality(Holders(v)) \in Nat
    /\ \A i : IsFiniteSet(UsersOf(i)) /\ Cardinality(UsersOf(i)) \in Nat
<1>1. ASSUME NEW S \in SUBSET Threads PROVE IsFiniteSet(S) /\ Cardinality(S) \in Nat
  BY ValsAssumption, FS_Subset, FS_CardinalityType
<1>2. \A v : Holders(v) \in SUBSET Threads BY DEF Holders
<1>3. \A i : UsersOf(i) \in SUBSET Threads BY DEF UsersOf
<1>. QED BY <1>1, <1>2, <1>3

\* Nobody counts for nothing.
LEMMA NobodyCounts ==
    ASSUME NEW S, IsFiniteSet(S)
    PROVE  Cardinality(S) \in Nat /\ (Cardinality(S) = 0 <=> S = {})
BY FS_EmptySet, FS_CardinalityType

LEMMA ChainedWeights ==
    ASSUME call \in [Threads -> Calls], NEW i
    PROVE  Weights(Chained(i), Threads) /\ Total(Chained(i), Threads) \in Nat
<1>1. ASSUME NEW t \in Threads PROVE Chained(i)[t] \in Nat
  <2>1. call[t] \in Calls OBVIOUS
  <2>2. IsFiniteSet(ChainOf(call[t])) BY <2>1, ViewTypes
  <2>3. KeyedIn(ChainOf(call[t]), i) \subseteq ChainOf(call[t]) BY DEF KeyedIn
  <2>4. Cardinality(KeyedIn(ChainOf(call[t]), i)) \in Nat
    BY <2>2, <2>3, FS_Subset, FS_CardinalityType
  <2>. QED BY <2>4 DEF Chained
<1>2. Weights(Chained(i), Threads) BY <1>1 DEF Weights
<1>. QED BY <1>2, TotalType, ValsAssumption

\* The chain of one thread changes.
LEMMA ChainUpdated ==
    ASSUME call \in [Threads -> Calls], NEW t \in Threads, NEW c \in Calls,
           call' = [call EXCEPT ![t] = c], NEW i
    PROVE  /\ Total(Chained(i)', Threads) + Cardinality(KeyedIn(ChainOf(call[t]), i))
              = Total(Chained(i), Threads) + Cardinality(KeyedIn(ChainOf(c), i))
           /\ Total(Chained(i)', Threads) \in Nat
<1>. DEFINE e == call'  w == Chained(i)  v == Chained(i)'
<1>1. /\ e \in [Threads -> Calls] /\ e[t] = c
      /\ \A s \in Threads : s # t => e[s] = call[s]
  OBVIOUS
<1>2. v = [s \in Threads |-> Cardinality(KeyedIn(ChainOf(e[s]), i))]
  BY DEF Chained, KeyedIn, ChainOf
<1>3. /\ w[t] = Cardinality(KeyedIn(ChainOf(call[t]), i))
      /\ v[t] = Cardinality(KeyedIn(ChainOf(c), i))
  BY <1>1, <1>2 DEF Chained
<1>4. \A s \in Threads : s # t => w[s] = v[s]
  BY <1>1, <1>2 DEF Chained
<1>5. Weights(w, Threads) BY ChainedWeights
<1>6. Weights(v, Threads)
  <2>1. ASSUME NEW s \in Threads PROVE v[s] \in Nat
    <3>1. IsFiniteSet(ChainOf(e[s])) BY <1>1, ViewTypes
    <3>2. KeyedIn(ChainOf(e[s]), i) \subseteq ChainOf(e[s]) BY DEF KeyedIn
    <3>3. Cardinality(KeyedIn(ChainOf(e[s]), i)) \in Nat
      BY <3>1, <3>2, FS_Subset, FS_CardinalityType
    <3>. QED BY <1>2, <3>3
  <2>. QED BY <2>1 DEF Weights
<1>. HIDE DEF w, v
<1>7. Total(v, Threads) + w[t] = Total(w, Threads) + v[t]
  BY <1>4, <1>5, <1>6, TotalUpdated, ValsAssumption
<1>8. Total(v, Threads) \in Nat BY <1>6, TotalType, ValsAssumption
<1>. QED BY <1>3, <1>7, <1>8 DEF v, w

\* Nothing that is counted changes.
LEMMA AccountsKept ==
    ASSUME Accounts, call \in [Threads -> Calls], NEW t \in Threads, NEW c \in Calls,
           call' = [call EXCEPT ![t] = c], ChainOf(c) = ChainOf(call[t]),
           InStore' = InStore, Doomed' = Doomed, UNCHANGED <<refs, held, alive, imgs>>
    PROVE  Accounts'
<1>1. /\ refs' = refs /\ held' = held /\ alive' = alive /\ keyRefs' = keyRefs
      /\ imgRefs' = imgRefs /\ users' = users
  BY DEF imgs
<1>2. Counts' BY <1>1 DEF Accounts, Counts, RefsAreUsers
<1>3. Lives' BY <1>1 DEF Accounts, Lives, Held
<1>4. ItemKeys'
  <2>1. ASSUME NEW i \in Images PROVE Chained(i)' = Chained(i)
    <3>. DEFINE e == call'
    <3>1. e[t] = c /\ \A s \in Threads : s # t => e[s] = call[s] OBVIOUS
    <3>2. \A s \in Threads : ChainOf(e[s]) = ChainOf(call[s]) BY <3>1
    <3>3. Chained(i)' = [s \in Threads |-> Cardinality(KeyedIn(ChainOf(e[s]), i))]
      BY DEF Chained, KeyedIn, ChainOf
    <3>4. \A s \in Threads : Cardinality(KeyedIn(ChainOf(e[s]), i)) =
                              Cardinality(KeyedIn(ChainOf(call[s]), i))
      BY <3>2
    <3>. HIDE DEF e
    <3>. QED BY <3>3, <3>4 DEF Chained
  <2>. QED BY <1>1, <2>1 DEF Accounts, ItemKeys, KeyedIn
<1>5. ImageUses' BY <1>1 DEF Accounts, ImageUses, UsersOf
<1>. QED BY <1>2, <1>3, <1>4, <1>5 DEF Accounts

\* A thread takes a reference to a value it has none to.
LEMMA HolderTaken ==
    ASSUME held \in [Threads -> SUBSET Vals], NEW t \in Threads, NEW v \in Vals,
           v \notin held[t], held' = [held EXCEPT ![t] = @ \cup {v}]
    PROVE  /\ held' \in [Threads -> SUBSET Vals] /\ Held' = Held \cup {v}
           /\ Cardinality(Holders(v)') = Cardinality(Holders(v)) + 1
           /\ \A w \in Vals : w # v => Holders(w)' = Holders(w)
<1>. DEFINE h == held'
<1>1. /\ h \in [Threads -> SUBSET Vals] /\ h[t] = held[t] \cup {v}
      /\ \A s \in Threads : s # t => h[s] = held[s]
  OBVIOUS
<1>2. Held' = UNION {h[s] : s \in Threads} /\ \A w : Holders(w)' = {s \in Threads : w \in h[s]}
  BY DEF Held, Holders
<1>. HIDE DEF h
<1>3. Held' = Held \cup {v}
  <2>1. ASSUME NEW w, w \in Held' PROVE w \in Held \cup {v}
    <3>1. PICK s \in Threads : w \in h[s] BY <1>2, <2>1
    <3>. QED BY <1>1, <3>1 DEF Held
  <2>2. ASSUME NEW w, w \in Held PROVE w \in Held'
    <3>1. PICK s \in Threads : w \in held[s] BY <2>2 DEF Held
    <3>2. w \in h[s] BY <1>1, <3>1
    <3>. QED BY <1>2, <3>2
  <2>3. v \in Held' BY <1>1, <1>2
  <2>. QED BY <2>1, <2>2, <2>3
<1>4. Holders(v)' = Holders(v) \cup {t} BY <1>1, <1>2 DEF Holders
<1>5. t \notin Holders(v) BY DEF Holders
<1>6. Cardinality(Holders(v)') = Cardinality(Holders(v)) + 1
  BY <1>4, <1>5, HoldersFinite, FS_AddElement
<1>7. \A w \in Vals : w # v => Holders(w)' = Holders(w) BY <1>1, <1>2 DEF Holders
<1>8. h \in [Threads -> SUBSET Vals] BY <1>1
<1>. QED BY <1>3, <1>6, <1>7, <1>8 DEF h

LEMMA AccountsTaken ==
    ASSUME Accounts, NEW t \in Threads, NEW v \in InStore, v \notin held[t],
           held' = [held EXCEPT ![t] = @ \cup {v}],
           refs' = [refs EXCEPT ![v] = @ + 1],
           InStore' = InStore, Doomed' = Doomed, UNCHANGED <<call, alive, imgs>>
    PROVE  Accounts'
<1>1. alive' = alive /\ keyRefs' = keyRefs /\ imgRefs' = imgRefs /\ users' = users /\ call' = call
  BY DEF imgs
<1>2. v \in Vals /\ held \in [Threads -> SUBSET Vals] /\ refs \in [Vals -> Nat]
  BY DEF Accounts, Lives, Counts
<1>3. /\ held' \in [Threads -> SUBSET Vals] /\ Held' = Held \cup {v}
      /\ Cardinality(Holders(v)') = Cardinality(Holders(v)) + 1
      /\ \A w \in Vals : w # v => Holders(w)' = Holders(w)
  BY <1>2, HolderTaken
<1>4. Counts'
  <2>. DEFINE r == refs'
  <2>1. r \in [Vals -> Nat] /\ r[v] = refs[v] + 1 /\ \A w \in Vals : w # v => r[w] = refs[w]
    BY <1>2
  <2>2. ASSUME NEW w \in Vals
        PROVE  r[w] = Cardinality(Holders(w)') + (IF w \in InStore' THEN 1 ELSE 0)
    <3>1. refs[w] = Cardinality(Holders(w)) + (IF w \in InStore THEN 1 ELSE 0)
      BY DEF Accounts, Counts, RefsAreUsers, Holders
    <3>2. Cardinality(Holders(w)) \in Nat BY HoldersFinite
    <3>3. CASE w = v BY <1>3, <2>1, <3>1, <3>2, <3>3
    <3>4. CASE w # v BY <1>3, <2>1, <3>1, <3>2, <3>4
    <3>. QED BY <3>3, <3>4
  <2>3. RefsAreUsers' BY <2>2 DEF RefsAreUsers, Holders
  <2>. QED BY <1>3, <2>1, <2>3 DEF Counts
<1>5. Lives'
  <2>1. /\ InStore \subseteq Vals /\ alive = Held \cup InStore \cup Doomed
        /\ Doomed \cap (Held \cup InStore) = {}
    BY DEF Accounts, Lives
  <2>2. alive' = Held' \cup InStore' \cup Doomed' BY <1>1, <1>3, <2>1
  <2>3. Doomed' \cap (Held' \cup InStore') = {} BY <1>3, <2>1
  <2>4. InStore' \subseteq Vals BY <2>1
  <2>. QED BY <2>2, <2>3, <2>4 DEF Lives
<1>6. ItemKeys' BY <1>1 DEF Accounts, ItemKeys, KeyedIn, Chained, ChainOf
<1>7. ImageUses' BY <1>1 DEF Accounts, ImageUses, UsersOf
<1>. QED BY <1>4, <1>5, <1>6, <1>7 DEF Accounts

\* A new value is put into the store by the thread that made it.
LEMMA AccountsMade ==
    ASSUME Accounts, call \in [Threads -> Calls], NEW t \in Threads, NEW c \in Calls,
           call' = [call EXCEPT ![t] = c], ChainOf(c) = ChainOf(call[t]),
           NEW v \in Vals, v \notin alive,
           held' = [held EXCEPT ![t] = @ \cup {v}],
           refs' = [refs EXCEPT ![v] = 2], alive' = alive \cup {v},
           InStore' = InStore \cup {v}, Doomed' = Doomed,
           imgRefs' = [i \in Images |-> imgRefs[i] + (IF i = KeyOf[v] THEN 1 ELSE 0)],
           keyRefs' = [i \in Images |-> keyRefs[i] + (IF i = KeyOf[v] THEN 1 ELSE 0)],
           users' = users
    PROVE  Accounts'
<1>1. held \in [Threads -> SUBSET Vals] /\ refs \in [Vals -> Nat]
  BY DEF Accounts, Counts
<1>2. /\ InStore \subseteq Vals /\ alive = Held \cup InStore \cup Doomed
      /\ Doomed \cap (Held \cup InStore) = {}
  BY DEF Accounts, Lives
<1>3. v \notin held[t] /\ v \notin InStore /\ v \notin Doomed /\ Holders(v) = {}
  BY <1>2 DEF Held, Holders
<1>4. /\ held' \in [Threads -> SUBSET Vals] /\ Held' = Held \cup {v}
      /\ Cardinality(Holders(v)') = Cardinality(Holders(v)) + 1
      /\ \A w \in Vals : w # v => Holders(w)' = Holders(w)
  BY <1>1, <1>3, HolderTaken
<1>5. Counts'
  <2>. DEFINE r == refs'
  <2>1. r \in [Vals -> Nat] /\ r[v] = 2 /\ \A w \in Vals : w # v => r[w] = refs[w]
    BY <1>1
  <2>2. ASSUME NEW w \in Vals
        PROVE  r[w] = Cardinality(Holders(w)') + (IF w \in InStore' THEN 1 ELSE 0)
    <3>1. refs[w] = Cardinality(Holders(w)) + (IF w \in InStore THEN 1 ELSE 0)
      BY DEF Accounts, Counts, RefsAreUsers, Holders
    <3>2. Cardinality(Holders(w)) \in Nat BY HoldersFinite
    <3>3. CASE w = v
      <4>1. Cardinality(Holders(w)') = 1 BY <1>3, <1>4, <3>3, FS_EmptySet
      <4>. QED BY <2>1, <3>3, <4>1
    <3>4. CASE w # v BY <1>4, <2>1, <3>1, <3>2, <3>4
    <3>. QED BY <3>3, <3>4
  <2>3. RefsAreUsers' BY <2>2 DEF RefsAreUsers, Holders
  <2>. QED BY <1>4, <2>1, <2>3 DEF Counts
<1>6. Lives'
  <2>1. alive' = Held' \cup InStore' \cup Doomed' BY <1>2, <1>4
  <2>2. Doomed' \cap (Held' \cup InStore') = {} BY <1>2, <1>3, <1>4
  <2>3. InStore' \subseteq Vals BY <1>2
  <2>. QED BY <2>1, <2>2, <2>3 DEF Lives
<1>7. \A i : /\ Total(Chained(i)', Threads) = Total(Chained(i), Threads)
             /\ Total(Chained(i), Threads) \in Nat
  <2>. SUFFICES ASSUME NEW i
                PROVE  /\ Total(Chained(i)', Threads) = Total(Chained(i), Threads)
                       /\ Total(Chained(i), Threads) \in Nat
    OBVIOUS
  <2>. DEFINE a == Total(Chained(i)', Threads)  b == Total(Chained(i), Threads)
              n == Cardinality(KeyedIn(ChainOf(call[t]), i))
  <2>1. a + n = b + n /\ a \in Nat BY ChainUpdated
  <2>2. b \in Nat BY ChainedWeights
  <2>3. n \in Nat
    <3>1. IsFiniteSet(ChainOf(call[t])) BY ViewTypes
    <3>2. KeyedIn(ChainOf(call[t]), i) \subseteq ChainOf(call[t]) BY DEF KeyedIn
    <3>. QED BY <3>1, <3>2, FS_Subset, FS_CardinalityType
  <2>. HIDE DEF a, b, n
  <2>4. a = b BY <2>1, <2>2, <2>3
  <2>. QED BY <2>2, <2>4 DEF a, b
<1>8. IsFiniteSet(InStore) /\ keyRefs \in [Images -> Nat] BY DEF Accounts, ItemKeys
<1>9. IsFiniteSet(InStore') /\ keyRefs' \in [Images -> Nat]
  BY <1>8, FS_AddElement
<1>10. ItemKeys'
  <2>1. ASSUME NEW i \in Images
        PROVE  keyRefs'[i] = Cardinality(KeyedIn(InStore', i)) + Total(Chained(i)', Threads)
    <3>. DEFINE n == Total(Chained(i), Threads)
    <3>1. keyRefs[i] = Cardinality(KeyedIn(InStore, i)) + n
      BY DEF Accounts, ItemKeys
    <3>2. KeyedIn(InStore, i) \subseteq InStore BY DEF KeyedIn
    <3>3. IsFiniteSet(KeyedIn(InStore, i)) /\ Cardinality(KeyedIn(InStore, i)) \in Nat
      BY <1>8, <3>2, FS_Subset, FS_CardinalityType
    <3>4. n \in Nat /\ Total(Chained(i)', Threads) = n BY <1>7
    <3>. HIDE DEF n
    <3>5. CASE i = KeyOf[v]
      <4>1. KeyedIn(InStore', i) = KeyedIn(InStore, i) \cup {v} BY <3>5 DEF KeyedIn
      <4>2. v \notin KeyedIn(InStore, i) BY <1>3 DEF KeyedIn
      <4>3. Cardinality(KeyedIn(InStore', i)) = Cardinality(KeyedIn(InStore, i)) + 1
        BY <3>3, <4>1, <4>2, FS_AddElement
      <4>4. keyRefs'[i] = keyRefs[i] + 1 BY <3>5
      <4>. QED BY <3>1, <3>3, <3>4, <4>3, <4>4
    <3>6. CASE i # KeyOf[v]
      <4>1. KeyedIn(InStore', i) = KeyedIn(InStore, i) BY <3>6 DEF KeyedIn
      <4>2. keyRefs'[i] = keyRefs[i] BY <1>8, <3>6
      <4>. QED BY <3>1, <3>4, <4>1, <4>2
    <3>. QED BY <3>5, <3>6
  <2>. QED BY <1>9, <2>1 DEF ItemKeys, KeyedIn
<1>11. ImageUses'
  <2>1. users \in [Threads -> SUBSET Images] /\ imgRefs \in [Images -> Nat]
    BY DEF Accounts, ImageUses
  <2>2. imgRefs' \in [Images -> Nat] BY <2>1
  <2>3. ASSUME NEW i \in Images PROVE imgRefs'[i] = keyRefs'[i] + Cardinality(UsersOf(i))
    <3>1. imgRefs[i] = keyRefs[i] + Cardinality(UsersOf(i)) BY DEF Accounts, ImageUses
    <3>2. keyRefs[i] \in Nat /\ Cardinality(UsersOf(i)) \in Nat BY <1>8, HoldersFinite
    <3>3. CASE i = KeyOf[v]
      <4>1. imgRefs'[i] = imgRefs[i] + 1 /\ keyRefs'[i] = keyRefs[i] + 1 BY <3>3
      <4>. QED BY <3>1, <3>2, <4>1
    <3>4. CASE i # KeyOf[v]
      <4>1. imgRefs'[i] = imgRefs[i] /\ keyRefs'[i] = keyRefs[i] BY <1>8, <2>1, <3>4
      <4>. QED BY <3>1, <4>1
    <3>. QED BY <3>3, <3>4
  <2>4. \A i : UsersOf(i)' = UsersOf(i) BY DEF UsersOf
  <2>. QED BY <2>1, <2>2, <2>3, <2>4 DEF ImageUses
<1>. QED BY <1>5, <1>6, <1>10, <1>11 DEF Accounts

\* Values lose the store's reference; a thread discards them.
LEMMA AccountsRemoved ==
    ASSUME Counts, Lives, ItemKeys, call \in [Threads -> Calls], NEW t \in Threads,
           NEW c \in Calls, call' = [call EXCEPT ![t] = c], NEW R \in SUBSET InStore,
           ChainOf(call[t]) = {}, ChainOf(c) = R,
           InStore' = InStore \ R, refs' = Unref(R),
           Doomed' = Doomed \cup {v \in R : refs'[v] = 0},
           UNCHANGED <<held, alive, keyRefs>>
    PROVE  Counts' /\ Lives' /\ ItemKeys'
<1>. DEFINE r == refs'
<1>1. /\ held' = held /\ alive' = alive /\ keyRefs' = keyRefs
      /\ held \in [Threads -> SUBSET Vals] /\ refs \in [Vals -> Nat]
      /\ InStore \subseteq Vals /\ alive = Held \cup InStore \cup Doomed
      /\ Doomed \cap (Held \cup InStore) = {}
  BY DEF Counts, Lives
<1>2. \A v \in Vals : refs[v] = Cardinality(Holders(v)) + (IF v \in InStore THEN 1 ELSE 0)
  BY DEF Counts, RefsAreUsers, Holders
<1>3. \A v \in Vals : Cardinality(Holders(v)) \in Nat /\ IsFiniteSet(Holders(v)) BY HoldersFinite
<1>4. /\ r \in [Vals -> Nat]
      /\ \A v \in Vals : v \in R => r[v] = Cardinality(Holders(v))
      /\ \A v \in Vals : v \notin R => r[v] = refs[v]
  <2>1. r = [v \in Vals |-> IF v \in R /\ refs[v] > 0 THEN refs[v] - 1 ELSE refs[v]] BY DEF Unref
  <2>. HIDE DEF r
  <2>2. ASSUME NEW v \in Vals, v \in R PROVE r[v] = Cardinality(Holders(v))
    <3>1. refs[v] = Cardinality(Holders(v)) + 1 BY <1>2, <2>2
    <3>2. refs[v] > 0 /\ refs[v] - 1 = Cardinality(Holders(v)) BY <1>3, <3>1
    <3>. QED BY <2>1, <2>2, <3>2
  <2>3. ASSUME NEW v \in Vals, v \notin R PROVE r[v] = refs[v] BY <2>1, <2>3
  <2>4. ASSUME NEW v \in Vals PROVE r[v] \in Nat BY <1>1, <1>3, <2>2, <2>3
  <2>5. r \in [Vals -> Nat] BY <2>1, <2>4
  <2>. QED BY <2>2, <2>3, <2>5
<1>5. \A v : Holders(v)' = Holders(v) BY <1>1 DEF Holders
<1>6. Counts'
  <2>. HIDE DEF r
  <2>1. ASSUME NEW v \in Vals
        PROVE  r[v] = Cardinality(Holders(v)) + (IF v \in InStore' THEN 1 ELSE 0)
    <3>1. CASE v \in R BY <1>3, <1>4, <3>1
    <3>2. CASE v \notin R BY <1>2, <1>4, <3>2
    <3>. QED BY <3>1, <3>2
  <2>2. RefsAreUsers' BY <1>5, <2>1 DEF RefsAreUsers, Holders, r
  <2>. QED BY <1>1, <1>4, <2>2 DEF Counts, r
<1>7. \A v \in R : r[v] = 0 <=> v \notin Held
  <2>. SUFFICES ASSUME NEW v \in R PROVE r[v] = 0 <=> v \notin Held OBVIOUS
  <2>1. v \in Vals /\ r[v] = Cardinality(Holders(v)) BY <1>1, <1>4
  <2>2. r[v] = 0 <=> Holders(v) = {} BY <1>3, <2>1, NobodyCounts
  <2>3. Holders(v) = {} <=> v \notin Held BY DEF Holders, Held
  <2>. QED BY <2>2, <2>3
<1>8. Lives'
  <2>. DEFINE dead == {v \in R : r[v] = 0}
  <2>1. \A v : v \in dead <=> v \in R /\ v \notin Held BY <1>7
  <2>2. Doomed' = Doomed \cup dead OBVIOUS
  <2>3. Held' = Held BY <1>1 DEF Held
  <2>. HIDE DEF dead
  <2>4. alive' = Held' \cup InStore' \cup Doomed' BY <1>1, <2>1, <2>2, <2>3
  <2>5. Doomed' \cap (Held' \cup InStore') = {} BY <1>1, <2>1, <2>2, <2>3
  <2>6. InStore' \subseteq Vals BY <1>1
  <2>. QED BY <2>4, <2>5, <2>6 DEF Lives
<1>9. ItemKeys'
  <2>1. IsFiniteSet(InStore) /\ keyRefs \in [Images -> Nat] BY DEF ItemKeys
  <2>2. IsFiniteSet(InStore') BY <2>1, FS_Subset
  <2>3. ASSUME NEW i \in Images
        PROVE  keyRefs[i] = Cardinality(KeyedIn(InStore', i)) + Total(Chained(i)', Threads)
    <3>. DEFINE S == KeyedIn(InStore, i)  Q == KeyedIn(R, i)
                a == Total(Chained(i), Threads)  b == Total(Chained(i)', Threads)
                n == Cardinality(S)  q == Cardinality(Q)
                m == Cardinality(KeyedIn(InStore', i))
    <3>1. keyRefs[i] = n + a BY DEF ItemKeys
    <3>2. IsFiniteSet(S) /\ IsFiniteSet(Q) /\ Q \subseteq S
      <4>1. S \subseteq InStore /\ Q \subseteq S BY DEF KeyedIn
      <4>. QED BY <2>1, <4>1, FS_Subset
    <3>3. KeyedIn(InStore', i) = S \ Q BY DEF KeyedIn
    <3>4. m = n - q /\ n \in Nat /\ q \in Nat
      <4>1. S \cap Q = Q BY <3>2
      <4>2. Cardinality(S \ Q) = Cardinality(S) - Cardinality(S \cap Q) BY <3>2, FS_Difference
      <4>3. n \in Nat /\ q \in Nat BY <3>2, FS_CardinalityType
      <4>. QED BY <3>3, <4>1, <4>2, <4>3
    <3>5. KeyedIn(ChainOf(call[t]), i) = {} /\ Cardinality(KeyedIn(ChainOf(call[t]), i)) = 0
      <4>1. KeyedIn(ChainOf(call[t]), i) = {} BY DEF KeyedIn
      <4>. QED BY <4>1, FS_EmptySet
    <3>6. b + Cardinality(KeyedIn(ChainOf(call[t]), i)) = a + q /\ b \in Nat
      BY ChainUpdated
    <3>7. a \in Nat BY ChainedWeights
    <3>. HIDE DEF S, Q, a, b, n, q, m
    <3>8. b = a + q BY <3>5, <3>6, <3>7, <3>4
    <3>9. keyRefs[i] = m + b BY <3>1, <3>4, <3>7, <3>8
    <3>. QED BY <3>9 DEF m, b
  <2>. QED BY <1>1, <2>1, <2>2, <2>3 DEF ItemKeys, KeyedIn
<1>. QED BY <1>6, <1>8, <1>9

LEMMA ImageUsesKept ==
    ASSUME ImageUses, UNCHANGED imgs
    PROVE  ImageUses'
BY DEF ImageUses, imgs, UsersOf

\* A thread discards the first item of its chain.
LEMMA AccountsDiscarded ==
    ASSUME Accounts, call \in [Threads -> Calls], NEW t \in Threads,
           NEW c \in Calls, call' = [call EXCEPT ![t] = c],
           NEW v \in ChainOf(call[t]), ChainOf(c) = ChainOf(call[t]) \ {v},
           InStore' = InStore, Doomed' = Doomed \ ({v} \cap DoomedOf(call[t])),
           DoomedOf(call[t]) \subseteq Doomed,
           alive' = alive \ ({v} \cap DoomedOf(call[t])),
           imgRefs' = [i \in Images |-> imgRefs[i] - (IF i = KeyOf[v] THEN 1 ELSE 0)],
           keyRefs' = [i \in Images |-> keyRefs[i] - (IF i = KeyOf[v] THEN 1 ELSE 0)],
           UNCHANGED <<users, refs, held>>
    PROVE  Accounts'
<1>1. users' = users /\ refs' = refs /\ held' = held OBVIOUS
<1>2. Counts' BY <1>1 DEF Accounts, Counts, RefsAreUsers
<1>3. Lives'
  <2>1. /\ InStore \subseteq Vals /\ alive = Held \cup InStore \cup Doomed
        /\ Doomed \cap (Held \cup InStore) = {}
    BY DEF Accounts, Lives
  <2>2. Held' = Held BY <1>1 DEF Held
  <2>3. alive' = Held' \cup InStore' \cup Doomed' BY <2>1, <2>2
  <2>4. Doomed' \cap (Held' \cup InStore') = {} BY <2>1, <2>2
  <2>. QED BY <2>1, <2>3, <2>4 DEF Lives
<1>4. IsFiniteSet(InStore) /\ keyRefs \in [Images -> Nat] BY DEF Accounts, ItemKeys
<1>5. ASSUME NEW i \in Images
      PROVE  /\ keyRefs'[i] = Cardinality(KeyedIn(InStore, i)) + Total(Chained(i)', Threads)
             /\ keyRefs'[i] \in Nat
             /\ keyRefs[i] - keyRefs'[i] = IF i = KeyOf[v] THEN 1 ELSE 0
  <2>. DEFINE S == KeyedIn(ChainOf(call[t]), i)  Q == KeyedIn(ChainOf(c), i)
              a == Total(Chained(i), Threads)  b == Total(Chained(i)', Threads)
              n == Cardinality(S)  q == Cardinality(Q)
              m == Cardinality(KeyedIn(InStore, i))  k == keyRefs[i]
  <2>1. k = m + a BY DEF Accounts, ItemKeys
  <2>2. b + n = a + q /\ b \in Nat BY ChainUpdated
  <2>3. a \in Nat BY ChainedWeights
  <2>4. m \in Nat
    <3>1. KeyedIn(InStore, i) \subseteq InStore BY DEF KeyedIn
    <3>. QED BY <1>4, <3>1, FS_Subset, FS_CardinalityType
  <2>5. IsFiniteSet(S) /\ n \in Nat
    <3>1. IsFiniteSet(ChainOf(call[t])) BY ViewTypes
    <3>2. S \subseteq ChainOf(call[t]) BY DEF KeyedIn
    <3>. QED BY <3>1, <3>2, FS_Subset, FS_CardinalityType
  <2>6. CASE i = KeyOf[v]
    <3>1. v \in S /\ Q = S \ {v} BY <2>6 DEF KeyedIn
    <3>2. q = n - 1
      <4>. HIDE DEF S, Q
      <4>. QED BY <2>5, <3>1, FS_RemoveElement
    <3>3. keyRefs'[i] = k - 1 BY <2>6
    <3>. HIDE DEF S, Q, a, b, n, q, m, k
    <3>4. k - 1 = m + b BY <2>1, <2>2, <2>3, <2>4, <2>5, <3>2
    <3>5. k - 1 \in Nat /\ k - (k - 1) = 1
      <4>1. k \in Int BY <2>1, <2>3, <2>4
      <4>. QED BY <2>2, <2>4, <3>4, <4>1
    <3>6. keyRefs'[i] = m + b /\ keyRefs'[i] \in Nat /\ k - keyRefs'[i] = 1
      BY <3>3, <3>4, <3>5
    <3>. QED BY <2>6, <3>6 DEF m, b, k
  <2>7. CASE i # KeyOf[v]
    <3>1. Q = S BY <2>7 DEF KeyedIn
    <3>2. keyRefs'[i] = k /\ k \in Nat BY <1>4, <2>7
    <3>. HIDE DEF S, Q, a, b, m, k
    <3>3. q = n BY <3>1
    <3>. HIDE DEF n, q
    <3>4. k = m + b /\ k - k = 0 BY <2>1, <2>2, <2>3, <2>4, <2>5, <3>2, <3>3
    <3>5. keyRefs'[i] = m + b /\ keyRefs'[i] \in Nat /\ k - keyRefs'[i] = 0 BY <3>2, <3>4
    <3>. QED BY <2>7, <3>5 DEF m, b, k
  <2>. QED BY <2>6, <2>7
<1>6. ItemKeys'
  <2>1. keyRefs' \in [Images -> Nat] BY <1>5
  <2>. QED BY <1>4, <1>5, <2>1 DEF ItemKeys, KeyedIn
<1>7. ImageUses'
  <2>1. users \in [Threads -> SUBSET Images] /\ imgRefs \in [Images -> Nat]
    BY DEF Accounts, ImageUses
  <2>2. ASSUME NEW i \in Images
        PROVE  imgRefs'[i] = keyRefs'[i] + Cardinality(UsersOf(i)) /\ imgRefs'[i] \in Nat
    <3>1. imgRefs[i] = keyRefs[i] + Cardinality(UsersOf(i)) BY DEF Accounts, ImageUses
    <3>2. keyRefs[i] \in Nat /\ Cardinality(UsersOf(i)) \in Nat BY <1>4, HoldersFinite
    <3>3. keyRefs'[i] \in Nat /\ keyRefs[i] - keyRefs'[i] = IF i = KeyOf[v] THEN 1 ELSE 0
      BY <1>5
    <3>4. imgRefs'[i] = imgRefs[i] - (IF i = KeyOf[v] THEN 1 ELSE 0) OBVIOUS
    <3>. QED BY <3>1, <3>2, <3>3, <3>4
  <2>3. imgRefs' \in [Images -> Nat] BY <2>2
  <2>4. \A i : UsersOf(i)' = UsersOf(i) BY <1>1 DEF UsersOf
  <2>. QED BY <1>1, <2>1, <2>2, <2>3, <2>4 DEF ImageUses
<1>. QED BY <1>2, <1>3, <1>6, <1>7 DEF Accounts

\* A thread gives up its reference to a value.
LEMMA AccountsReleased ==
    ASSUME Accounts, call \in [Threads -> Calls], NEW t \in Threads, NEW c \in Calls,
           call' = [call EXCEPT ![t] = c], ChainOf(c) = ChainOf(call[t]),
           NEW v \in held[t],
           held' = [held EXCEPT ![t] = @ \ {v}], refs' = [refs EXCEPT ![v] = @ - 1],
           alive' = IF refs'[v] = 0 THEN alive \ {v} ELSE alive,
           InStore' = InStore, Doomed' = Doomed, UNCHANGED imgs
    PROVE  Accounts' /\ refs[v] > 0
<1>. DEFINE r == refs'  h == held'
<1>1. /\ held \in [Threads -> SUBSET Vals] /\ refs \in [Vals -> Nat] /\ v \in Vals
      /\ InStore \subseteq Vals /\ alive = Held \cup InStore \cup Doomed
      /\ Doomed \cap (Held \cup InStore) = {}
  BY DEF Accounts, Counts, Lives
<1>2. /\ h \in [Threads -> SUBSET Vals] /\ h[t] = held[t] \ {v}
      /\ \A s \in Threads : s # t => h[s] = held[s]
  BY <1>1
<1>3. Held' = UNION {h[s] : s \in Threads} /\ \A w : Holders(w)' = {s \in Threads : w \in h[s]}
  BY DEF Held, Holders
<1>4. \A w \in Vals : refs[w] = Cardinality(Holders(w)) + (IF w \in InStore THEN 1 ELSE 0)
  BY DEF Accounts, Counts, RefsAreUsers, Holders
<1>5. \A w : /\ Cardinality(Holders(w)) \in Nat /\ IsFiniteSet(Holders(w))
  BY HoldersFinite
<1>6. t \in Holders(v) BY DEF Holders
<1>7. /\ \A s, w : s \in Holders(w)' <=> s \in Holders(w) /\ (s # t \/ w # v)
      /\ \A w \in Vals : w # v => Holders(w)' = Holders(w)
      /\ Holders(v)' = Holders(v) \ {t}
  <2>1. \A s, w : s \in Holders(w)' <=> s \in Threads /\ w \in h[s] BY <1>3
  <2>. HIDE DEF h
  <2>2. \A s, w : s \in Holders(w)' <=> s \in Holders(w) /\ (s # t \/ w # v)
    BY <1>2, <2>1 DEF Holders
  <2>3. ASSUME NEW w \in Vals, w # v PROVE Holders(w)' = Holders(w)
    <3>1. \A s : s \in Holders(w)' <=> s \in Holders(w) BY <2>2, <2>3
    <3>. QED BY <3>1
  <2>4. Holders(v)' = Holders(v) \ {t}
    <3>1. \A s : s \in Holders(v)' <=> s \in Holders(v) /\ s # t BY <2>2
    <3>. QED BY <3>1
  <2>. QED BY <2>2, <2>3, <2>4
<1>8. /\ IsFiniteSet(Holders(v)') /\ Cardinality(Holders(v)') \in Nat
      /\ Cardinality(Holders(v)') = Cardinality(Holders(v)) - 1
  BY <1>5, <1>6, <1>7, FS_RemoveElement, FS_CardinalityType
<1>9. /\ r \in [Vals -> Nat] /\ refs[v] > 0
      /\ r[v] = Cardinality(Holders(v)') + (IF v \in InStore THEN 1 ELSE 0)
      /\ \A w \in Vals : w # v => r[w] = refs[w]
  <2>1. r[v] = refs[v] - 1 /\ \A w \in Vals : w # v => r[w] = refs[w] BY <1>1
  <2>2. refs[v] = Cardinality(Holders(v)) + (IF v \in InStore THEN 1 ELSE 0) BY <1>1, <1>4
  <2>3. DOMAIN r = Vals /\ r = [refs EXCEPT ![v] = refs[v] - 1] BY <1>1
  <2>. HIDE DEF r
  <2>4. r[v] = Cardinality(Holders(v)') + (IF v \in InStore THEN 1 ELSE 0) /\ refs[v] > 0
    BY <1>5, <1>8, <2>1, <2>2
  <2>5. r[v] \in Nat BY <1>8, <2>4
  <2>6. r \in [Vals -> Nat] BY <1>1, <2>3, <2>5
  <2>. QED BY <2>1, <2>4, <2>6
<1>10. Counts'
  <2>. HIDE DEF r
  <2>1. ASSUME NEW w \in Vals
        PROVE  r[w] = Cardinality(Holders(w)') + (IF w \in InStore' THEN 1 ELSE 0)
    <3>1. CASE w = v BY <1>9, <3>1
    <3>2. CASE w # v BY <1>4, <1>7, <1>9, <3>2
    <3>. QED BY <3>1, <3>2
  <2>2. RefsAreUsers' BY <2>1 DEF RefsAreUsers, Holders, r
  <2>. QED BY <1>2, <1>9, <2>2 DEF Counts, r
<1>11. Lives'
  <2>1. \A w : w \in Held' <=> Holders(w)' # {} BY <1>3
  <2>2. \A w : w \in Held <=> Holders(w) # {} BY DEF Held, Holders
  <2>3. \A w : w # v => (w \in Held' <=> w \in Held) BY <1>7, <2>1, <2>2
  <2>4. v \in Held BY DEF Held
  <2>5. r[v] = 0 <=> v \notin Held' /\ v \notin InStore
    <3>. DEFINE H == Holders(v)'
    <3>1. Cardinality(H) = 0 <=> H = {} BY <1>8, NobodyCounts
    <3>2. v \in Held' <=> H # {} BY <2>1
    <3>3. r[v] = Cardinality(H) + (IF v \in InStore THEN 1 ELSE 0) /\ Cardinality(H) \in Nat
      BY <1>8, <1>9
    <3>. HIDE DEF H, r
    <3>4. CASE v \in InStore BY <3>3, <3>4
    <3>5. CASE v \notin InStore BY <3>1, <3>2, <3>3, <3>5
    <3>. QED BY <3>4, <3>5
  <2>6. alive' = Held' \cup InStore' \cup Doomed'
    <3>1. CASE r[v] = 0
      <4>1. alive' = alive \ {v} BY <3>1
      <4>. QED BY <1>1, <2>3, <2>4, <2>5, <3>1, <4>1
    <3>2. CASE r[v] # 0
      <4>1. alive' = alive BY <3>2
      <4>. QED BY <1>1, <2>3, <2>4, <2>5, <3>2, <4>1
    <3>. QED BY <3>1, <3>2
  <2>7. Doomed' \cap (Held' \cup InStore') = {} BY <1>1, <2>3, <2>4
  <2>. QED BY <1>1, <2>6, <2>7 DEF Lives
<1>12. ItemKeys'
  <2>1. ASSUME NEW i \in Images PROVE Chained(i)' = Chained(i)
    <3>. DEFINE e == call'
    <3>1. e[t] = c /\ \A s \in Threads : s # t => e[s] = call[s] OBVIOUS
    <3>2. \A s \in Threads : ChainOf(e[s]) = ChainOf(call[s]) BY <3>1
    <3>3. Chained(i)' = [s \in Threads |-> Cardinality(KeyedIn(ChainOf(e[s]), i))]
      BY DEF Chained, KeyedIn, ChainOf
    <3>4. \A s \in Threads : Cardinality(KeyedIn(ChainOf(e[s]), i)) =
                              Cardinality(KeyedIn(ChainOf(call[s]), i))
      BY <3>2
    <3>. HIDE DEF e
    <3>. QED BY <3>3, <3>4 DEF Chained
  <2>2. keyRefs' = keyRefs BY DEF imgs
  <2>. QED BY <2>1, <2>2 DEF Accounts, ItemKeys, KeyedIn
<1>13. ImageUses' BY ImageUsesKept DEF Accounts
<1>. QED BY <1>9, <1>10, <1>11, <1>12, <1>13 DEF Accounts

-----------------------------------------------------------------------------
(* List, hash table and total.                                             *)

\* What can be found.
Known == Range(list) \cup Inserting

ListInv == list \in Lists /\ Leaving \cap Known = {}

HashInv ==
    /\ DOMAIN hash \subseteq Hashed /\ hash \in [DOMAIN hash -> Vals]
    /\ \A k \in DOMAIN hash : KeyOf[hash[k]] = k /\ hash[k] \in Known
    /\ \A v \in Known : KeyOf[v] \in Hashed => KeyOf[v] \in DOMAIN hash /\ hash[KeyOf[v]] = v

SizeInv == lost \in Nat /\ size = SizeOf(Range(list) \ Inserting) + lost

Books == ListInv /\ HashInv /\ SizeInv

LEMMA SizesSum ==
    ASSUME NEW V \in SUBSET Vals, IsFiniteSet(V)
    PROVE  /\ SizeOf(V) \in Nat
           /\ \A v \in Vals : v \notin V => SizeOf(V \cup {v}) = SizeOf(V) + Size[v]
           /\ \A R \in SUBSET V : SizeOf(V \ R) = SizeOf(V) - SizeOf(R) /\ SizeOf(R) \in Nat
<1>1. \A S \in SUBSET Vals : Weights(Size, S) /\ SizeOf(S) = Total(Size, S)
  BY ValsAssumption DEF Weights, SizeOf, Total
<1>2. SizeOf(V) \in Nat BY <1>1, TotalType
<1>3. ASSUME NEW v \in Vals, v \notin V PROVE SizeOf(V \cup {v}) = SizeOf(V) + Size[v]
  <2>1. Weights(Size, V \cup {v}) /\ SizeOf(V \cup {v}) = Total(Size, V \cup {v}) BY <1>1
  <2>2. Total(Size, V \cup {v}) = Size[v] + Total(Size, V) BY <1>3, <2>1, TotalAdd
  <2>3. Size[v] \in Nat BY ValsAssumption
  <2>. QED BY <1>1, <1>2, <2>1, <2>2, <2>3
<1>4. ASSUME NEW R \in SUBSET V
      PROVE  SizeOf(V \ R) = SizeOf(V) - SizeOf(R) /\ SizeOf(R) \in Nat
  <2>1. /\ Total(Size, V \ R) = Total(Size, V) - Total(Size, R)
        /\ Total(Size, R) \in Nat
    BY <1>1, TotalMinus
  <2>. QED BY <1>1, <2>1
<1>. QED BY <1>2, <1>3, <1>4

LEMMA BooksTypes ==
    ASSUME Books, CallsInv
    PROVE  /\ list \in Seq(Vals) /\ Distinct(list)
           /\ Range(list) \subseteq Vals /\ IsFiniteSet(Range(list))
           /\ Inserting \subseteq Vals /\ Leaving \subseteq Vals /\ InStore \subseteq Vals
           /\ InStore = Known \cup Leaving
           /\ size \in Nat
<1>1. list \in Seq(Vals) /\ Distinct(list) BY DEF Books, ListInv, Lists
<1>2. Range(list) \subseteq Vals /\ IsFiniteSet(Range(list)) BY <1>1, RangeIn
<1>3. \A t \in Threads : ItemOf(call[t]) \subseteq Vals /\ LeavingOf(call[t]) \subseteq Vals
  BY ViewTypes DEF CallsInv
<1>4. Inserting \subseteq Vals /\ Leaving \subseteq Vals BY <1>3 DEF Inserting, Leaving
<1>5. InStore = Known \cup Leaving BY DEF InStore, Known
<1>6. InStore \subseteq Vals BY <1>2, <1>4, <1>5 DEF Known
<1>7. size \in Nat
  <2>. DEFINE V == Range(list) \ Inserting
  <2>1. V \in SUBSET Vals /\ IsFiniteSet(V) BY <1>2, FS_Subset
  <2>2. SizeOf(V) \in Nat BY <2>1, SizesSum
  <2>3. lost \in Nat /\ size = SizeOf(V) + lost BY DEF Books, SizeInv
  <2>. QED BY <2>2, <2>3
<1>. QED BY <1>1, <1>2, <1>4, <1>5, <1>6, <1>7

LEMMA BooksKept ==
    ASSUME Books, list' = list, hash' = hash, size' = size, lost' = lost,
           Inserting' = Inserting, Leaving' \subseteq Leaving
    PROVE  Books'
<1>1. Known' = Known BY DEF Known
<1>2. ListInv' BY <1>1 DEF Books, ListInv
<1>3. HashInv' BY <1>1 DEF Books, HashInv
<1>4. SizeInv' BY DEF Books, SizeInv, SizeOf
<1>. QED BY <1>2, <1>3, <1>4 DEF Books

\* An entry comes to the front of a list.
LEMMA ToFront ==
    ASSUME NEW l \in Lists, NEW v \in Vals
    PROVE  <<v>> \o Without(l, {v}) \in Lists /\ Range(<<v>> \o Without(l, {v})) = Range(l) \cup {v}
<1>. DEFINE r == Without(l, {v})
<1>1. r \in Seq(Vals) /\ Range(r) = Range(l) \ {v} BY WithoutType DEF Lists
<1>2. Distinct(r) BY WithoutDistinct DEF Lists
<1>. HIDE DEF r
<1>3. v \notin Range(r) BY <1>1
<1>4. <<v>> \o r \in Seq(Vals) /\ Distinct(<<v>> \o r) /\ Range(<<v>> \o r) = {v} \cup Range(r)
  BY <1>1, <1>2, <1>3, FrontAdded
<1>5. <<v>> \o r \in Lists BY <1>4 DEF Lists
<1>6. Range(<<v>> \o r) = Range(l) \cup {v} BY <1>1, <1>4
<1>. QED BY <1>5, <1>6 DEF r

LEMMA BooksTouched ==
    ASSUME Books, CallsInv, NEW v \in Known, Touch(v), UNCHANGED <<call, hash, size, lost>>
    PROVE  Books' /\ InStore' = InStore
<1>1. list \in Lists /\ v \in Vals BY BooksTypes DEF Books, ListInv, Known
<1>2. list' \in Lists /\ Range(list') = Range(list) \cup {v} BY <1>1, ToFront DEF Touch
<1>3. Inserting' = Inserting /\ Leaving' = Leaving
  BY DEF Inserting, Leaving, ItemOf, LeavingOf, Resumed
<1>4. Known' = Known BY <1>2, <1>3 DEF Known
<1>5. Range(list') \ Inserting' = Range(list) \ Inserting BY <1>2, <1>3 DEF Known
<1>6. ListInv' BY <1>2, <1>3, <1>4 DEF Books, ListInv
<1>7. HashInv' BY <1>4 DEF Books, HashInv
<1>8. SizeInv' BY <1>5 DEF Books, SizeInv, SizeOf
<1>9. InStore' = InStore BY <1>3, <1>4, BooksTypes DEF InStore, Known
<1>. QED BY <1>6, <1>7, <1>8, <1>9 DEF Books

LEMMA BooksInserted ==
    ASSUME Books, CallsInv, NEW v \in Vals, v \notin InStore, KeyOf[v] \notin DOMAIN hash,
           hash' = [h \in DOMAIN hash \cup ({KeyOf[v]} \cap Hashed) |->
                       IF h = KeyOf[v] THEN v ELSE hash[h]],
           Inserting' = Inserting \cup {v}, Leaving' = Leaving,
           UNCHANGED <<list, size, lost>>
    PROVE  Books' /\ InStore' = InStore \cup {v}
<1>1. list' = list /\ size' = size /\ lost' = lost OBVIOUS
<1>2. InStore = Known \cup Leaving BY BooksTypes
<1>3. Known' = Known \cup {v} BY <1>1 DEF Known
<1>4. ListInv' BY <1>1, <1>2, <1>3 DEF Books, ListInv
<1>5. HashInv'
  <2>. DEFINE g == hash'  k == KeyOf[v]
  <2>1. /\ DOMAIN hash \subseteq Hashed /\ hash \in [DOMAIN hash -> Vals]
        /\ \A h \in DOMAIN hash : KeyOf[hash[h]] = h /\ hash[h] \in Known
        /\ \A w \in Known : KeyOf[w] \in Hashed => KeyOf[w] \in DOMAIN hash /\ hash[KeyOf[w]] = w
    BY DEF Books, HashInv
  <2>2. /\ DOMAIN g = DOMAIN hash \cup ({k} \cap Hashed)
        /\ k \in Hashed => g[k] = v
        /\ \A h \in DOMAIN hash : g[h] = hash[h]
    OBVIOUS
  <2>3. g \in [DOMAIN g -> Vals] BY <2>1
  <2>. HIDE DEF g
  <2>4. ASSUME NEW h \in DOMAIN g PROVE KeyOf[g[h]] = h /\ g[h] \in Known'
    BY <1>3, <2>1, <2>2
  <2>5. ASSUME NEW w \in Known', KeyOf[w] \in Hashed
        PROVE  KeyOf[w] \in DOMAIN g /\ g[KeyOf[w]] = w
    BY <1>3, <2>1, <2>2, <2>5
  <2>6. DOMAIN g \subseteq Hashed BY <2>1, <2>2
  <2>. QED BY <2>3, <2>4, <2>5, <2>6 DEF HashInv, g
<1>6. SizeInv'
  <2>1. v \notin Range(list) BY <1>2 DEF Known
  <2>2. Range(list') \ Inserting' = Range(list) \ Inserting BY <1>1, <2>1
  <2>. QED BY <1>1, <2>2 DEF Books, SizeInv, SizeOf
<1>7. InStore' = InStore \cup {v} BY <1>1 DEF InStore
<1>. QED BY <1>4, <1>5, <1>6, <1>7 DEF Books

LEMMA BooksLinked ==
    ASSUME Books, CallsInv, NEW v \in Inserting, Touch(v), size' = size + Size[v],
           Inserting' = Inserting \ {v}, Leaving' = Leaving, UNCHANGED <<hash, lost>>
    PROVE  Books' /\ InStore' = InStore
<1>1. list \in Lists /\ v \in Vals BY BooksTypes DEF Books, ListInv
<1>2. list' \in Lists /\ Range(list') = Range(list) \cup {v} BY <1>1, ToFront DEF Touch
<1>3. Known' = Known BY <1>2 DEF Known
<1>4. ListInv' BY <1>2, <1>3 DEF Books, ListInv
<1>5. HashInv' BY <1>3 DEF Books, HashInv
<1>6. SizeInv'
  <2>. DEFINE V == Range(list) \ Inserting
  <2>1. V \in SUBSET Vals /\ IsFiniteSet(V) /\ v \notin V BY BooksTypes, FS_Subset
  <2>2. Range(list') \ Inserting' = V \cup {v} BY <1>2
  <2>3. size = SizeOf(V) + lost /\ lost \in Nat BY DEF Books, SizeInv
  <2>. HIDE DEF V
  <2>4. SizeOf(V \cup {v}) = SizeOf(V) + Size[v] /\ SizeOf(V) \in Nat BY <1>1, <2>1, SizesSum
  <2>5. Size[v] \in Nat BY <1>1, ValsAssumption
  <2>6. size' = SizeOf(V \cup {v}) + lost BY <2>3, <2>4, <2>5
  <2>7. size' = SizeOf(Range(list') \ Inserting') + lost' BY <2>2, <2>6
  <2>8. lost' \in Nat BY <2>3
  <2>. QED BY <2>7, <2>8 DEF SizeInv, SizeOf
<1>7. InStore' = InStore BY <1>3 DEF InStore, Known
<1>. QED BY <1>4, <1>5, <1>6, <1>7 DEF Books

\* Listed items leave list and hash table together.
LEMMA BooksRemoved ==
    ASSUME Books, CallsInv, NEW R \in SUBSET Range(list), R \cap Inserting = {},
           list' = Without(list, R), hash' = Unhashed(R),
           \/ size' = size - SizeOf(R) /\ lost' = lost
           \/ size' = size /\ lost' = lost + SizeOf(R),
           Inserting' = Inserting, Leaving' \subseteq Leaving \cup R
    PROVE  /\ Books' /\ Known' = Known \ R /\ R \cap Leaving = {}
           /\ R \subseteq InStore
<1>1. list \in Lists /\ list \in Seq(Vals) /\ Range(list) \subseteq Vals BY BooksTypes DEF Books, ListInv
<1>2. list' \in Seq(Vals) /\ Range(list') = Range(list) \ R BY <1>1, WithoutType
<1>3. Distinct(list') BY <1>1, WithoutDistinct DEF Lists
<1>4. Known' = Known \ R BY <1>2 DEF Known
<1>5. R \cap Leaving = {} /\ R \subseteq Known /\ Leaving \cap Known = {}
  BY DEF Books, ListInv, Known
<1>6. ListInv' BY <1>2, <1>3, <1>4, <1>5 DEF ListInv, Lists
<1>7. HashInv'
  <2>. DEFINE g == hash'
  <2>1. /\ DOMAIN hash \subseteq Hashed /\ hash \in [DOMAIN hash -> Vals]
        /\ \A h \in DOMAIN hash : KeyOf[hash[h]] = h /\ hash[h] \in Known
        /\ \A w \in Known : KeyOf[w] \in Hashed => KeyOf[w] \in DOMAIN hash /\ hash[KeyOf[w]] = w
    BY DEF Books, HashInv
  <2>2. g = [k \in {h \in DOMAIN hash : hash[h] \notin R} |-> hash[k]] BY DEF Unhashed
  <2>3. /\ DOMAIN g = {h \in DOMAIN hash : hash[h] \notin R}
        /\ \A h \in DOMAIN g : g[h] = hash[h]
    BY <2>2
  <2>4. g \in [DOMAIN g -> Vals] BY <2>1, <2>2
  <2>. HIDE DEF g
  <2>5. ASSUME NEW h \in DOMAIN g PROVE KeyOf[g[h]] = h /\ g[h] \in Known'
    BY <1>4, <2>1, <2>3
  <2>6. ASSUME NEW w \in Known', KeyOf[w] \in Hashed
        PROVE  KeyOf[w] \in DOMAIN g /\ g[KeyOf[w]] = w
    BY <1>4, <2>1, <2>3, <2>6
  <2>7. DOMAIN g \subseteq Hashed BY <2>1, <2>3
  <2>. QED BY <2>4, <2>5, <2>6, <2>7 DEF HashInv, g
<1>8. SizeInv'
  <2>. DEFINE V == Range(list) \ Inserting
  <2>1. V \in SUBSET Vals /\ IsFiniteSet(V) /\ R \in SUBSET V BY BooksTypes, FS_Subset
  <2>2. Range(list') \ Inserting' = V \ R BY <1>2
  <2>3. size = SizeOf(V) + lost /\ lost \in Nat BY DEF Books, SizeInv
  <2>. HIDE DEF V
  <2>4. SizeOf(V \ R) = SizeOf(V) - SizeOf(R) /\ SizeOf(R) \in Nat /\ SizeOf(V) \in Nat
    BY <2>1, SizesSum
  <2>. DEFINE a == SizeOf(V)  b == SizeOf(R)  c == SizeOf(V \ R)
  <2>5. lost' \in Nat /\ size' = c + lost'
    <3>1. c = a - b /\ a \in Nat /\ b \in Nat /\ size = a + lost /\ lost \in Nat BY <2>3, <2>4
    <3>2. \/ size' = size - b /\ lost' = lost
          \/ size' = size /\ lost' = lost + b
      OBVIOUS
    <3>. HIDE DEF a, b, c
    <3>. QED BY <3>1, <3>2
  <2>. HIDE DEF a, b
  <2>6. c = SizeOf(Range(list') \ Inserting') BY <2>2
  <2>. HIDE DEF c
  <2>. QED BY <2>5, <2>6 DEF SizeInv, SizeOf
<1>9. R \subseteq InStore BY DEF InStore
<1>. QED BY <1>4, <1>5, <1>6, <1>7, <1>8, <1>9 DEF Books

-----------------------------------------------------------------------------
(* The invariant.                                                          *)

Flags ==
    /\ lock \in Threads \cup {NoOne}
    /\ scavenging \in BOOLEAN /\ needs_reaping \in BOOLEAN
    /\ deferring \subseteq ctxs /\ ctxs \subseteq Threads
    /\ OrphansAreReaped

\* Who has no context has nothing, and the last one empties the store.
Contexts ==
    /\ \A t \in Threads : t \notin ctxs => held[t] = {} /\ users[t] = {}
    /\ ctxs = {} => list = <<>> \/ \E t \in Threads : Resumed(call[t]).pc = "empty"
    /\ \A t \in Threads : Resumed(call[t]).pc = "empty" => ctxs = {}

StoreInv == CallsInv /\ Books /\ Accounts /\ Flags /\ Contexts

\* An image that is in use is no orphan.
LEMMA UsedIsNoOrphan ==
    ASSUME Accounts, NEW t \in Threads, NEW k, k \in Images => k \in users[t]
    PROVE  ~OrphanKey(k)
<1>. SUFFICES ASSUME k \in Images, imgRefs[k] = keyRefs[k] PROVE FALSE BY DEF OrphanKey
<1>1. imgRefs[k] = keyRefs[k] + Cardinality(UsersOf(k)) BY DEF Accounts, ImageUses
<1>2. keyRefs[k] \in Nat BY DEF Accounts, ItemKeys
<1>3. t \in UsersOf(k) BY DEF UsersOf
<1>4. IsFiniteSet(UsersOf(k)) /\ Cardinality(UsersOf(k)) \in Nat BY HoldersFinite
<1>5. Cardinality(UsersOf(k)) # 0 BY <1>3, <1>4, NobodyCounts
<1>. QED BY <1>1, <1>2, <1>4, <1>5

LEMMA FlagsKept ==
    ASSUME Flags, \A v \in Range(list') : v \in Range(list) \/ ~OrphanKey(KeyOf[v]),
           imgRefs' = imgRefs, keyRefs' = keyRefs, deferring' = deferring, ctxs' = ctxs,
           needs_reaping' = needs_reaping, scavenging' \in BOOLEAN,
           lock' \in Threads \cup {NoOne}
    PROVE  Flags'
BY DEF Flags, OrphansAreReaped, OrphanKey

LEMMA ContextsKept ==
    ASSUME Contexts, call \in [Threads -> Calls], NEW t \in Threads, NEW c \in Calls,
           call' = [call EXCEPT ![t] = c],
           Resumed(c).pc = "empty" <=> Resumed(call[t]).pc = "empty",
           ctxs' = ctxs, t \in ctxs \/ (held'[t] = held[t] /\ users'[t] = users[t]),
           \A s \in Threads : s # t => held'[s] = held[s] /\ users'[s] = users[s],
           ctxs = {} => Range(list') \subseteq Range(list), list' \in Seq(Vals)
    PROVE  Contexts'
<1>. DEFINE e == call'
<1>1. e[t] = c /\ \A s \in Threads : s # t => e[s] = call[s] OBVIOUS
<1>2. \A s \in Threads : Resumed(e[s]).pc = "empty" <=> Resumed(call[s]).pc = "empty"
  BY <1>1
<1>3. \A s \in Threads : s \notin ctxs' => held'[s] = {} /\ users'[s] = {}
  BY DEF Contexts
<1>4. ASSUME ctxs = {}, list = <<>> PROVE list' = <<>>
  <2>1. Range(list') = {} BY <1>4, EmptyRange
  <2>2. DOMAIN list' = 1 .. Len(list') /\ Len(list') \in Nat OBVIOUS
  <2>3. ASSUME Len(list') # 0 PROVE FALSE
    <3>1. 1 \in DOMAIN list' BY <2>2, <2>3
    <3>. QED BY <2>1, <3>1 DEF Range
  <2>. QED BY <2>3, EmptySeq
<1>5. ctxs' = {} => list' = <<>> \/ \E s \in Threads : Resumed(e[s]).pc = "empty"
  BY <1>2, <1>4 DEF Contexts
<1>6. \A s \in Threads : Resumed(e[s]).pc = "empty" => ctxs' = {}
  BY <1>2 DEF Contexts
<1>. QED BY <1>3, <1>5, <1>6 DEF Contexts

\* Calls that allocate and scavenge have nothing of the store's.
Others == {Idle} \cup Mallocs \cup Scavs

LEMMA OthersHaveNothing ==
    ASSUME NEW c \in Others
    PROVE  /\ c \in Calls /\ ItemOf(c) = {} /\ LeavingOf(c) = {} /\ DoomedOf(c) = {}
           /\ ChainOf(c) = {} /\ Resumed(c) = c /\ c.pc # "empty"
<1>1. c \in Frames /\ c.pc \notin {"store", "reaped", "space", "empty"}
  BY DEF Others, Frames, Idle, Mallocs, Scavs
<1>2. Resumed(c) = c /\ DoomedOf(c) = {} /\ ChainOf(c) = {} BY <1>1, FrameIs
<1>. QED BY <1>1, <1>2 DEF Calls, ItemOf, LeavingOf

\* A step that changes the call only.
LEMMA QuietParts ==
    ASSUME StoreInv, NEW t \in Threads, NEW c \in Calls, call' = [call EXCEPT ![t] = c],
           lock \in {NoOne, t}, lock' \in {NoOne, t}, lock' = t \/ c.pc \in {"idle", "drop"},
           ItemOf(c) = ItemOf(call[t]), LeavingOf(c) = LeavingOf(call[t]),
           DoomedOf(c) = DoomedOf(call[t]), ChainOf(c) = ChainOf(call[t]),
           scavenging' \in BOOLEAN,
           UNCHANGED <<store, needs_reaping, deferring, imgs, refs, alive, held, ctxs, lost>>
    PROVE  CallsInv' /\ Books' /\ Accounts' /\ Flags'
<1>1. CallsInv /\ Books /\ Accounts /\ Flags /\ Contexts /\ call \in [Threads -> Calls]
  BY DEF StoreInv, CallsInv
<1>2. /\ list' = list /\ hash' = hash /\ size' = size /\ lost' = lost
      /\ held' = held /\ ctxs' = ctxs
      /\ users' = users /\ imgRefs' = imgRefs /\ keyRefs' = keyRefs
  BY DEF store, imgs
<1>3. \A v \in ItemOf(c) : (v \in held[t] /\ t \in ctxs /\ Usable(t, KeyOf[v]))'
  <2>1. \A v \in ItemOf(c) : v \in held[t] /\ t \in ctxs /\ Usable(t, KeyOf[v])
    BY <1>1 DEF CallsInv, Owned
  <2>. QED BY <1>2, <2>1 DEF Usable
<1>4. /\ CallsInv'
      /\ Inserting' = (Inserting \ ItemOf(call[t])) \cup ItemOf(c)
      /\ Leaving' = (Leaving \ LeavingOf(call[t])) \cup LeavingOf(c)
      /\ Doomed' = (Doomed \ DoomedOf(call[t])) \cup DoomedOf(c)
  BY <1>1, <1>2, <1>3, Stepped
<1>5. /\ ItemOf(call[t]) \subseteq Inserting /\ LeavingOf(call[t]) \subseteq Leaving
      /\ DoomedOf(call[t]) \subseteq Doomed
  BY DEF Inserting, Leaving, Doomed
<1>6. Inserting' = Inserting /\ Leaving' = Leaving /\ Doomed' = Doomed BY <1>4, <1>5
<1>7. Books' BY <1>1, <1>2, <1>6, BooksKept
<1>8. InStore' = InStore BY <1>2, <1>6 DEF InStore
<1>9. Accounts' BY <1>1, <1>6, <1>8, AccountsKept DEF imgs
<1>10. Flags' BY <1>1, <1>2, FlagsKept
<1>. QED BY <1>4, <1>7, <1>9, <1>10

LEMMA Quiet ==
    ASSUME StoreInv, NEW t \in Threads, NEW c \in Calls, call' = [call EXCEPT ![t] = c],
           lock \in {NoOne, t}, lock' \in {NoOne, t}, lock' = t \/ c.pc \in {"idle", "drop"},
           ItemOf(c) = ItemOf(call[t]), LeavingOf(c) = LeavingOf(call[t]),
           DoomedOf(c) = DoomedOf(call[t]), ChainOf(c) = ChainOf(call[t]),
           Resumed(c).pc = "empty" <=> Resumed(call[t]).pc = "empty",
           scavenging' \in BOOLEAN,
           UNCHANGED <<store, needs_reaping, deferring, imgs, refs, alive, held, ctxs, lost>>
    PROVE  StoreInv'
<1>1. CallsInv' /\ Books' /\ Accounts' /\ Flags' BY QuietParts
<1>2. list' = list /\ held' = held /\ ctxs' = ctxs /\ users' = users BY DEF store, imgs
<1>3. Contexts'
  <2>1. list \in Seq(Vals) BY BooksTypes DEF StoreInv
  <2>2. list' \in Seq(Vals) /\ Range(list') \subseteq Range(list) BY <1>2, <2>1
  <2>3. Contexts /\ call \in [Threads -> Calls] BY DEF StoreInv, CallsInv
  <2>. QED BY <1>2, <2>2, <2>3, ContextsKept
<1>. QED BY <1>1, <1>3 DEF StoreInv

LEMMA QuietOthers ==
    ASSUME StoreInv, NEW t \in Threads, NEW c \in Others, call[t] \in Others,
           call' = [call EXCEPT ![t] = c],
           lock \in {NoOne, t}, lock' \in {NoOne, t}, lock' = t \/ c = Idle,
           scavenging' \in BOOLEAN,
           UNCHANGED <<store, needs_reaping, deferring, imgs, refs, alive, held, ctxs, lost>>
    PROVE  StoreInv'
<1>1. /\ c \in Calls /\ ItemOf(c) = {} /\ LeavingOf(c) = {} /\ DoomedOf(c) = {}
      /\ ChainOf(c) = {} /\ Resumed(c) = c /\ c.pc # "empty"
  BY OthersHaveNothing
<1>2. /\ ItemOf(call[t]) = {} /\ LeavingOf(call[t]) = {} /\ DoomedOf(call[t]) = {}
      /\ ChainOf(call[t]) = {} /\ Resumed(call[t]) = call[t] /\ call[t].pc # "empty"
  BY OthersHaveNothing
<1>3. lock' = t \/ c.pc \in {"idle", "drop"} BY DEF Idle
<1>. QED BY <1>1, <1>2, <1>3, Quiet

LEMMA CallAt ==
    ASSUME StoreInv, NEW t \in Threads
    PROVE  /\ call[t] \in Calls
           /\ call[t].pc \in {"store", "reaped"} => call[t] \in Stores
           /\ call[t].pc = "space" => call[t] \in Spaces
           /\ call[t].pc = "scavenge" => call[t] \in Scavs
           /\ call[t].pc \in {"malloc", "phase", "while"} => call[t] \in Mallocs
           /\ call[t].pc = "drop" => call[t] \in Drops
           /\ call[t].pc = "empty" => call[t] = Emptying
<1>1. call[t] \in Calls BY DEF StoreInv, CallsInv
<1>. QED BY <1>1, CallIs, FrameIs

LEMMA RelockStep ==
    ASSUME StoreInv, NEW t \in Threads, Relock(t)
    PROVE  StoreInv'
<1>. DEFINE c == call[t]  b == c.back
<1>1. c.pc = "drop" /\ c.chain = <<>> /\ c \in Drops /\ c \in Calls BY CallAt DEF Relock
<1>2. b \in Frames /\ c.dead \subseteq Range(c.chain) BY <1>1 DEF Drops
<1>3. b \in Calls /\ Resumed(b) = b /\ DoomedOf(b) = {} /\ ChainOf(b) = {}
  BY <1>2, FrameIs DEF Calls
<1>4. Resumed(c) = b /\ DoomedOf(c) = {} /\ ChainOf(c) = {}
  BY <1>1, <1>2, EmptyRange DEF Resumed, DoomedOf, ChainOf
<1>5. ItemOf(b) = ItemOf(c) /\ LeavingOf(b) = LeavingOf(c) BY <1>3, <1>4 DEF ItemOf, LeavingOf
<1>6. /\ call' = [call EXCEPT ![t] = b] /\ lock = NoOne /\ lock' = t
      /\ scavenging' \in BOOLEAN
      /\ UNCHANGED <<store, needs_reaping, deferring, imgs, refs, alive, held, ctxs, lost>>
  BY DEF Relock, flags, StoreInv, Flags
<1>. HIDE DEF b, c
<1>7. Resumed(b).pc = "empty" <=> Resumed(c).pc = "empty" BY <1>3, <1>4
<1>. QED BY <1>3, <1>4, <1>5, <1>6, <1>7, Quiet DEF c

LEMMA MallocStep ==
    ASSUME StoreInv, NEW t \in Threads,
           \/ \E n \in Allocs : Malloc(t, n)
           \/ MallocOk(t) \/ MallocFails(t) \/ While(t)
    PROVE  StoreInv'
<1>1. /\ scavenging' \in BOOLEAN
      /\ UNCHANGED <<store, needs_reaping, deferring, imgs, refs, alive, held, ctxs, lost>>
  BY DEF Malloc, MallocOk, MallocFails, While, flags, StoreInv, Flags
<1>2. Idle \in Others /\ Mallocs \subseteq Others BY DEF Others
<1>3. CASE \E n \in Allocs : Malloc(t, n)
  <2>1. PICK n \in Allocs : Malloc(t, n) BY <1>3
  <2>. DEFINE c == [pc |-> "malloc", size |-> n, phase |-> 0, max |-> 0]
  <2>2. n \in Int BY LimitsAssumption
  <2>3. c \in Mallocs BY <2>2 DEF Mallocs
  <2>4. call[t] = Idle /\ lock = NoOne /\ lock' = t /\ call' = [call EXCEPT ![t] = c]
    BY <2>1 DEF Malloc, Enter
  <2>. HIDE DEF c
  <2>. QED BY <1>1, <1>2, <2>3, <2>4, QuietOthers
<1>4. CASE MallocOk(t)
  <2>1. call[t] \in Mallocs /\ lock = t /\ lock' = NoOne /\ call' = [call EXCEPT ![t] = Idle]
    BY <1>4, CallAt DEF MallocOk, At
  <2>. QED BY <1>1, <1>2, <2>1, QuietOthers
<1>5. CASE MallocFails(t)
  <2>. DEFINE c == [call[t] EXCEPT !.pc = "phase"]
  <2>1. call[t] \in Mallocs /\ lock = t /\ lock' = lock
    BY <1>5, CallAt DEF MallocFails, At
  <2>2. call' = [call EXCEPT ![t] = c] BY <1>5 DEF MallocFails
  <2>3. c \in Mallocs BY <2>1 DEF Mallocs
  <2>. HIDE DEF c
  <2>. QED BY <1>1, <1>2, <2>1, <2>2, <2>3, QuietOthers
<1>6. CASE While(t)
  <2>. DEFINE c == [call[t] EXCEPT !.pc = "phase"]
  <2>1. call[t] \in Mallocs /\ lock = t BY <1>6, CallAt DEF While, At
  <2>2. \/ call' = [call EXCEPT ![t] = c] /\ lock' = lock
        \/ call' = [call EXCEPT ![t] = Idle] /\ lock' = NoOne
    BY <1>6 DEF While
  <2>3. c \in Mallocs BY <2>1 DEF Mallocs
  <2>. HIDE DEF c
  <2>. QED BY <1>1, <1>2, <2>1, <2>2, <2>3, QuietOthers
<1>. QED BY <1>3, <1>4, <1>5, <1>6

LEMMA ScavengeEndStep ==
    ASSUME StoreInv, NEW t \in Threads, ScavengeEnd(t)
    PROVE  StoreInv'
<1>. DEFINE c == Scavenged(call[t])
<1>1. call[t] \in Scavs /\ lock = t BY CallAt DEF ScavengeEnd, At
<1>2. c \in Others
  <2>1. CASE call[t].back = Idle BY <2>1 DEF Scavenged, Others
  <2>2. CASE call[t].back # Idle
    <3>1. call[t].back \in Mallocs BY <1>1, <2>2 DEF Scavs
    <3>2. \A p \in {"malloc", "while"} : [call[t].back EXCEPT !.pc = p] \in Mallocs
      BY <3>1 DEF Mallocs
    <3>3. c \in Mallocs BY <2>2, <3>2 DEF Scavenged
    <3>. QED BY <3>3 DEF Others
  <2>. QED BY <2>1, <2>2
<1>3. call' = [call EXCEPT ![t] = c] BY DEF ScavengeEnd
<1>4. call'[t] = c
  <2>1. call \in [Threads -> Calls] BY DEF StoreInv, CallsInv
  <2>. HIDE DEF c
  <2>. QED BY <1>3, <2>1
<1>5. lock' = IF c = Idle THEN NoOne ELSE t BY <1>4 DEF ScavengeEnd
<1>6. /\ scavenging' \in BOOLEAN
      /\ UNCHANGED <<store, needs_reaping, deferring, imgs, refs, alive, held, ctxs, lost>>
  BY DEF ScavengeEnd
<1>7. call[t] \in Others BY <1>1 DEF Others
<1>. HIDE DEF c
<1>. QED BY <1>1, <1>2, <1>3, <1>5, <1>6, <1>7, QuietOthers

LEMMA ScavengeIs ==
    ASSUME NEW t \in Threads, NEW tofree \in Int, NEW back \in Mallocs \cup {Idle},
           Scavenge(t, tofree, back)
    PROVE  \E c \in Others : call' = [call EXCEPT ![t] = c] /\ lock' = t /\ scavenging' \in BOOLEAN
<1>. DEFINE c == [pc |-> "scavenge", tofree |-> tofree, freed |-> 0, back |-> back]
<1>1. c \in Scavs BY DEF Scavs
<1>2. c \in Others BY <1>1 DEF Others
<1>3. call' = [call EXCEPT ![t] = c] /\ lock' = t /\ scavenging' = TRUE BY DEF Scavenge
<1>. HIDE DEF c
<1>. QED BY <1>2, <1>3

LEMMA ShrinkStep ==
    ASSUME StoreInv, NEW t \in Threads, NEW p \in Percents, Shrink(t, p)
    PROVE  StoreInv'
<1>1. call[t] = Idle /\ lock = NoOne /\ Idle \in Others BY DEF Shrink, Enter, Others
<1>. DEFINE limit == IF Unlimited THEN size ELSE MaxSize
<1>2. size - (limit * p) \div 100 \in Int
  <2>1. size \in Nat BY BooksTypes DEF StoreInv
  <2>2. p \in Nat /\ limit \in Nat BY <2>1, LimitsAssumption
  <2>. HIDE DEF limit
  <2>3. limit * p \in Int BY <2>2
  <2>4. (limit * p) \div 100 \in Int BY <2>3
  <2>. QED BY <2>1, <2>4
<1>3. Scavenge(t, size - (limit * p) \div 100, Idle) BY DEF Shrink
<1>. HIDE DEF limit
<1>4. PICK c \in Others : call' = [call EXCEPT ![t] = c] /\ lock' = t /\ scavenging' \in BOOLEAN
  BY <1>2, <1>3, ScavengeIs
<1>5. UNCHANGED <<store, needs_reaping, deferring, imgs, refs, alive, held, ctxs, lost>>
  BY DEF Shrink
<1>. QED BY <1>1, <1>4, <1>5, QuietOthers

LEMMA PhaseStep ==
    ASSUME StoreInv, NEW t \in Threads, Phase(t)
    PROVE  StoreInv'
<1>. DEFINE c == call[t]  max == PhaseMax(c.phase)  tofree == ToFree(c.size, max)
            next == [c EXCEPT !.phase = IF @ < Phases THEN @ + 1 ELSE @, !.max = max]
            w == [next EXCEPT !.pc = "while"]
<1>1. c \in Mallocs /\ lock = t BY CallAt DEF Phase, At
<1>2. c.size \in Int /\ c.phase \in Int BY <1>1 DEF Mallocs
<1>3. max \in Int
  <2>1. MaxSize \div Phases \in Int /\ Phases \in Int BY LimitsAssumption
  <2>2. Phases - c.phase \in Int BY <1>2, <2>1
  <2>3. (MaxSize \div Phases) * (Phases - c.phase) \in Int BY <2>1, <2>2
  <2>4. ASSUME c.phase < Phases
        PROVE  (size \div (Phases - c.phase)) * (Phases - 1 - c.phase) \in Int
    <3>. DEFINE left == Phases - c.phase
    <3>1. left \in Nat \ {0} /\ Phases - 1 - c.phase \in Int BY <1>2, <2>1, <2>4
    <3>2. size \in Nat BY BooksTypes DEF StoreInv
    <3>. HIDE DEF left
    <3>3. size \div left \in Int BY <3>1, <3>2
    <3>4. (size \div left) * (Phases - 1 - c.phase) \in Int BY <3>1, <3>3
    <3>. QED BY <3>4 DEF left
  <2>5. CASE c.phase < Phases BY <2>3, <2>4, <2>5 DEF PhaseMax
  <2>6. CASE c.phase >= Phases BY <2>6 DEF PhaseMax
  <2>. QED BY <1>2, <2>1, <2>5, <2>6
<1>. HIDE DEF max
<1>4. tofree \in Int
  <2>1. size \in Nat BY BooksTypes DEF StoreInv
  <2>2. Word \in Nat \ {0} BY LimitsAssumption
  <2>3. Word - 1 - max \in Int BY <1>3, <2>2
  <2>4. (c.size + size - max) % Word \in Int BY <1>2, <1>3, <2>1, <2>2
  <2>. QED BY <2>3, <2>4 DEF ToFree
<1>5. next \in Mallocs
  <2>1. (IF c.phase < Phases THEN c.phase + 1 ELSE c.phase) \in Int BY <1>2
  <2>. QED BY <1>1, <1>3, <2>1 DEF Mallocs
<1>6. w \in Mallocs
  <2>. HIDE DEF next
  <2>. QED BY <1>5 DEF Mallocs
<1>7. /\ \/ Scavenge(t, tofree, next)
         \/ call' = [call EXCEPT ![t] = w] /\ UNCHANGED <<lock, scavenging>>
      /\ UNCHANGED <<store, needs_reaping, deferring, imgs, refs, alive, held, ctxs, lost>>
  BY DEF Phase, max
<1>. HIDE DEF c, tofree, next, w
<1>8. c \in Others /\ w \in Others BY <1>1, <1>6 DEF Others
<1>9. CASE Scavenge(t, tofree, next)
  <2>1. PICK d \in Others : call' = [call EXCEPT ![t] = d] /\ lock' = t /\ scavenging' \in BOOLEAN
    BY <1>4, <1>5, <1>9, ScavengeIs
  <2>. QED BY <1>1, <1>7, <1>8, <2>1, QuietOthers DEF c
<1>10. CASE call' = [call EXCEPT ![t] = w] /\ UNCHANGED <<lock, scavenging>>
  <2>1. scavenging' \in BOOLEAN /\ lock' = t BY <1>1, <1>10 DEF StoreInv, Flags
  <2>. QED BY <1>1, <1>7, <1>8, <1>10, <2>1, QuietOthers DEF c
<1>. QED BY <1>7, <1>9, <1>10

-----------------------------------------------------------------------------
(* Finding and storing.                                                    *)

LEMMA FoundIs ==
    ASSUME StoreInv, NEW k, NEW v \in Found(k)
    PROVE  v \in Known /\ KeyOf[v] = k
<1>1. HashInv BY DEF StoreInv, Books
<1>2. CASE k \in Hashed
  <2>1. k \in DOMAIN hash /\ v = hash[k] BY <1>2 DEF Found
  <2>. QED BY <1>1, <2>1 DEF HashInv
<1>3. CASE k \notin Hashed
  <2>1. PICK i \in DOMAIN list : v = list[i] /\ KeyOf[list[i]] = k BY <1>3 DEF Found
  <2>2. v \in Range(list) BY <2>1 DEF Range
  <2>. QED BY <2>1, <2>2 DEF Known
<1>. QED BY <1>2, <1>3

LEMMA TakeStep ==
    ASSUME StoreInv, NEW t \in Threads, Enter(t), NEW v \in Known, v \notin held[t],
           Usable(t, KeyOf[v]), Touch(v),
           refs' = [refs EXCEPT ![v] = @ + 1], held' = [held EXCEPT ![t] = @ \cup {v}],
           UNCHANGED <<lock, call, hash, size, flags, imgs, alive, ctxs, lost>>
    PROVE  StoreInv'
<1>1. CallsInv /\ Books /\ Accounts /\ Flags /\ Contexts /\ call \in [Threads -> Calls]
  BY DEF StoreInv, CallsInv
<1>2. /\ t \in ctxs /\ call[t] = Idle /\ lock = NoOne /\ Idle \in Calls
      /\ ItemOf(Idle) = {} /\ LeavingOf(Idle) = {} /\ DoomedOf(Idle) = {}
  BY OthersHaveNothing DEF Enter, Others
<1>3. /\ lock' = lock /\ call' = call /\ hash' = hash /\ size' = size /\ lost' = lost
      /\ scavenging' = scavenging /\ needs_reaping' = needs_reaping /\ deferring' = deferring
      /\ keyRefs' = keyRefs /\ imgRefs' = imgRefs /\ users' = users
      /\ alive' = alive /\ ctxs' = ctxs
  BY DEF flags, imgs
<1>4. call' = [call EXCEPT ![t] = Idle] BY <1>1, <1>2, <1>3
<1>5. held \in [Threads -> SUBSET Vals] BY <1>1 DEF Accounts, Counts
<1>6. \A s \in Threads : s # t => held'[s] = held[s] BY <1>5
<1>7. Idle.pc \in {"idle", "drop"} BY DEF Idle
<1>8. /\ CallsInv'
      /\ Doomed' = (Doomed \ DoomedOf(call[t])) \cup DoomedOf(Idle)
  BY <1>1, <1>2, <1>3, <1>4, <1>6, <1>7, Stepped
<1>9. Doomed' = Doomed BY <1>2, <1>8
<1>10. Books' /\ InStore' = InStore BY <1>1, <1>3, BooksTouched
<1>11. v \in InStore BY <1>1, BooksTypes
<1>12. Accounts' BY <1>1, <1>3, <1>9, <1>10, <1>11, AccountsTaken DEF imgs
<1>13. list' \in Lists /\ Range(list') = Range(list) \cup {v}
  <2>1. list \in Lists /\ v \in Vals BY <1>1, <1>11, BooksTypes DEF Books, ListInv
  <2>. QED BY <2>1, ToFront DEF Touch
<1>14. ~OrphanKey(KeyOf[v])
  <2>1. KeyOf[v] \in Images => KeyOf[v] \in users[t] BY DEF Usable
  <2>. QED BY <1>1, <2>1, UsedIsNoOrphan
<1>15. Flags'
  <2>1. lock' \in Threads \cup {NoOne} /\ scavenging' \in BOOLEAN BY <1>1, <1>3 DEF Flags
  <2>. QED BY <1>1, <1>3, <1>13, <1>14, <2>1, FlagsKept
<1>16. Contexts'
  <2>1. list' \in Seq(Vals) BY <1>13 DEF Lists
  <2>2. ctxs # {} BY <1>2
  <2>. QED BY <1>1, <1>2, <1>3, <1>4, <1>6, <2>1, <2>2, ContextsKept
<1>. QED BY <1>8, <1>10, <1>12, <1>15, <1>16 DEF StoreInv

LEMMA FindStep ==
    ASSUME StoreInv, NEW t \in Threads, NEW k \in Keys, Find(t, k)
    PROVE  StoreInv'
<1>1. PICK v \in Found(k) \ held[t] : /\ Touch(v)
                                      /\ refs' = [refs EXCEPT ![v] = @ + 1]
                                      /\ held' = [held EXCEPT ![t] = @ \cup {v}]
  BY DEF Find
<1>2. v \in Known /\ KeyOf[v] = k BY FoundIs
<1>. QED BY <1>1, <1>2, TakeStep DEF Find

LEMMA StoreDuplicateStep ==
    ASSUME StoreInv, NEW t \in Threads, NEW v \in Vals, StoreDuplicate(t, v)
    PROVE  StoreInv'
<1>. DEFINE w == hash[KeyOf[v]]
<1>1. /\ Enter(t) /\ Usable(t, KeyOf[v]) /\ \A u \in held[t] : KeyOf[u] # KeyOf[v]
      /\ KeyOf[v] \in DOMAIN hash /\ Touch(w)
      /\ refs' = [refs EXCEPT ![w] = @ + 1] /\ held' = [held EXCEPT ![t] = @ \cup {w}]
      /\ UNCHANGED <<lock, call, hash, size, flags, imgs, alive, ctxs, lost>>
  BY DEF StoreDuplicate, Missing
<1>2. KeyOf[w] = KeyOf[v] /\ w \in Known BY <1>1 DEF StoreInv, Books, HashInv
<1>. HIDE DEF w
<1>3. w \notin held[t] BY <1>1, <1>2
<1>. QED BY <1>1, <1>2, <1>3, TakeStep

LEMMA StoreNewStep ==
    ASSUME StoreInv, NEW t \in Threads, NEW v \in Vals, StoreNew(t, v)
    PROVE  StoreInv'
<1>. DEFINE c == [pc |-> "store", item |-> v, want |-> size + Size[v]]
<1>1. CallsInv /\ Books /\ Accounts /\ Flags /\ Contexts /\ call \in [Threads -> Calls]
  BY DEF StoreInv, CallsInv
<1>2. /\ t \in ctxs /\ call[t] = Idle /\ lock = NoOne
      /\ ItemOf(Idle) = {} /\ LeavingOf(Idle) = {} /\ DoomedOf(Idle) = {} /\ ChainOf(Idle) = {}
      /\ Resumed(Idle) = Idle
  BY OthersHaveNothing DEF StoreNew, Missing, Enter, Others
<1>3. /\ Usable(t, KeyOf[v]) /\ v \notin alive /\ KeyOf[v] \notin DOMAIN hash
      /\ hash' = [h \in DOMAIN hash \cup ({KeyOf[v]} \cap Hashed) |->
                     IF h = KeyOf[v] THEN v ELSE hash[h]]
      /\ imgRefs' = [i \in Images |-> imgRefs[i] + (IF i = KeyOf[v] THEN 1 ELSE 0)]
      /\ keyRefs' = [i \in Images |-> keyRefs[i] + (IF i = KeyOf[v] THEN 1 ELSE 0)]
      /\ alive' = alive \cup {v} /\ refs' = [refs EXCEPT ![v] = 2]
      /\ held' = [held EXCEPT ![t] = @ \cup {v}]
      /\ lock' = t /\ call' = [call EXCEPT ![t] = c]
      /\ list' = list /\ size' = size /\ users' = users /\ ctxs' = ctxs /\ lost' = lost
      /\ scavenging' = scavenging /\ needs_reaping' = needs_reaping /\ deferring' = deferring
  BY DEF StoreNew, Missing, flags
<1>4. c \in Stores
  <2>1. size \in Nat BY <1>1, BooksTypes
  <2>2. size + Size[v] \in Int BY <2>1, ValsAssumption
  <2>. QED BY <2>2 DEF Stores
<1>5. c.pc = "store" /\ c.item = v OBVIOUS
<1>. HIDE DEF c
<1>6. /\ c \in Calls /\ Resumed(c) = c /\ DoomedOf(c) = {} /\ ChainOf(c) = {}
  BY <1>4, FrameIs DEF Frames, Calls
<1>7. ItemOf(c) = {v} /\ LeavingOf(c) = {} BY <1>5, <1>6 DEF ItemOf, LeavingOf
<1>8. /\ InStore \subseteq Vals /\ alive = Held \cup InStore \cup Doomed
  BY <1>1 DEF Accounts, Lives
<1>9. v \notin InStore /\ v \notin Inserting BY <1>3, <1>8 DEF InStore
<1>10. held \in [Threads -> SUBSET Vals] BY <1>1 DEF Accounts, Counts
<1>11. /\ held'[t] = held[t] \cup {v}
       /\ \A s \in Threads : s # t => held'[s] = held[s]
  BY <1>3, <1>10
<1>12. \A u \in ItemOf(c) : (u \in held[t] /\ t \in ctxs /\ Usable(t, KeyOf[u]))'
  BY <1>2, <1>3, <1>7, <1>11 DEF Usable
<1>13. /\ CallsInv'
       /\ Inserting' = (Inserting \ ItemOf(call[t])) \cup ItemOf(c)
       /\ Leaving' = (Leaving \ LeavingOf(call[t])) \cup LeavingOf(c)
       /\ Doomed' = (Doomed \ DoomedOf(call[t])) \cup DoomedOf(c)
  <2>1. /\ lock \in {NoOne, t} /\ lock' = t
        /\ \A u \in ItemOf(c) : u \notin ItemOf(call[t]) => u \notin Inserting
        /\ \A u \in LeavingOf(c) : u \notin LeavingOf(call[t]) => u \notin Leaving
        /\ \A u \in DoomedOf(c) : u \notin DoomedOf(call[t]) => u \notin Doomed
    BY <1>2, <1>3, <1>6, <1>7, <1>9
  <2>2. \A s \in Threads : s # t =>
           held'[s] = held[s] /\ users'[s] = users[s] /\ (s \in ctxs => s \in ctxs')
    BY <1>3, <1>11
  <2>3. call' = [call EXCEPT ![t] = c] BY <1>3
  <2>. QED BY <1>1, <1>6, <1>12, <2>1, <2>2, <2>3, Stepped
<1>14. Inserting' = Inserting \cup {v} /\ Leaving' = Leaving /\ Doomed' = Doomed
  BY <1>2, <1>6, <1>7, <1>13
<1>15. Books' /\ InStore' = InStore \cup {v} BY <1>1, <1>3, <1>9, <1>14, BooksInserted
<1>16. ChainOf(c) = ChainOf(call[t]) BY <1>2, <1>6
<1>17. Accounts' BY <1>1, <1>3, <1>6, <1>14, <1>15, <1>16, AccountsMade
<1>18. Flags'
  <2>1. imgRefs \in [Images -> Nat] /\ keyRefs \in [Images -> Nat]
    BY <1>1 DEF Accounts, ImageUses, ItemKeys
  <2>2. \A k : OrphanKey(k)' <=> OrphanKey(k)
    <3>. SUFFICES ASSUME NEW k \in Images PROVE imgRefs'[k] = keyRefs'[k] <=> imgRefs[k] = keyRefs[k]
      BY DEF OrphanKey
    <3>1. imgRefs[k] \in Nat /\ keyRefs[k] \in Nat BY <2>1
    <3>2. CASE k = KeyOf[v] BY <1>3, <3>1, <3>2
    <3>3. CASE k # KeyOf[v]
      <4>1. imgRefs'[k] = imgRefs[k] + 0 /\ keyRefs'[k] = keyRefs[k] + 0 BY <1>3, <3>3
      <4>. QED BY <3>1, <4>1
    <3>. QED BY <3>2, <3>3
  <2>. QED BY <1>1, <1>3, <2>2 DEF Flags, OrphansAreReaped
<1>19. Contexts'
  <2>1. list \in Seq(Vals) BY <1>1, BooksTypes
  <2>2. list' \in Seq(Vals) /\ Range(list') = Range(list) BY <1>3, <2>1
  <2>3. Resumed(c).pc # "empty" /\ Resumed(call[t]).pc # "empty"
    BY <1>2, <1>5, <1>6 DEF Idle
  <2>. QED BY <1>1, <1>2, <1>3, <1>6, <1>11, <2>2, <2>3, ContextsKept
<1>. QED BY <1>13, <1>15, <1>17, <1>18, <1>19 DEF StoreInv

\* The item is linked into the list.
LEMMA LinkStep ==
    ASSUME StoreInv, NEW t \in Threads, call[t] \in Stores, lock = t, Link(t, call[t].item),
           UNCHANGED <<hash, flags, imgs, refs, alive, held, ctxs, lost>>
    PROVE  StoreInv'
<1>. DEFINE v == call[t].item
<1>1. CallsInv /\ Books /\ Accounts /\ Flags /\ Contexts /\ call \in [Threads -> Calls]
  BY DEF StoreInv, CallsInv
<1>2. /\ Idle \in Calls /\ Idle.pc = "idle" /\ Resumed(Idle) = Idle
      /\ ItemOf(Idle) = {} /\ LeavingOf(Idle) = {} /\ DoomedOf(Idle) = {} /\ ChainOf(Idle) = {}
  BY OthersHaveNothing DEF Others, Idle
<1>3. /\ Resumed(call[t]) = call[t] /\ DoomedOf(call[t]) = {} /\ ChainOf(call[t]) = {}
      /\ call[t].pc \in {"store", "reaped"}
  BY FrameIs DEF Frames, Stores
<1>4. ItemOf(call[t]) = {v} /\ LeavingOf(call[t]) = {} BY <1>3 DEF ItemOf, LeavingOf
<1>5. /\ hash' = hash /\ lost' = lost /\ held' = held /\ ctxs' = ctxs /\ users' = users
      /\ imgRefs' = imgRefs /\ keyRefs' = keyRefs /\ scavenging' = scavenging
      /\ needs_reaping' = needs_reaping /\ deferring' = deferring
      /\ size' = size + Size[v] /\ Touch(v) /\ lock' = NoOne
      /\ call' = [call EXCEPT ![t] = Idle]
  BY DEF Link, flags, imgs
<1>. HIDE DEF v
<1>6. v \in held[t] /\ t \in ctxs /\ Usable(t, KeyOf[v]) BY <1>1, <1>4 DEF CallsInv, Owned
<1>7. /\ CallsInv'
      /\ Inserting' = (Inserting \ ItemOf(call[t])) \cup ItemOf(Idle)
      /\ Leaving' = (Leaving \ LeavingOf(call[t])) \cup LeavingOf(Idle)
      /\ Doomed' = (Doomed \ DoomedOf(call[t])) \cup DoomedOf(Idle)
  BY <1>1, <1>2, <1>5, Stepped
<1>8. Inserting' = Inserting \ {v} /\ Leaving' = Leaving /\ Doomed' = Doomed
  BY <1>2, <1>3, <1>4, <1>7
<1>9. v \in Inserting BY <1>4 DEF Inserting
<1>10. Books' /\ InStore' = InStore BY <1>1, <1>5, <1>8, <1>9, BooksLinked
<1>11. ChainOf(Idle) = ChainOf(call[t]) BY <1>2, <1>3
<1>12. Accounts' BY <1>1, <1>2, <1>5, <1>8, <1>10, <1>11, AccountsKept DEF imgs
<1>13. list' \in Lists /\ Range(list') = Range(list) \cup {v}
  <2>1. list \in Lists /\ v \in Vals BY <1>1, <1>9, BooksTypes DEF Books, ListInv
  <2>. QED BY <1>5, <2>1, ToFront DEF Touch
<1>14. ~OrphanKey(KeyOf[v])
  <2>1. KeyOf[v] \in Images => KeyOf[v] \in users[t] BY <1>6 DEF Usable
  <2>. QED BY <1>1, <2>1, UsedIsNoOrphan
<1>15. Flags'
  <2>1. lock' \in Threads \cup {NoOne} /\ scavenging' \in BOOLEAN BY <1>1, <1>5 DEF Flags
  <2>. QED BY <1>1, <1>5, <1>13, <1>14, <2>1, FlagsKept
<1>16. Contexts'
  <2>1. list' \in Seq(Vals) BY <1>13 DEF Lists
  <2>2. ctxs # {} BY <1>6
  <2>3. Resumed(Idle).pc # "empty" /\ Resumed(call[t]).pc # "empty" BY <1>2, <1>3
  <2>. QED BY <1>1, <1>2, <1>5, <2>1, <2>2, <2>3, ContextsKept
<1>. QED BY <1>7, <1>10, <1>12, <1>15, <1>16 DEF StoreInv

LEMMA StoreStep ==
    ASSUME StoreInv, NEW t \in Threads, StoreFits(t) \/ StoreAnyway(t)
    PROVE  StoreInv'
<1>1. call[t] \in Stores /\ lock = t BY CallAt DEF StoreFits, StoreAnyway, Looking, At
<1>. QED BY <1>1, LinkStep DEF StoreFits, StoreAnyway

-----------------------------------------------------------------------------
(* Taking items out.                                                       *)

LEMMA WithinIs ==
    ASSUME NEW l \in Lists, NEW V
    PROVE  Within(l, V) \in Lists /\ Range(Within(l, V)) = Range(l) \cap V
<1>. DEFINE K == Range(l) \ V
<1>1. Without(l, K) \in Seq(Vals) /\ Range(Without(l, K)) = Range(l) \ K
  BY WithoutType DEF Lists
<1>2. Distinct(Without(l, K)) BY WithoutDistinct DEF Lists
<1>3. Range(l) \ K = Range(l) \cap V OBVIOUS
<1>. QED BY <1>1, <1>2, <1>3 DEF Within, Lists

\* A list of one.
LEMMA SingleIs ==
    ASSUME NEW v \in Vals
    PROVE  <<v>> \in Lists /\ Range(<<v>>) = {v} /\ <<v>> # <<>>
<1>1. <<v>> \in Seq(Vals) /\ Len(<<v>>) = 1 /\ DOMAIN <<v>> = {1} /\ <<v>>[1] = v
  OBVIOUS
<1>2. Distinct(<<v>>) BY <1>1 DEF Distinct
<1>3. Range(<<v>>) = {v} BY <1>1 DEF Range
<1>. QED BY <1>1, <1>2, <1>3 DEF Lists

\* Items leave the store and are discarded by the thread that took them out.
LEMMA RemoveStep ==
    ASSUME StoreInv, NEW t \in Threads, NEW s \in Lists, NEW back \in Frames,
           Range(s) \subseteq Range(list), Range(s) \cap Inserting = {},
           list' = Without(list, Range(s)), hash' = Unhashed(Range(s)),
           \/ size' = size - SizeOf(Range(s)) /\ lost' = lost
           \/ size' = size /\ lost' = lost + SizeOf(Range(s)),
           refs' = Unref(Range(s)),
           call' = [call EXCEPT ![t] = Discard(s, {v \in Range(s) : refs'[v] = 0}, back)],
           lock \in {NoOne, t}, lock' = NoOne,
           ChainOf(call[t]) = {}, DoomedOf(call[t]) = {},
           ItemOf(back) = ItemOf(call[t]), LeavingOf(back) = LeavingOf(call[t]),
           back.pc = "empty" <=> Resumed(call[t]).pc = "empty",
           UNCHANGED <<held, alive, keyRefs, ctxs>>,
           \A r \in Threads : r # t => users'[r] = users[r],
           users' = users \/ (t \in ctxs /\ ItemOf(call[t]) = {})
    PROVE  /\ CallsInv' /\ Books' /\ Counts' /\ Lives' /\ ItemKeys' /\ Contexts'
           /\ Range(list') = Range(list) \ Range(s)
<1>. DEFINE R == Range(s)  dead == {v \in R : refs'[v] = 0}  c == Discard(s, dead, back)
<1>1. CallsInv /\ Books /\ Accounts /\ Flags /\ Contexts /\ call \in [Threads -> Calls]
  BY DEF StoreInv, CallsInv
<1>2. held' = held /\ alive' = alive /\ keyRefs' = keyRefs /\ ctxs' = ctxs OBVIOUS
<1>3. dead \in SUBSET R /\ dead \in SUBSET Range(s) OBVIOUS
<1>. HIDE DEF dead
<1>4. /\ c \in Calls /\ c.pc \in {"idle", "drop"} /\ Resumed(c) = back
      /\ ChainOf(c) = R /\ DoomedOf(c) = dead
  BY <1>3, DiscardIs
<1>5. back \in Calls /\ Resumed(back) = back BY FrameIs DEF Calls
<1>6. ItemOf(c) = ItemOf(call[t]) /\ LeavingOf(c) = LeavingOf(call[t])
  BY <1>4, <1>5 DEF ItemOf, LeavingOf
<1>7. call' = [call EXCEPT ![t] = c] BY DEF dead
<1>. HIDE DEF c
<1>8. R \subseteq InStore BY DEF InStore
<1>9. Doomed \cap InStore = {} BY <1>1 DEF Accounts, Lives
<1>10. \A v \in ItemOf(c) : (v \in held[t] /\ t \in ctxs /\ Usable(t, KeyOf[v]))'
  <2>1. \A v \in ItemOf(c) : v \in held[t] /\ t \in ctxs /\ Usable(t, KeyOf[v])
    BY <1>1, <1>6 DEF CallsInv, Owned
  <2>2. CASE users' = users BY <1>2, <2>1, <2>2 DEF Usable
  <2>3. CASE ItemOf(call[t]) = {} BY <1>6, <2>3
  <2>. QED BY <2>2, <2>3
<1>11. /\ CallsInv'
       /\ Inserting' = (Inserting \ ItemOf(call[t])) \cup ItemOf(c)
       /\ Leaving' = (Leaving \ LeavingOf(call[t])) \cup LeavingOf(c)
       /\ Doomed' = (Doomed \ DoomedOf(call[t])) \cup DoomedOf(c)
  <2>1. /\ \A v \in ItemOf(c) : v \notin ItemOf(call[t]) => v \notin Inserting
        /\ \A v \in LeavingOf(c) : v \notin LeavingOf(call[t]) => v \notin Leaving
        /\ \A v \in DoomedOf(c) : v \notin DoomedOf(call[t]) => v \notin Doomed
    BY <1>3, <1>4, <1>6, <1>8, <1>9
  <2>2. \A r \in Threads : r # t =>
           held'[r] = held[r] /\ users'[r] = users[r] /\ (r \in ctxs => r \in ctxs')
    BY <1>2
  <2>. QED BY <1>1, <1>4, <1>7, <1>10, <2>1, <2>2, Stepped
<1>12. ItemOf(call[t]) \subseteq Inserting /\ LeavingOf(call[t]) \subseteq Leaving
  BY DEF Inserting, Leaving
<1>13. Inserting' = Inserting /\ Leaving' = Leaving /\ Doomed' = Doomed \cup dead
  BY <1>4, <1>6, <1>11, <1>12
<1>14. R \in SUBSET Range(list) OBVIOUS
<1>15. Books' /\ Known' = Known \ R /\ R \cap Leaving = {}
  BY <1>1, <1>13, <1>14, BooksRemoved
<1>16. InStore' = InStore \ R
  <2>1. InStore = Known \cup Leaving BY <1>1, BooksTypes
  <2>2. InStore' = Known' \cup Leaving' BY DEF InStore, Known
  <2>. QED BY <1>13, <1>15, <2>1, <2>2
<1>17. Counts' /\ Lives' /\ ItemKeys'
  <2>1. Counts /\ Lives /\ ItemKeys BY <1>1 DEF Accounts
  <2>2. Doomed' = Doomed \cup {v \in R : refs'[v] = 0} BY <1>13 DEF dead
  <2>. QED BY <1>1, <1>4, <1>7, <1>8, <1>16, <2>1, <2>2, AccountsRemoved
<1>18. list' \in Seq(Vals) /\ Range(list') = Range(list) \ R
  <2>1. list \in Seq(Vals) BY <1>1, BooksTypes
  <2>. QED BY <2>1, WithoutType
<1>19. Contexts'
  <2>1. Resumed(c).pc = "empty" <=> Resumed(call[t]).pc = "empty" BY <1>4
  <2>2. t \in ctxs \/ (held'[t] = held[t] /\ users'[t] = users[t]) BY <1>2
  <2>3. \A r \in Threads : r # t => held'[r] = held[r] /\ users'[r] = users[r] BY <1>2
  <2>4. Range(list') \subseteq Range(list) BY <1>18
  <2>. QED BY <1>1, <1>2, <1>4, <1>7, <1>18, <2>1, <2>2, <2>3, <2>4, ContextsKept
<1>. QED BY <1>11, <1>15, <1>17, <1>18, <1>19

\* The same where nothing else of images or flags changes.
LEMMA PlainRemoveStep ==
    ASSUME StoreInv, NEW t \in Threads, NEW s \in Lists, NEW back \in Frames,
           Range(s) \subseteq Range(list), Range(s) \cap Inserting = {},
           list' = Without(list, Range(s)), hash' = Unhashed(Range(s)),
           \/ size' = size - SizeOf(Range(s)) /\ lost' = lost
           \/ size' = size /\ lost' = lost + SizeOf(Range(s)),
           refs' = Unref(Range(s)),
           call' = [call EXCEPT ![t] = Discard(s, {v \in Range(s) : refs'[v] = 0}, back)],
           lock \in {NoOne, t}, lock' = NoOne,
           ChainOf(call[t]) = {}, DoomedOf(call[t]) = {},
           ItemOf(back) = ItemOf(call[t]), LeavingOf(back) = LeavingOf(call[t]),
           back.pc = "empty" <=> Resumed(call[t]).pc = "empty",
           UNCHANGED <<held, alive, imgs, ctxs, flags>>
    PROVE  StoreInv'
<1>1. /\ held' = held /\ alive' = alive /\ keyRefs' = keyRefs /\ imgRefs' = imgRefs
      /\ users' = users /\ ctxs' = ctxs /\ scavenging' = scavenging
      /\ needs_reaping' = needs_reaping /\ deferring' = deferring
  BY DEF imgs, flags
<1>2. /\ CallsInv' /\ Books' /\ Counts' /\ Lives' /\ ItemKeys' /\ Contexts'
      /\ Range(list') = Range(list) \ Range(s)
  <2>1. UNCHANGED <<held, alive, keyRefs, ctxs>> BY <1>1
  <2>2. \A r \in Threads : r # t => users'[r] = users[r] BY <1>1
  <2>. QED BY <1>1, <2>1, <2>2, RemoveStep
<1>3. ImageUses' BY ImageUsesKept DEF StoreInv, Accounts, imgs
<1>4. Flags'
  <2>1. Flags /\ scavenging' \in BOOLEAN BY <1>1 DEF StoreInv, Flags
  <2>2. \A v \in Range(list') : v \in Range(list) \/ ~OrphanKey(KeyOf[v]) BY <1>2
  <2>. QED BY <1>1, <2>1, <2>2, FlagsKept
<1>. QED BY <1>2, <1>3, <1>4 DEF StoreInv, Accounts
\* A value that is being stored is used by the thread that stores it.
LEMMA InsertingUsed ==
    ASSUME StoreInv, NEW v \in Inserting
    PROVE  /\ \E t \in Threads : /\ v \in ItemOf(call[t]) /\ v \in held[t] /\ t \in ctxs
                                 /\ Usable(t, KeyOf[v])
           /\ v \in Vals /\ refs[v] # 1 /\ ~OrphanKey(KeyOf[v]) /\ ctxs # {}
<1>1. PICK t \in Threads : v \in ItemOf(call[t]) BY DEF Inserting
<1>2. v \in held[t] /\ t \in ctxs /\ Usable(t, KeyOf[v]) BY <1>1 DEF StoreInv, CallsInv, Owned
<1>3. v \in InStore /\ v \in Vals
  <2>1. v \in InStore BY DEF InStore
  <2>. QED BY <2>1 DEF StoreInv, Accounts, Lives
<1>4. refs[v] # 1
  <2>1. refs[v] = Cardinality(Holders(v)) + 1
    BY <1>3 DEF StoreInv, Accounts, Counts, RefsAreUsers, Holders
  <2>2. t \in Holders(v) BY <1>2 DEF Holders
  <2>3. IsFiniteSet(Holders(v)) /\ Cardinality(Holders(v)) \in Nat BY HoldersFinite
  <2>4. Cardinality(Holders(v)) # 0 BY <2>2, <2>3, NobodyCounts
  <2>. QED BY <2>1, <2>3, <2>4
<1>5. ~OrphanKey(KeyOf[v])
  <2>1. KeyOf[v] \in Images => KeyOf[v] \in users[t] BY <1>2 DEF Usable
  <2>. QED BY <2>1, UsedIsNoOrphan DEF StoreInv
<1>. QED BY <1>1, <1>2, <1>3, <1>4, <1>5

\* What ensure_space and scavenge may take.
LEMMA EvictableIs ==
    ASSUME StoreInv, NEW i \in Nat \ {0}
    PROVE  Evictable(i) \subseteq Range(list) /\ Evictable(i) \cap Inserting = {}
<1>1. list \in Seq(Vals) BY BooksTypes DEF StoreInv
<1>2. ASSUME NEW v \in Evictable(i) PROVE v \in Range(list) /\ v \notin Inserting
  <2>1. PICK j \in i .. Len(list) : v = list[j] BY DEF Evictable
  <2>2. refs[v] = 1 BY DEF Evictable
  <2>3. j \in DOMAIN list BY <1>1, <2>1
  <2>4. v \in Range(list) BY <2>1, <2>3 DEF Range
  <2>. QED BY <2>2, <2>4, InsertingUsed
<1>. QED BY <1>2

LEMMA TailsMax ==
    ASSUME StoreInv, NEW need, Tails(need) # {}
    PROVE  Max(Tails(need)) \in Nat \ {0} /\ Max(Tails(need)) \in Tails(need)
<1>1. list \in Seq(Vals) BY BooksTypes DEF StoreInv
<1>2. DOMAIN list = 1 .. Len(list) /\ Len(list) \in Nat BY <1>1
<1>3. Tails(need) \in SUBSET (1 .. Len(list)) BY <1>2 DEF Tails
<1>4. Tails(need) \in SUBSET (0 .. Len(list)) BY <1>2, <1>3
<1>5. Max(Tails(need)) \in Tails(need) BY <1>2, <1>4, MaxIsGreatest
<1>6. Max(Tails(need)) \in 1 .. Len(list) BY <1>3, <1>5
<1>. QED BY <1>2, <1>5, <1>6

LEMMA VictimsAre ==
    ASSUME StoreInv, NEW need, NEW inFont, NEW v \in Victims(need, inFont)
    PROVE  v \in Range(list) /\ v \notin Inserting /\ v \in Vals
<1>. DEFINE enough == {i \in DOMAIN list : /\ Droppable(i, inFont) # {}
                                           /\ SizeOf(Droppable(i, inFont)) >= need}
            from == IF enough = {} THEN 1 ELSE Max(enough)
<1>1. from \in Nat \ {0}
  <2>1. list \in Seq(Vals) BY BooksTypes DEF StoreInv
  <2>2. DOMAIN list = 1 .. Len(list) /\ Len(list) \in Nat BY <2>1
  <2>3. enough \in SUBSET (1 .. Len(list)) BY <2>2
  <2>. HIDE DEF enough
  <2>4. CASE enough # {}
    <3>1. enough \in SUBSET (0 .. Len(list)) BY <2>2, <2>3
    <3>2. Max(enough) \in enough BY <2>2, <2>4, <3>1, MaxIsGreatest
    <3>3. Max(enough) \in 1 .. Len(list) BY <2>3, <3>2
    <3>. QED BY <2>2, <2>4, <3>3
  <2>. QED BY <2>4
<1>2. v \in Evictable(from) BY DEF Victims, Droppable
<1>. HIDE DEF from
<1>3. v \in Range(list) /\ v \notin Inserting BY <1>1, <1>2, EvictableIs
<1>4. Range(list) \subseteq Vals BY BooksTypes DEF StoreInv
<1>. QED BY <1>3, <1>4

LEMMA ScavengeEvictStep ==
    ASSUME StoreInv, NEW t \in Threads, ScavengeEvict(t)
    PROVE  StoreInv'
<1>0. PICK inFont \in BOOLEAN :
        \E v \in Victims(call[t].tofree - call[t].freed, inFont) :
            Remove(t, <<v>>, [call[t] EXCEPT !.freed = @ + Size[v]])
  BY DEF ScavengeEvict
<1>1. PICK v \in Victims(call[t].tofree - call[t].freed, inFont) :
        Remove(t, <<v>>, [call[t] EXCEPT !.freed = @ + Size[v]])
  BY <1>0
<1>2. v \in Range(list) /\ v \notin Inserting /\ v \in Vals BY <1>1, VictimsAre
<1>. DEFINE c == call[t]  s == <<v>>  back == [c EXCEPT !.freed = c.freed + Size[v]]
<1>3. c \in Scavs /\ lock = t BY CallAt DEF ScavengeEvict, At
<1>4. s \in Lists /\ Range(s) = {v} BY <1>2, SingleIs
<1>5. back \in Scavs
  <2>1. c.freed + Size[v] \in Int BY <1>2, <1>3, ValsAssumption DEF Scavs
  <2>. QED BY <1>3, <2>1 DEF Scavs
<1>6. Remove(t, s, back) BY <1>1
<1>. HIDE DEF c, s, back
<1>7. c \in Others /\ back \in Others BY <1>3, <1>5 DEF Others
<1>8. back \in Frames BY <1>5 DEF Frames
<1>9. /\ ItemOf(c) = {} /\ LeavingOf(c) = {} /\ DoomedOf(c) = {} /\ ChainOf(c) = {}
      /\ Resumed(c).pc # "empty"
  BY <1>7, OthersHaveNothing
<1>10. ItemOf(back) = {} /\ LeavingOf(back) = {} /\ back.pc # "empty"
  BY <1>7, OthersHaveNothing
<1>11. /\ list' = Without(list, Range(s)) /\ hash' = Unhashed(Range(s))
       /\ size' = size - SizeOf(Range(s)) /\ lost' = lost
       /\ refs' = Unref(Range(s)) /\ lock' = NoOne
       /\ call' = [call EXCEPT ![t] = Discard(s, {w \in Range(s) : refs'[w] = 0}, back)]
       /\ UNCHANGED <<held, alive, imgs, ctxs, flags>>
  BY <1>6 DEF Remove, ScavengeEvict
<1>12. /\ ItemOf(back) = ItemOf(call[t]) /\ LeavingOf(back) = LeavingOf(call[t])
       /\ ChainOf(call[t]) = {} /\ DoomedOf(call[t]) = {}
       /\ back.pc = "empty" <=> Resumed(call[t]).pc = "empty"
       /\ lock \in {NoOne, t}
       /\ Range(s) \subseteq Range(list) /\ Range(s) \cap Inserting = {}
  BY <1>2, <1>3, <1>4, <1>9, <1>10 DEF c
<1>. QED BY <1>4, <1>8, <1>11, <1>12, PlainRemoveStep

\* A removal that an idle thread begins and ends.
LEMMA IdleRemoveStep ==
    ASSUME StoreInv, NEW t \in Threads, Enter(t), NEW s \in Lists,
           Range(s) \subseteq Range(list), Range(s) \cap Inserting = {},
           list' = Without(list, Range(s)), hash' = Unhashed(Range(s)),
           \/ size' = size - SizeOf(Range(s)) /\ lost' = lost
           \/ size' = size /\ lost' = lost + SizeOf(Range(s)),
           refs' = Unref(Range(s)),
           call' = [call EXCEPT ![t] = Discard(s, {v \in Range(s) : refs'[v] = 0}, Idle)],
           lock' = NoOne, UNCHANGED <<held, alive, imgs, ctxs, flags>>
    PROVE  StoreInv'
<1>1. call[t] = Idle /\ lock = NoOne BY DEF Enter
<1>2. /\ Idle \in Frames /\ ItemOf(Idle) = {} /\ LeavingOf(Idle) = {} /\ DoomedOf(Idle) = {}
      /\ ChainOf(Idle) = {} /\ Resumed(Idle) = Idle
  BY OthersHaveNothing DEF Others, Frames
<1>3. /\ ItemOf(Idle) = ItemOf(call[t]) /\ LeavingOf(Idle) = LeavingOf(call[t])
      /\ ChainOf(call[t]) = {} /\ DoomedOf(call[t]) = {}
      /\ Idle.pc = "empty" <=> Resumed(call[t]).pc = "empty"
      /\ lock \in {NoOne, t}
  BY <1>1, <1>2
<1>. QED BY <1>2, <1>3, PlainRemoveStep

\* The keys of a document are used by one thread.
LEMMA OwnIsNotInserting ==
    ASSUME StoreInv, NEW t \in Threads, call[t] = Idle, NEW v,
           KeyOf[v] \in DOMAIN Owner, Usable(t, KeyOf[v])
    PROVE  v \notin Inserting
<1>. SUFFICES ASSUME v \in Inserting PROVE FALSE OBVIOUS
<1>1. PICK u \in Threads : v \in ItemOf(call[u]) /\ Usable(u, KeyOf[v]) BY InsertingUsed
<1>2. u = t BY <1>1 DEF Usable
<1>3. ItemOf(Idle) = {} BY OthersHaveNothing DEF Others
<1>. QED BY <1>1, <1>2, <1>3

LEMMA RemoveItemStep ==
    ASSUME StoreInv, NEW t \in Threads, NEW k \in Keys, RemoveItem(t, k)
    PROVE  StoreInv'
<1>1. PICK v \in Found(k) :
          /\ lost' = lost + Size[v]
          /\ list' = Without(list, {v})
          /\ hash' = Unhashed({v})
          /\ refs' = Unref({v})
          /\ call' = [call EXCEPT ![t] =
                         Discard(<<v>>, {w \in {v} : refs'[w] = 0}, Idle)]
  BY DEF RemoveItem
<1>2. /\ Enter(t) /\ k \in DOMAIN Owner /\ Usable(t, k)
      /\ lock' = lock /\ size' = size /\ UNCHANGED <<held, alive, imgs, ctxs, flags>>
  BY DEF RemoveItem
<1>3. v \in Known /\ KeyOf[v] = k BY FoundIs
<1>4. v \notin Inserting BY <1>2, <1>3, OwnIsNotInserting DEF Enter
<1>5. v \in Range(list) BY <1>3, <1>4 DEF Known
<1>6. Range(list) \subseteq Vals BY BooksTypes DEF StoreInv
<1>. DEFINE s == <<v>>
<1>7. s \in Lists /\ Range(s) = {v} BY <1>5, <1>6, SingleIs
<1>8. call' = [call EXCEPT ![t] = Discard(s, {w \in Range(s) : refs'[w] = 0}, Idle)]
  BY <1>1, <1>7
<1>. HIDE DEF s
<1>9. SizeOf({v}) = Size[v]
  <2>1. SizeOf({} \cup {v}) = SizeOf({}) + Size[v] /\ SizeOf({}) \in Nat
    BY <1>5, <1>6, SizesSum, FS_EmptySet
  <2>2. SizeOf({}) = 0 BY TotalEmpty DEF SizeOf, Total
  <2>3. Size[v] \in Nat BY <1>5, <1>6, ValsAssumption
  <2>4. {} \cup {v} = {v} OBVIOUS
  <2>. QED BY <2>1, <2>2, <2>3, <2>4
<1>10. lock' = NoOne BY <1>2 DEF Enter
<1>11. /\ list' = Without(list, Range(s)) /\ hash' = Unhashed(Range(s)) /\ refs' = Unref(Range(s))
       /\ size' = size /\ lost' = lost + SizeOf(Range(s))
       /\ Range(s) \subseteq Range(list) /\ Range(s) \cap Inserting = {}
  BY <1>1, <1>2, <1>4, <1>5, <1>7, <1>9
<1>. QED BY <1>2, <1>7, <1>8, <1>10, <1>11, IdleRemoveStep

LEMMA FilterStep ==
    ASSUME StoreInv, NEW t \in Threads, Filter(t)
    PROVE  StoreInv'
<1>. DEFINE V == {v \in Vals : KeyOf[v] \in DOMAIN Owner /\ Usable(t, KeyOf[v])}
            s == Within(list, V)
<1>1. /\ Enter(t) /\ Remove(t, s, Idle) /\ UNCHANGED <<held, alive, imgs, ctxs, flags>>
      /\ lost' = lost
  BY DEF Filter
<1>2. list \in Lists BY DEF StoreInv, Books, ListInv
<1>3. s \in Lists /\ Range(s) = Range(list) \cap V
  <2>. HIDE DEF V
  <2>. QED BY <1>2, WithinIs
<1>4. Range(s) \cap Inserting = {} BY <1>1, <1>3, OwnIsNotInserting DEF Enter
<1>5. Range(s) \subseteq Range(list) BY <1>3
<1>. HIDE DEF s, V
<1>6. /\ list' = Without(list, Range(s)) /\ hash' = Unhashed(Range(s))
      /\ size' = size - SizeOf(Range(s)) /\ refs' = Unref(Range(s)) /\ lock' = NoOne
      /\ call' = [call EXCEPT ![t] = Discard(s, {v \in Range(s) : refs'[v] = 0}, Idle)]
  BY <1>1 DEF Remove
<1>. QED BY <1>1, <1>3, <1>4, <1>5, <1>6, IdleRemoveStep

LEMMA EmptyStep ==
    ASSUME StoreInv, NEW t \in Threads, Empty(t)
    PROVE  StoreInv'
<1>1. call[t] = Emptying /\ lock = t BY CallAt DEF Empty, At
<1>2. /\ Emptying \in Frames /\ Emptying \in Calls /\ Resumed(Emptying) = Emptying
      /\ ChainOf(Emptying) = {} /\ DoomedOf(Emptying) = {} /\ Emptying.pc = "empty"
  BY FrameIs DEF Frames, Calls, Emptying
<1>3. ItemOf(Emptying) = {} /\ LeavingOf(Emptying) = {} BY <1>2 DEF ItemOf, LeavingOf
<1>4. ctxs = {} BY <1>1, <1>2 DEF StoreInv, Contexts
<1>5. /\ scavenging' = scavenging /\ needs_reaping' = needs_reaping /\ deferring' = deferring
      /\ held' = held /\ ctxs' = ctxs /\ users' = users
      /\ UNCHANGED <<flags, imgs, alive, held, ctxs, lost>>
  BY DEF Empty, flags, imgs
<1>6. CASE list # <<>> /\ Remove(t, <<Head(list)>>, call[t])
  <2>. DEFINE v == Head(list)  s == <<v>>
  <2>1. list \in Seq(Vals) /\ Range(list) \subseteq Vals BY BooksTypes DEF StoreInv
  <2>2. v \in Range(list)
    <3>1. DOMAIN list = 1 .. Len(list) /\ Len(list) \in Nat /\ Len(list) # 0
      BY <1>6, <2>1, EmptySeq
    <3>2. 1 \in DOMAIN list /\ v = list[1] BY <1>6, <2>1, <3>1
    <3>. QED BY <3>2 DEF Range
  <2>3. s \in Lists /\ Range(s) = {v} BY <2>1, <2>2, SingleIs
  <2>4. Remove(t, s, Emptying) BY <1>1, <1>6
  <2>. HIDE DEF v, s
  <2>5. v \notin Inserting BY <1>4, InsertingUsed
  <2>6. Range(s) \subseteq Range(list) /\ Range(s) \cap Inserting = {} BY <2>2, <2>3, <2>5
  <2>7. /\ list' = Without(list, Range(s)) /\ hash' = Unhashed(Range(s))
        /\ size' = size - SizeOf(Range(s)) /\ refs' = Unref(Range(s)) /\ lock' = NoOne
        /\ call' = [call EXCEPT ![t] = Discard(s, {w \in Range(s) : refs'[w] = 0}, Emptying)]
        /\ lost' = lost
    BY <1>5, <2>4 DEF Remove
  <2>8. /\ ItemOf(Emptying) = ItemOf(call[t]) /\ LeavingOf(Emptying) = LeavingOf(call[t])
        /\ ChainOf(call[t]) = {} /\ DoomedOf(call[t]) = {}
        /\ Emptying.pc = "empty" <=> Resumed(call[t]).pc = "empty"
        /\ lock \in {NoOne, t}
    BY <1>1, <1>2, <1>3
  <2>. QED BY <1>2, <1>5, <2>3, <2>6, <2>7, <2>8, PlainRemoveStep
<1>7. CASE /\ list = <<>> /\ lock' = NoOne /\ call' = [call EXCEPT ![t] = Idle]
           /\ UNCHANGED <<store, refs>>
  <2>1. /\ Idle \in Calls /\ ItemOf(Idle) = {} /\ LeavingOf(Idle) = {} /\ DoomedOf(Idle) = {}
        /\ ChainOf(Idle) = {} /\ Resumed(Idle) = Idle /\ Idle.pc = "idle"
    BY OthersHaveNothing DEF Others, Idle
  <2>2. scavenging' \in BOOLEAN BY <1>5 DEF StoreInv, Flags
  <2>3. CallsInv' /\ Books' /\ Accounts' /\ Flags'
    BY <1>1, <1>2, <1>3, <1>5, <1>7, <2>1, <2>2, QuietParts
  <2>4. Contexts'
    <3>. DEFINE e == call'
    <3>1. e[t] = Idle /\ \A s \in Threads : s # t => e[s] = call[s]
      BY <1>7 DEF StoreInv, CallsInv
    <3>2. list' = <<>> BY <1>7 DEF store
    <3>. HIDE DEF e
    <3>3. \A s \in Threads : s \notin ctxs' => held'[s] = {} /\ users'[s] = {}
      BY <1>5 DEF StoreInv, Contexts
    <3>4. ctxs' = {} BY <1>4, <1>5
    <3>. QED BY <3>2, <3>3, <3>4 DEF Contexts
  <2>. QED BY <2>3, <2>4 DEF StoreInv
<1>. QED BY <1>6, <1>7 DEF Empty

\* do_reap.
LEMMA ReapStep ==
    ASSUME StoreInv, NEW t \in Threads, NEW back \in Frames, Reap(t, back),
           lock \in {NoOne, t}, ChainOf(call[t]) = {}, DoomedOf(call[t]) = {},
           ItemOf(back) = ItemOf(call[t]), LeavingOf(back) = LeavingOf(call[t]),
           back.pc = "empty" <=> Resumed(call[t]).pc = "empty",
           deferring' \subseteq deferring,
           UNCHANGED <<scavenging, imgs, alive, held, ctxs, lost>>
    PROVE  StoreInv'
<1>. DEFINE V == {v \in Vals : OrphanKey(KeyOf[v])}  s == Within(list, V)
<1>1. list \in Lists BY DEF StoreInv, Books, ListInv
<1>2. s \in Lists /\ Range(s) = Range(list) \cap V
  <2>. HIDE DEF V
  <2>. QED BY <1>1, WithinIs
<1>3. Remove(t, s, back) /\ needs_reaping' = FALSE BY DEF Reap
<1>4. Range(s) \subseteq Range(list) /\ Range(s) \cap Inserting = {} BY <1>2, InsertingUsed
<1>5. Range(list) \subseteq Vals BY BooksTypes DEF StoreInv
<1>. HIDE DEF s
<1>6. /\ list' = Without(list, Range(s)) /\ hash' = Unhashed(Range(s))
      /\ size' = size - SizeOf(Range(s)) /\ refs' = Unref(Range(s)) /\ lock' = NoOne
      /\ call' = [call EXCEPT ![t] = Discard(s, {v \in Range(s) : refs'[v] = 0}, back)]
  BY <1>3 DEF Remove
<1>7. /\ held' = held /\ alive' = alive /\ keyRefs' = keyRefs /\ imgRefs' = imgRefs
      /\ users' = users /\ ctxs' = ctxs /\ scavenging' = scavenging /\ lost' = lost
  BY DEF imgs
<1>8. /\ CallsInv' /\ Books' /\ Counts' /\ Lives' /\ ItemKeys' /\ Contexts'
      /\ Range(list') = Range(list) \ Range(s)
  <2>1. \A r \in Threads : r # t => users'[r] = users[r] BY <1>7
  <2>. QED BY <1>2, <1>4, <1>6, <1>7, <2>1, RemoveStep
<1>9. ImageUses' BY ImageUsesKept DEF StoreInv, Accounts
<1>10. Flags'
  <2>1. \A v \in Range(list') : ~OrphanKey(KeyOf[v]) BY <1>2, <1>5, <1>8
  <2>2. \A k : OrphanKey(k)' <=> OrphanKey(k) BY <1>7 DEF OrphanKey
  <2>3. OrphansAreReaped' BY <2>1, <2>2 DEF OrphansAreReaped
  <2>4. /\ scavenging \in BOOLEAN /\ deferring \subseteq ctxs /\ ctxs \subseteq Threads
    BY DEF StoreInv, Flags
  <2>. QED BY <1>3, <1>6, <1>7, <2>3, <2>4 DEF Flags
<1>. QED BY <1>8, <1>9, <1>10 DEF StoreInv, Accounts

LEMMA StoreReapStep ==
    ASSUME StoreInv, NEW t \in Threads, StoreReap(t)
    PROVE  StoreInv'
<1>. DEFINE c == call[t]  back == [c EXCEPT !.pc = "reaped"]
<1>1. c \in Stores /\ lock = t BY CallAt DEF StoreReap, At
<1>2. back \in Stores /\ back.item = c.item BY <1>1 DEF Stores
<1>3. Reap(t, back) BY DEF StoreReap
<1>4. UNCHANGED <<scavenging, deferring, imgs, alive, held, ctxs, lost>> BY DEF StoreReap
<1>. HIDE DEF back
<1>5. back \in Frames /\ c \in Frames BY <1>1, <1>2 DEF Frames
<1>6. /\ back.pc \in {"store", "reaped"} /\ c.pc \in {"store", "reaped"}
  BY <1>1, <1>2 DEF Stores
<1>7. /\ Resumed(c) = c /\ Resumed(back) = back /\ DoomedOf(c) = {} /\ ChainOf(c) = {}
  BY <1>5, FrameIs
<1>8. ItemOf(back) = ItemOf(c) /\ LeavingOf(back) = LeavingOf(c)
  BY <1>2, <1>6, <1>7 DEF ItemOf, LeavingOf
<1>9. back.pc = "empty" <=> Resumed(c).pc = "empty" BY <1>6, <1>7
<1>. QED BY <1>1, <1>3, <1>4, <1>5, <1>7, <1>8, <1>9, ReapStep

\* A step of an idle thread that changes flags only.
LEMMA FlagStep ==
    ASSUME StoreInv, NEW t \in Threads, Enter(t), Flags',
           UNCHANGED <<lock, call, store, imgs, refs, alive, held, ctxs, lost>>
    PROVE  StoreInv'
<1>1. /\ lock' = lock /\ call' = call /\ list' = list /\ hash' = hash /\ size' = size
      /\ keyRefs' = keyRefs /\ imgRefs' = imgRefs /\ users' = users /\ refs' = refs
      /\ alive' = alive /\ held' = held /\ ctxs' = ctxs /\ lost' = lost
  BY DEF store, imgs
<1>2. CallsInv'
  BY <1>1 DEF StoreInv, CallsInv, Locked, Owned, Apart, Usable
<1>3. Inserting' = Inserting /\ Leaving' = Leaving /\ Doomed' = Doomed
  BY <1>1 DEF Inserting, Leaving, Doomed
<1>4. Books' BY <1>1, <1>3, BooksKept DEF StoreInv
<1>5. InStore' = InStore BY <1>1, <1>3 DEF InStore
<1>6. Counts' BY <1>1, <1>5 DEF StoreInv, Accounts, Counts, RefsAreUsers
<1>7. Lives' BY <1>1, <1>3, <1>5 DEF StoreInv, Accounts, Lives, Held
<1>8. ItemKeys' BY <1>1, <1>5 DEF StoreInv, Accounts, ItemKeys, KeyedIn, Chained, ChainOf
<1>9. ImageUses' BY ImageUsesKept DEF StoreInv, Accounts
<1>10. Contexts' BY <1>1 DEF StoreInv, Contexts
<1>. QED BY <1>2, <1>4, <1>6, <1>7, <1>8, <1>9, <1>10 DEF StoreInv, Accounts

LEMMA DeferStep ==
    ASSUME StoreInv, NEW t \in Threads, DeferStart(t) \/ DeferEnd(t)
    PROVE  StoreInv'
<1>1. Flags /\ Enter(t) /\ t \in ctxs BY DEF StoreInv, DeferStart, DeferEnd, Enter
<1>2. CASE DeferStart(t)
  <2>1. /\ deferring' = deferring \cup {t} /\ scavenging' = scavenging
        /\ needs_reaping' = needs_reaping /\ lock' = lock /\ list' = list
        /\ keyRefs' = keyRefs /\ imgRefs' = imgRefs /\ ctxs' = ctxs
    BY <1>2 DEF DeferStart, store, imgs
  <2>2. OrphansAreReaped'
    BY <1>1, <2>1 DEF Flags, OrphansAreReaped, OrphanKey
  <2>3. Flags' BY <1>1, <2>1, <2>2 DEF Flags
  <2>4. UNCHANGED <<lock, call, store, imgs, refs, alive, held, ctxs, lost>>
    BY <1>2 DEF DeferStart
  <2>. QED BY <1>1, <2>3, <2>4, FlagStep
<1>3. CASE DeferEnd(t) /\ deferring' = {} /\ needs_reaping
  <2>1. /\ Reap(t, Idle) /\ deferring' \subseteq deferring
        /\ UNCHANGED <<scavenging, imgs, alive, held, ctxs, lost>>
    BY <1>3 DEF DeferEnd
  <2>2. call[t] = Idle /\ lock \in {NoOne, t} BY <1>1 DEF Enter
  <2>3. /\ Idle \in Frames /\ ItemOf(Idle) = {} /\ LeavingOf(Idle) = {} /\ DoomedOf(Idle) = {}
        /\ ChainOf(Idle) = {} /\ Resumed(Idle) = Idle
    BY OthersHaveNothing DEF Others, Frames
  <2>4. /\ ItemOf(Idle) = ItemOf(call[t]) /\ LeavingOf(Idle) = LeavingOf(call[t])
        /\ ChainOf(call[t]) = {} /\ DoomedOf(call[t]) = {}
        /\ Idle.pc = "empty" <=> Resumed(call[t]).pc = "empty"
    BY <2>2, <2>3
  <2>. QED BY <2>1, <2>2, <2>3, <2>4, ReapStep
<1>4. CASE DeferEnd(t) /\ ~(deferring' = {} /\ needs_reaping)
  <2>1. /\ UNCHANGED <<lock, call, store, refs, needs_reaping>>
        /\ UNCHANGED <<scavenging, imgs, alive, held, ctxs, lost>>
        /\ deferring' = deferring \ {t}
    BY <1>4 DEF DeferEnd
  <2>2. /\ scavenging' = scavenging
        /\ needs_reaping' = needs_reaping /\ lock' = lock /\ list' = list
        /\ keyRefs' = keyRefs /\ imgRefs' = imgRefs /\ ctxs' = ctxs
    BY <2>1 DEF store, imgs
  <2>3. OrphansAreReaped'
    BY <1>1, <1>4, <2>2 DEF Flags, OrphansAreReaped, OrphanKey
  <2>4. Flags' BY <1>1, <2>1, <2>2, <2>3 DEF Flags
  <2>. QED BY <1>1, <2>1, <2>4, FlagStep
<1>. QED BY <1>2, <1>3, <1>4

\* A thread gives up an image.
LEMMA ImageDropped ==
    ASSUME Accounts, NEW t \in Threads, NEW i \in users[t],
           users' = [users EXCEPT ![t] = @ \ {i}],
           imgRefs' = [imgRefs EXCEPT ![i] = @ - 1], keyRefs' = keyRefs
    PROVE  /\ ImageUses' /\ i \in Images
           /\ \A k \in Images : k # i => imgRefs'[k] = imgRefs[k]
           /\ \A s \in Threads : s # t => users'[s] = users[s]
<1>. DEFINE u == users'  m == imgRefs'
<1>1. /\ users \in [Threads -> SUBSET Images] /\ imgRefs \in [Images -> Nat]
      /\ keyRefs \in [Images -> Nat] /\ i \in Images
      /\ \A k \in Images : imgRefs[k] = keyRefs[k] + Cardinality(UsersOf(k))
  BY DEF Accounts, ImageUses, ItemKeys
<1>2. /\ u \in [Threads -> SUBSET Images] /\ u[t] = users[t] \ {i}
      /\ \A s \in Threads : s # t => u[s] = users[s]
  BY <1>1
<1>3. m[i] = imgRefs[i] - 1 /\ \A k \in Images : k # i => m[k] = imgRefs[k] BY <1>1
<1>4. DOMAIN m = Images /\ m = [imgRefs EXCEPT ![i] = imgRefs[i] - 1] BY <1>1
<1>5. \A k : UsersOf(k)' = {s \in Threads : k \in u[s]} BY DEF UsersOf
<1>. HIDE DEF u, m
<1>6. UsersOf(i)' = UsersOf(i) \ {t} /\ \A k : k # i => UsersOf(k)' = UsersOf(k)
  BY <1>2, <1>5 DEF UsersOf
<1>7. t \in UsersOf(i) BY DEF UsersOf
<1>8. \A k : IsFiniteSet(UsersOf(k)) /\ Cardinality(UsersOf(k)) \in Nat BY HoldersFinite
<1>9. /\ Cardinality(UsersOf(i)') = Cardinality(UsersOf(i)) - 1
      /\ Cardinality(UsersOf(i)') \in Nat
  <2>1. IsFiniteSet(UsersOf(i) \ {t}) /\ Cardinality(UsersOf(i) \ {t}) = Cardinality(UsersOf(i)) - 1
    BY <1>7, <1>8, FS_RemoveElement
  <2>2. Cardinality(UsersOf(i) \ {t}) \in Nat BY <2>1, FS_CardinalityType
  <2>. QED BY <1>6, <2>1, <2>2
<1>10. ASSUME NEW k \in Images
       PROVE  m[k] = keyRefs[k] + Cardinality(UsersOf(k)') /\ m[k] \in Nat
  <2>1. keyRefs[k] \in Nat /\ imgRefs[k] = keyRefs[k] + Cardinality(UsersOf(k))
        /\ Cardinality(UsersOf(k)) \in Nat
    BY <1>1, <1>8
  <2>2. CASE k = i
    <3>. DEFINE a == Cardinality(UsersOf(i))  b == Cardinality(UsersOf(i)')
    <3>1. b = a - 1 /\ a \in Nat /\ b \in Nat /\ m[k] = imgRefs[k] - 1 /\ imgRefs[k] = keyRefs[k] + a
      BY <1>3, <1>9, <2>1, <2>2
    <3>. HIDE DEF a, b
    <3>2. m[k] = keyRefs[k] + b /\ m[k] \in Nat BY <2>1, <3>1
    <3>. QED BY <2>2, <3>2 DEF b
  <2>3. CASE k # i
    <3>1. m[k] = imgRefs[k] /\ UsersOf(k)' = UsersOf(k) BY <1>3, <1>6, <2>3
    <3>. QED BY <2>1, <3>1
  <2>. QED BY <2>2, <2>3
<1>11. m \in [Images -> Nat] BY <1>1, <1>4, <1>10
<1>12. ImageUses' BY <1>2, <1>10, <1>11 DEF ImageUses, u, m
<1>. QED BY <1>1, <1>2, <1>3, <1>12 DEF u, m

LEMMA DropImageStep ==
    ASSUME StoreInv, NEW t \in Threads, NEW i \in Images, DropImage(t, i)
    PROVE  StoreInv'
<1>. DEFINE orphan == imgRefs'[i] > 0 /\ imgRefs'[i] = keyRefs[i]
            V == {v \in Vals : /\ KeyOf[v] \in Images
                               /\ imgRefs'[KeyOf[v]] = keyRefs[KeyOf[v]]}
            s == Within(list, V)
<1>1. CallsInv /\ Books /\ Accounts /\ Flags /\ Contexts /\ call \in [Threads -> Calls]
  BY DEF StoreInv, CallsInv
<1>2. /\ Enter(t) /\ i \in users[t] /\ t \in ctxs /\ call[t] = Idle /\ lock = NoOne
      /\ users' = [users EXCEPT ![t] = @ \ {i}]
      /\ imgRefs' = [imgRefs EXCEPT ![i] = @ - 1]
      /\ keyRefs' = keyRefs /\ scavenging' = scavenging /\ deferring' = deferring
      /\ alive' = alive /\ held' = held /\ ctxs' = ctxs /\ lost' = lost
  BY DEF DropImage, Enter
<1>3. /\ ImageUses'
      /\ \A k \in Images : k # i => imgRefs'[k] = imgRefs[k]
      /\ \A r \in Threads : r # t => users'[r] = users[r]
  BY <1>1, <1>2, ImageDropped
<1>4. /\ Idle \in Frames /\ Idle \in Calls /\ Idle.pc = "idle"
      /\ ItemOf(Idle) = {} /\ LeavingOf(Idle) = {} /\ DoomedOf(Idle) = {}
      /\ ChainOf(Idle) = {} /\ Resumed(Idle) = Idle
  BY OthersHaveNothing DEF Others, Frames, Idle
<1>5. /\ deferring \subseteq ctxs /\ ctxs \subseteq Threads /\ scavenging \in BOOLEAN
      /\ lock \in Threads \cup {NoOne} /\ needs_reaping \in BOOLEAN
  BY <1>1 DEF Flags
<1>6. CASE /\ orphan /\ deferring = {} /\ Remove(t, s, Idle) /\ needs_reaping' = FALSE
  <2>1. list \in Lists /\ Range(list) \subseteq Vals BY <1>1, BooksTypes DEF Books, ListInv
  <2>2. s \in Lists /\ Range(s) = Range(list) \cap V
    <3>. HIDE DEF V
    <3>. QED BY <2>1, WithinIs
  <2>3. Range(s) \cap Inserting = {}
    <3>. SUFFICES ASSUME NEW v \in V, v \in Inserting PROVE FALSE BY <2>2
    <3>1. PICK r \in Threads : v \in ItemOf(call[r]) /\ Usable(r, KeyOf[v]) BY InsertingUsed
    <3>2. r # t BY <1>2, <1>4, <3>1
    <3>. DEFINE k == KeyOf[v]
    <3>3. k \in Images /\ k \in users'[r] /\ imgRefs'[k] = keyRefs[k]
      BY <1>3, <3>1, <3>2 DEF Usable
    <3>. HIDE DEF k
    <3>4. imgRefs'[k] = keyRefs'[k] + Cardinality(UsersOf(k)')
      BY <1>3, <3>3 DEF ImageUses
    <3>5. keyRefs[k] \in Nat BY <1>1, <3>3 DEF Accounts, ItemKeys
    <3>6. r \in UsersOf(k)' BY <3>3 DEF UsersOf
    <3>7. IsFiniteSet(UsersOf(k)') /\ Cardinality(UsersOf(k)') \in Nat
      <4>1. UsersOf(k)' \subseteq Threads BY DEF UsersOf
      <4>. QED BY <4>1, ValsAssumption, FS_Subset, FS_CardinalityType
    <3>8. Cardinality(UsersOf(k)') # 0 BY <3>6, <3>7, NobodyCounts
    <3>. QED BY <1>2, <3>3, <3>4, <3>5, <3>7, <3>8
  <2>4. Range(s) \subseteq Range(list) BY <2>2
  <2>. HIDE DEF s
  <2>5. /\ list' = Without(list, Range(s)) /\ hash' = Unhashed(Range(s))
        /\ size' = size - SizeOf(Range(s)) /\ refs' = Unref(Range(s)) /\ lock' = NoOne
        /\ call' = [call EXCEPT ![t] = Discard(s, {v \in Range(s) : refs'[v] = 0}, Idle)]
    BY <1>6 DEF Remove
  <2>6. /\ ItemOf(Idle) = ItemOf(call[t]) /\ LeavingOf(Idle) = LeavingOf(call[t])
        /\ ChainOf(call[t]) = {} /\ DoomedOf(call[t]) = {} /\ ItemOf(call[t]) = {}
        /\ Idle.pc = "empty" <=> Resumed(call[t]).pc = "empty"
        /\ lock \in {NoOne, t}
    BY <1>2, <1>4
  <2>7. /\ CallsInv' /\ Books' /\ Counts' /\ Lives' /\ ItemKeys' /\ Contexts'
        /\ Range(list') = Range(list) \ Range(s)
    BY <1>2, <1>3, <1>4, <2>2, <2>3, <2>4, <2>5, <2>6, RemoveStep
  <2>8. Flags'
    <3>1. \A v \in Range(list') : ~OrphanKey(KeyOf[v])'
      <4>1. \A v \in Range(list') : v \in Vals /\ v \notin V BY <2>1, <2>2, <2>7
      <4>. QED BY <1>2, <4>1 DEF OrphanKey
    <3>2. OrphansAreReaped' BY <3>1 DEF OrphansAreReaped
    <3>. QED BY <1>2, <1>5, <1>6, <2>5, <3>2 DEF Flags
  <2>. QED BY <1>3, <2>7, <2>8 DEF StoreInv, Accounts
<1>7. ASSUME UNCHANGED <<lock, call, store, refs>>,
             \/ orphan /\ deferring # {} /\ needs_reaping' = TRUE
             \/ ~orphan /\ needs_reaping' = needs_reaping
      PROVE  StoreInv'
  <2>1. /\ lock' = lock /\ call' = call /\ list' = list /\ hash' = hash /\ size' = size
        /\ refs' = refs
    BY <1>7 DEF store
  <2>2. CallsInv'
    <3>1. \A r \in Threads : \A v \in ItemOf(call[r]) :
             v \in held'[r] /\ r \in ctxs' /\ Usable(r, KeyOf[v])'
      <4>. SUFFICES ASSUME NEW r \in Threads, NEW v \in ItemOf(call[r])
                    PROVE  v \in held'[r] /\ r \in ctxs' /\ Usable(r, KeyOf[v])'
        OBVIOUS
      <4>1. r # t BY <1>2, <1>4
      <4>2. v \in held[r] /\ r \in ctxs /\ Usable(r, KeyOf[v])
        BY <1>1 DEF CallsInv, Owned
      <4>. QED BY <1>2, <1>3, <4>1, <4>2 DEF Usable
    <3>2. Owned' BY <2>1, <3>1 DEF Owned, Usable
    <3>. QED BY <1>1, <2>1, <3>2 DEF CallsInv, Locked, Apart
  <2>3. Inserting' = Inserting /\ Leaving' = Leaving /\ Doomed' = Doomed
    BY <2>1 DEF Inserting, Leaving, Doomed
  <2>4. Books' BY <1>1, <1>2, <2>1, <2>3, BooksKept
  <2>5. InStore' = InStore BY <2>1, <2>3 DEF InStore
  <2>6. Counts' BY <1>1, <1>2, <2>1, <2>5 DEF Accounts, Counts, RefsAreUsers
  <2>7. Lives' BY <1>1, <1>2, <2>3, <2>5 DEF Accounts, Lives, Held
  <2>8. ItemKeys' BY <1>1, <1>2, <2>1, <2>5 DEF Accounts, ItemKeys, KeyedIn, Chained, ChainOf
  <2>9. Flags'
    <3>1. ASSUME ~orphan, NEW v \in Range(list), OrphanKey(KeyOf[v])'
          PROVE  OrphanKey(KeyOf[v])
      <4>. DEFINE k == KeyOf[v]
      <4>1. k \in Images /\ imgRefs'[k] = keyRefs[k] BY <1>2, <3>1 DEF OrphanKey
      <4>2. CASE k # i BY <1>3, <4>1, <4>2 DEF OrphanKey
      <4>3. CASE k = i
        <5>1. imgRefs'[i] \in Nat BY <1>3 DEF ImageUses
        <5>2. keyRefs[i] = 0 BY <3>1, <4>1, <4>3, <5>1
        <5>3. keyRefs[i] = Cardinality(KeyedIn(InStore, i)) + Total(Chained(i), Threads)
          BY <1>1 DEF Accounts, ItemKeys
        <5>4. Total(Chained(i), Threads) \in Nat BY <1>1, ChainedWeights
        <5>5. IsFiniteSet(KeyedIn(InStore, i)) /\ Cardinality(KeyedIn(InStore, i)) \in Nat
          <6>1. KeyedIn(InStore, i) \subseteq InStore BY DEF KeyedIn
          <6>2. IsFiniteSet(InStore) BY <1>1 DEF Accounts, ItemKeys
          <6>. QED BY <6>1, <6>2, FS_Subset, FS_CardinalityType
        <5>6. v \in KeyedIn(InStore, i) BY <4>3 DEF KeyedIn, InStore
        <5>7. Cardinality(KeyedIn(InStore, i)) # 0 BY <5>5, <5>6, NobodyCounts
        <5>. QED BY <5>2, <5>3, <5>4, <5>5, <5>7
      <4>. QED BY <4>2, <4>3
    <3>2. OrphansAreReaped'
      <4>1. CASE orphan BY <1>2, <1>7, <4>1 DEF OrphansAreReaped
      <4>2. CASE ~orphan
        <5>1. needs_reaping' = needs_reaping BY <1>7, <4>2
        <5>2. \A v \in Range(list) : OrphanKey(KeyOf[v])' => OrphanKey(KeyOf[v])
          BY <3>1, <4>2
        <5>. HIDE DEF orphan
        <5>. QED BY <1>1, <1>2, <2>1, <5>1, <5>2 DEF Flags, OrphansAreReaped
      <4>. QED BY <4>1, <4>2
    <3>3. needs_reaping' \in BOOLEAN BY <1>5, <1>7
    <3>. QED BY <1>2, <1>5, <2>1, <3>2, <3>3 DEF Flags
  <2>10. Contexts'
    <3>1. \A r \in Threads : r \notin ctxs' => held'[r] = {} /\ users'[r] = {}
      BY <1>1, <1>2, <1>3 DEF Contexts
    <3>. QED BY <1>1, <1>2, <2>1, <3>1 DEF Contexts
  <2>. QED BY <1>3, <2>2, <2>4, <2>6, <2>7, <2>8, <2>9, <2>10 DEF StoreInv, Accounts
<1>8. \/ orphan /\ deferring = {} /\ Remove(t, s, Idle) /\ needs_reaping' = FALSE
      \/ orphan /\ deferring # {} /\ needs_reaping' = TRUE /\ UNCHANGED <<lock, call, store, refs>>
      \/ ~orphan /\ UNCHANGED <<lock, call, store, refs, needs_reaping>>
  BY DEF DropImage
<1>. QED BY <1>6, <1>7, <1>8

LEMMA LeaveStep ==
    ASSUME StoreInv, NEW t \in Threads, Leave(t)
    PROVE  StoreInv'
<1>1. CallsInv /\ Books /\ Accounts /\ Flags /\ Contexts /\ call \in [Threads -> Calls]
  BY DEF StoreInv, CallsInv
<1>2. /\ Enter(t) /\ call[t] = Idle /\ lock = NoOne /\ t \in ctxs
      /\ held[t] = {} /\ users[t] = {} /\ t \notin deferring
      /\ ctxs' = ctxs \ {t} /\ list' = list /\ hash' = hash /\ size' = size
      /\ scavenging' = scavenging /\ needs_reaping' = needs_reaping /\ deferring' = deferring
      /\ keyRefs' = keyRefs /\ imgRefs' = imgRefs /\ users' = users
      /\ alive' = alive /\ held' = held /\ lost' = lost /\ refs' = refs
  BY DEF Leave, Enter, store, flags, imgs
<1>3. PICK c \in {Idle, Emptying} :
         /\ call' = [call EXCEPT ![t] = c] /\ lock' = IF c = Idle THEN NoOne ELSE t
         /\ c = Emptying <=> ctxs' = {}
  <2>1. Idle # Emptying
    <3>1. Idle.pc = "idle" /\ Emptying.pc = "empty" BY DEF Idle, Emptying
    <3>. QED BY <3>1
  <2>2. CASE ctxs' # {} /\ UNCHANGED <<lock, call>>
    <3>1. call' = [call EXCEPT ![t] = Idle] BY <1>1, <1>2, <2>2
    <3>. QED BY <1>2, <2>1, <2>2, <3>1
  <2>3. CASE ctxs' = {} /\ lock' = t /\ call' = [call EXCEPT ![t] = [pc |-> "empty"]]
    BY <2>1, <2>3 DEF Emptying
  <2>. QED BY <2>2, <2>3 DEF Leave
<1>4. /\ c \in Frames /\ c \in Calls /\ Resumed(c) = c /\ DoomedOf(c) = {} /\ ChainOf(c) = {}
      /\ ItemOf(c) = {} /\ LeavingOf(c) = {}
      /\ c.pc = "empty" <=> c = Emptying
      /\ lock' = t \/ c.pc \in {"idle", "drop"}
  <2>1. c \in Frames /\ c.pc \in {"idle", "empty"} BY DEF Frames, Idle, Emptying
  <2>2. Resumed(c) = c /\ DoomedOf(c) = {} /\ ChainOf(c) = {} BY <2>1, FrameIs
  <2>3. ItemOf(c) = {} /\ LeavingOf(c) = {} BY <2>1, <2>2 DEF ItemOf, LeavingOf
  <2>4. c.pc = "empty" <=> c = Emptying BY <2>1 DEF Idle, Emptying
  <2>5. lock' = t \/ c.pc \in {"idle", "drop"} BY <1>3 DEF Idle
  <2>. QED BY <2>1, <2>2, <2>3, <2>4, <2>5 DEF Calls
<1>5. /\ ItemOf(Idle) = {} /\ LeavingOf(Idle) = {} /\ DoomedOf(Idle) = {}
      /\ ChainOf(Idle) = {} /\ Resumed(Idle) = Idle
  BY OthersHaveNothing DEF Others
<1>6. /\ CallsInv'
      /\ Inserting' = (Inserting \ ItemOf(call[t])) \cup ItemOf(c)
      /\ Leaving' = (Leaving \ LeavingOf(call[t])) \cup LeavingOf(c)
      /\ Doomed' = (Doomed \ DoomedOf(call[t])) \cup DoomedOf(c)
  <2>1. /\ \A v \in ItemOf(c) : v \notin ItemOf(call[t]) => v \notin Inserting
        /\ \A v \in LeavingOf(c) : v \notin LeavingOf(call[t]) => v \notin Leaving
        /\ \A v \in DoomedOf(c) : v \notin DoomedOf(call[t]) => v \notin Doomed
        /\ \A v \in ItemOf(c) : (v \in held[t] /\ t \in ctxs /\ Usable(t, KeyOf[v]))'
    BY <1>4
  <2>2. \A r \in Threads : r # t =>
           held'[r] = held[r] /\ users'[r] = users[r] /\ (r \in ctxs => r \in ctxs')
    BY <1>2
  <2>. QED BY <1>1, <1>2, <1>3, <1>4, <2>1, <2>2, Stepped
<1>7. Inserting' = Inserting /\ Leaving' = Leaving /\ Doomed' = Doomed
  BY <1>2, <1>4, <1>5, <1>6
<1>8. Books' BY <1>1, <1>2, <1>7, BooksKept
<1>9. InStore' = InStore BY <1>2, <1>7 DEF InStore
<1>10. ChainOf(c) = ChainOf(call[t]) BY <1>2, <1>4, <1>5
<1>11. Accounts' BY <1>1, <1>2, <1>3, <1>4, <1>7, <1>9, <1>10, AccountsKept DEF imgs
<1>12. Flags'
  <2>1. lock' \in Threads \cup {NoOne} BY <1>3
  <2>. QED BY <1>1, <1>2, <2>1 DEF Flags, OrphansAreReaped, OrphanKey
<1>13. Contexts'
  <2>. DEFINE e == call'
  <2>1. e[t] = c /\ \A r \in Threads : r # t => e[r] = call[r] BY <1>1, <1>3
  <2>. HIDE DEF e
  <2>2. \A r \in Threads : r \notin ctxs' => held'[r] = {} /\ users'[r] = {}
    BY <1>1, <1>2 DEF Contexts
  <2>3. ctxs' = {} => Resumed(e[t]).pc = "empty" BY <1>3, <1>4, <2>1
  <2>4. \A r \in Threads : Resumed(e[r]).pc = "empty" => ctxs' = {}
    <3>. SUFFICES ASSUME NEW r \in Threads, Resumed(e[r]).pc = "empty" PROVE ctxs' = {}
      OBVIOUS
    <3>1. CASE r = t BY <1>3, <1>4, <2>1, <3>1
    <3>2. CASE r # t BY <1>1, <1>2, <2>1, <3>2 DEF Contexts
    <3>. QED BY <3>1, <3>2
  <2>. QED BY <2>2, <2>3, <2>4 DEF Contexts, e
<1>. QED BY <1>6, <1>8, <1>11, <1>12, <1>13 DEF StoreInv

\* The head of a chain and what is behind it.
LEMMA ChainIs ==
    ASSUME NEW s \in Lists, s # <<>>
    PROVE  /\ Head(s) \in Vals /\ Head(s) \in Range(s)
           /\ Tail(s) \in Lists /\ Range(Tail(s)) = Range(s) \ {Head(s)}
           /\ Len(s) > 1 <=> Tail(s) # <<>>
<1>1. s \in Seq(Vals) /\ Distinct(s) BY DEF Lists
<1>2. Len(s) \in Nat /\ Len(s) # 0 /\ DOMAIN s = 1 .. Len(s) BY <1>1, EmptySeq
<1>3. Head(s) = s[1] /\ 1 \in DOMAIN s BY <1>1, <1>2
<1>4. /\ Tail(s) \in Seq(Vals) /\ Len(Tail(s)) = Len(s) - 1
      /\ \A i \in 1 .. Len(s) - 1 : Tail(s)[i] = s[i + 1]
      /\ DOMAIN Tail(s) = 1 .. Len(s) - 1
  BY <1>1, <1>2
<1>. DEFINE r == Tail(s)  n == Len(s)
<1>. HIDE DEF r
<1>5. Distinct(r)
  <2>1. r = Tail(s) BY DEF r
  <2>2. DOMAIN r = 1 .. n - 1 /\ \A i \in 1 .. n - 1 : r[i] = s[i + 1] BY <1>4, <2>1
  <2>3. \A i \in 1 .. n - 1 : i + 1 \in DOMAIN s /\ i \in Nat BY <1>2
  <2>4. \A i, j \in DOMAIN s : s[i] = s[j] => i = j BY <1>1 DEF Distinct
  <2>. HIDE DEF n
  <2>5. ASSUME NEW i \in DOMAIN r, NEW j \in DOMAIN r, r[i] = r[j] PROVE i = j
    <3>1. i + 1 = j + 1 BY <2>2, <2>3, <2>4, <2>5
    <3>2. i \in Nat /\ j \in Nat BY <2>2, <2>3
    <3>. QED BY <3>1, <3>2
  <2>. QED BY <2>5 DEF Distinct
<1>6. Range(r) = Range(s) \ {s[1]}
  <2>1. r = Tail(s) BY DEF r
  <2>2. DOMAIN r = 1 .. n - 1 /\ \A i \in 1 .. n - 1 : r[i] = s[i + 1] BY <1>4, <2>1
  <2>3. \A i, j \in DOMAIN s : s[i] = s[j] => i = j BY <1>1 DEF Distinct
  <2>4. \A i \in 1 .. n - 1 : i + 1 \in DOMAIN s /\ i + 1 # 1 BY <1>2
  <2>5. \A j \in DOMAIN s : j # 1 => j - 1 \in 1 .. n - 1 /\ (j - 1) + 1 = j BY <1>2
  <2>. HIDE DEF n
  <2>6. ASSUME NEW x \in Range(r) PROVE x \in Range(s) \ {s[1]}
    <3>1. PICK i \in 1 .. n - 1 : x = s[i + 1] BY <2>2 DEF Range
    <3>. QED BY <1>3, <2>3, <2>4, <3>1 DEF Range
  <2>7. ASSUME NEW x \in Range(s) \ {s[1]} PROVE x \in Range(r)
    <3>1. PICK j \in DOMAIN s : x = s[j] BY DEF Range
    <3>2. j # 1 BY <2>7, <3>1
    <3>3. j - 1 \in DOMAIN r /\ r[j - 1] = x BY <2>2, <2>5, <3>1, <3>2
    <3>. QED BY <3>3 DEF Range
  <2>. QED BY <2>6, <2>7
<1>7. Head(s) \in Range(s) BY <1>3 DEF Range
<1>8. Head(s) \in Vals BY <1>1, <1>2, <1>3
<1>9. Len(s) > 1 <=> Tail(s) # <<>>
  <2>1. Tail(s) = <<>> <=> Len(Tail(s)) = 0 BY <1>4, EmptySeq
  <2>. QED BY <1>2, <1>4, <2>1
<1>. QED BY <1>3, <1>4, <1>5, <1>6, <1>7, <1>8, <1>9 DEF Lists, r

LEMMA EnsureSpaceStep ==
    ASSUME StoreInv, NEW t \in Threads, EnsureSpace(t)
    PROVE  StoreInv'
<1>. DEFINE c == call[t]  need == size + Size[c.item] - MaxSize
            V == Evictable(Max(Tails(need)))  s == Within(list, V)
            w == size + Size[c.item] - SizeOf(V)
            d == [pc |-> "space", chain |-> s, item |-> c.item, want |-> w]
<1>1. CallsInv /\ Books /\ Accounts /\ Flags /\ Contexts /\ call \in [Threads -> Calls]
  BY DEF StoreInv, CallsInv
<1>2. c \in Stores /\ lock = t BY CallAt DEF EnsureSpace, Looking, At
<1>3. /\ need > 0 /\ Tails(need) # {}
      /\ list' = Without(list, V) /\ hash' = Unhashed(V) /\ size' = size - SizeOf(V)
      /\ call' = [call EXCEPT ![t] = d]
      /\ UNCHANGED <<lock, flags, imgs, refs, alive, held, ctxs, lost>>
  BY DEF EnsureSpace
<1>4. /\ lock' = lock /\ scavenging' = scavenging /\ needs_reaping' = needs_reaping
      /\ deferring' = deferring /\ keyRefs' = keyRefs /\ imgRefs' = imgRefs /\ users' = users
      /\ refs' = refs /\ alive' = alive /\ held' = held /\ ctxs' = ctxs /\ lost' = lost
  BY <1>3 DEF flags, imgs
<1>5. c.item \in Vals /\ c.pc \in {"store", "reaped"} /\ size \in Nat /\ Size[c.item] \in Nat
  <2>1. c.item \in Vals /\ c.pc \in {"store", "reaped"} BY <1>2 DEF Stores
  <2>. QED BY <1>1, <2>1, BooksTypes, ValsAssumption
<1>6. V \subseteq Range(list) /\ V \cap Inserting = {} BY <1>3, TailsMax, EvictableIs
<1>7. list \in Lists /\ list \in Seq(Vals) /\ Range(list) \subseteq Vals /\ IsFiniteSet(Range(list))
  BY <1>1, BooksTypes DEF Books, ListInv
<1>8. SizeOf(V) \in Nat /\ SizeOf(V) >= need
  <2>1. SizeOf(V) >= need BY <1>3, TailsMax DEF Tails
  <2>2. V \in SUBSET Vals /\ IsFiniteSet(V) BY <1>6, <1>7, FS_Subset
  <2>. HIDE DEF V
  <2>3. SizeOf(V) \in Nat BY <2>2, SizesSum
  <2>. QED BY <2>1, <2>3
<1>9. V # {}
  <2>1. SizeOf({}) = 0 BY TotalEmpty DEF SizeOf, Total
  <2>2. need \in Int /\ need > 0 BY <1>3, <1>5, LimitsAssumption
  <2>. HIDE DEF V, need
  <2>. QED BY <1>8, <2>1, <2>2
<1>. HIDE DEF V, need
<1>10. s \in Lists /\ Range(s) = V
  <2>1. s \in Lists /\ Range(s) = Range(list) \cap V BY <1>7, WithinIs
  <2>2. Range(list) \cap V = V BY <1>6
  <2>. QED BY <2>1, <2>2
<1>11. s # <<>> BY <1>9, <1>10, EmptyRange
<1>12. w \in Int BY <1>5, <1>8
<1>. HIDE DEF s, w, c
<1>13. d \in Spaces /\ d.pc = "space" /\ d.item = c.item /\ d.chain = s
  BY <1>5, <1>10, <1>11, <1>12 DEF Spaces
<1>. HIDE DEF d
<1>14. /\ d \in Calls /\ Resumed(d) = d /\ DoomedOf(d) = {} /\ ChainOf(d) = {}
  BY <1>13, FrameIs DEF Frames, Calls
<1>15. /\ Resumed(c) = c /\ DoomedOf(c) = {} /\ ChainOf(c) = {}
  BY <1>2, FrameIs DEF Frames
<1>16. /\ ItemOf(d) = {c.item} /\ LeavingOf(d) = V
       /\ ItemOf(c) = {c.item} /\ LeavingOf(c) = {}
  BY <1>5, <1>10, <1>13, <1>14, <1>15 DEF ItemOf, LeavingOf
<1>17. V \cap Leaving = {}
  <2>1. Leaving \cap Known = {} /\ Range(list) \subseteq Known BY <1>1 DEF Books, ListInv, Known
  <2>. QED BY <1>6, <2>1
<1>18. /\ CallsInv'
       /\ Inserting' = (Inserting \ ItemOf(call[t])) \cup ItemOf(d)
       /\ Leaving' = (Leaving \ LeavingOf(call[t])) \cup LeavingOf(d)
       /\ Doomed' = (Doomed \ DoomedOf(call[t])) \cup DoomedOf(d)
  <2>1. /\ \A v \in ItemOf(d) : v \notin ItemOf(call[t]) => v \notin Inserting
        /\ \A v \in LeavingOf(d) : v \notin LeavingOf(call[t]) => v \notin Leaving
        /\ \A v \in DoomedOf(d) : v \notin DoomedOf(call[t]) => v \notin Doomed
    BY <1>14, <1>16, <1>17 DEF c
  <2>2. \A v \in ItemOf(d) : (v \in held[t] /\ t \in ctxs /\ Usable(t, KeyOf[v]))'
    <3>1. \A v \in ItemOf(d) : v \in held[t] /\ t \in ctxs /\ Usable(t, KeyOf[v])
      BY <1>1, <1>16 DEF CallsInv, Owned, c
    <3>. QED BY <1>4, <3>1 DEF Usable
  <2>3. \A r \in Threads : r # t =>
           held'[r] = held[r] /\ users'[r] = users[r] /\ (r \in ctxs => r \in ctxs')
    BY <1>4
  <2>4. lock \in {NoOne, t} /\ lock' = t BY <1>2, <1>4
  <2>. QED BY <1>1, <1>3, <1>14, <2>1, <2>2, <2>3, <2>4, Stepped
<1>19. Inserting' = Inserting /\ Leaving' = Leaving \cup V /\ Doomed' = Doomed
  <2>1. ItemOf(c) \subseteq Inserting BY DEF Inserting, c
  <2>. QED BY <1>14, <1>15, <1>16, <1>18, <2>1 DEF c
<1>20. Books' /\ Known' = Known \ V /\ V \subseteq Known
  <2>1. V \in SUBSET Range(list) BY <1>6
  <2>2. Leaving' \subseteq Leaving \cup V BY <1>19
  <2>3. Books' /\ Known' = Known \ V BY <1>1, <1>3, <1>4, <1>6, <1>19, <2>1, <2>2, BooksRemoved
  <2>. QED BY <1>6, <2>3 DEF Known
<1>21. InStore' = InStore
  <2>1. InStore = Known \cup Leaving BY <1>1, BooksTypes
  <2>2. InStore' = Known' \cup Leaving' BY DEF InStore, Known
  <2>. QED BY <1>19, <1>20, <2>1, <2>2
<1>22. Accounts'
  <2>1. ChainOf(d) = ChainOf(call[t]) BY <1>14, <1>15 DEF c
  <2>. QED BY <1>1, <1>3, <1>14, <1>19, <1>21, <2>1, AccountsKept
<1>23. list' \in Seq(Vals) /\ Range(list') = Range(list) \ V
  BY <1>3, <1>7, WithoutType
<1>24. Flags'
  <2>1. scavenging' \in BOOLEAN /\ lock' \in Threads \cup {NoOne} BY <1>1, <1>4 DEF Flags
  <2>. QED BY <1>1, <1>4, <1>23, <2>1, FlagsKept
<1>25. Contexts'
  <2>1. Resumed(d).pc # "empty" /\ Resumed(call[t]).pc # "empty"
    BY <1>5, <1>13, <1>14, <1>15 DEF c
  <2>2. t \in ctxs \/ (held'[t] = held[t] /\ users'[t] = users[t]) BY <1>4
  <2>3. \A r \in Threads : r # t => held'[r] = held[r] /\ users'[r] = users[r] BY <1>4
  <2>4. Range(list') \subseteq Range(list) BY <1>23
  <2>. QED BY <1>1, <1>3, <1>4, <1>14, <1>23, <2>1, <2>2, <2>3, <2>4, ContextsKept
<1>. QED BY <1>18, <1>20, <1>22, <1>24, <1>25 DEF StoreInv

LEMMA SpaceUnrefStep ==
    ASSUME StoreInv, NEW t \in Threads, SpaceUnref(t)
    PROVE  StoreInv'
<1>. DEFINE c == call[t]  v == Head(c.chain)
            more == [c EXCEPT !.chain = Tail(c.chain)]
            last == [pc |-> "store", item |-> c.item, want |-> c.want]
            back == IF Len(c.chain) > 1 THEN more ELSE last
            dead == {w \in {v} : refs'[w] = 0}
            d == Discard(<<v>>, dead, back)
<1>1. CallsInv /\ Books /\ Accounts /\ Flags /\ Contexts /\ call \in [Threads -> Calls]
  BY DEF StoreInv, CallsInv
<1>2. c \in Spaces /\ lock = t BY CallAt DEF SpaceUnref, At
<1>3. /\ refs' = Unref({v}) /\ lock' = NoOne
      /\ UNCHANGED <<store, flags, imgs, alive, held, ctxs, lost>>
  BY DEF SpaceUnref
<1>4. call' = [call EXCEPT ![t] = d] BY DEF SpaceUnref
<1>5. /\ list' = list /\ hash' = hash /\ size' = size
      /\ scavenging' = scavenging /\ needs_reaping' = needs_reaping
      /\ deferring' = deferring /\ keyRefs' = keyRefs /\ imgRefs' = imgRefs /\ users' = users
      /\ alive' = alive /\ held' = held /\ ctxs' = ctxs /\ lost' = lost
  BY <1>3 DEF store, flags, imgs
<1>6. /\ c.pc = "space" /\ c.chain \in Lists /\ c.chain # <<>> /\ c.item \in Vals /\ c.want \in Int
  BY <1>2 DEF Spaces
<1>7. /\ v \in Vals /\ v \in Range(c.chain)
      /\ Tail(c.chain) \in Lists /\ Range(Tail(c.chain)) = Range(c.chain) \ {v}
      /\ Len(c.chain) > 1 <=> Tail(c.chain) # <<>>
  BY <1>6, ChainIs
<1>8. /\ Resumed(c) = c /\ DoomedOf(c) = {} /\ ChainOf(c) = {}
  BY <1>2, FrameIs DEF Frames
<1>9. ItemOf(c) = {c.item} /\ LeavingOf(c) = Range(c.chain)
  BY <1>6, <1>8 DEF ItemOf, LeavingOf
<1>10. /\ back \in Frames /\ back.pc # "empty"
       /\ ItemOf(back) = ItemOf(c) /\ LeavingOf(back) = LeavingOf(c) \ {v}
  <2>1. CASE Len(c.chain) > 1
    <3>1. more \in Spaces BY <1>2, <1>7, <2>1 DEF Spaces
    <3>2. more.chain = Tail(c.chain) /\ more.item = c.item /\ more.pc = "space"
      BY <1>2 DEF Spaces
    <3>3. back = more BY <2>1
    <3>. HIDE DEF more, c, back
    <3>4. more \in Frames /\ Resumed(more) = more BY <3>1, FrameIs DEF Frames
    <3>5. ItemOf(more) = {more.item} /\ LeavingOf(more) = Range(more.chain)
      BY <3>2, <3>4 DEF ItemOf, LeavingOf
    <3>. QED BY <1>7, <1>9, <3>2, <3>3, <3>4, <3>5
  <2>2. CASE ~(Len(c.chain) > 1)
    <3>1. last \in Stores /\ last.item = c.item /\ last.pc = "store" BY <1>6 DEF Stores
    <3>2. back = last BY <2>2
    <3>3. Range(c.chain) \ {v} = {} BY <1>7, <2>2, EmptyRange
    <3>. HIDE DEF last, c, back, v
    <3>4. last \in Frames /\ Resumed(last) = last BY <3>1, FrameIs DEF Frames
    <3>5. ItemOf(last) = {last.item} /\ LeavingOf(last) = {}
      BY <3>1, <3>4 DEF ItemOf, LeavingOf
    <3>. QED BY <1>9, <3>1, <3>2, <3>3, <3>4, <3>5
  <2>. QED BY <2>1, <2>2
<1>11. <<v>> \in Lists /\ Range(<<v>>) = {v} BY <1>7, SingleIs
<1>12. dead \in SUBSET Range(<<v>>) BY <1>11
<1>13. dead \in SUBSET {v} OBVIOUS
<1>. HIDE DEF c, v, back
<1>14. {x \in {v} : refs'[x] = 0} = dead BY DEF v
<1>. HIDE DEF dead
<1>15. /\ d \in Calls /\ d.pc \in {"idle", "drop"} /\ Resumed(d) = back
       /\ ChainOf(d) = {v} /\ DoomedOf(d) = dead
  <2>1. \A b \in Frames : \A x \in SUBSET Range(<<v>>) :
           /\ Discard(<<v>>, x, b) \in Calls
           /\ Discard(<<v>>, x, b).pc \in {"idle", "drop"}
           /\ Resumed(Discard(<<v>>, x, b)) = b
           /\ ChainOf(Discard(<<v>>, x, b)) = Range(<<v>>)
           /\ DoomedOf(Discard(<<v>>, x, b)) = x
    BY <1>11, DiscardIs
  <2>. QED BY <1>10, <1>11, <1>12, <2>1
<1>. HIDE DEF d
<1>16. Resumed(back) = back BY <1>10, FrameIs
<1>17. ItemOf(d) = ItemOf(c) /\ LeavingOf(d) = LeavingOf(c) \ {v}
  BY <1>10, <1>15, <1>16 DEF ItemOf, LeavingOf
<1>18. v \in Leaving /\ v \in InStore /\ v \notin Known
  <2>1. v \in Leaving BY <1>7, <1>9 DEF Leaving, c
  <2>2. Leaving \cap Known = {} BY <1>1 DEF Books, ListInv
  <2>. QED BY <2>1, <2>2 DEF InStore
<1>19. Doomed \cap InStore = {} BY <1>1 DEF Accounts, Lives
<1>20. /\ CallsInv'
       /\ Inserting' = (Inserting \ ItemOf(call[t])) \cup ItemOf(d)
       /\ Leaving' = (Leaving \ LeavingOf(call[t])) \cup LeavingOf(d)
       /\ Doomed' = (Doomed \ DoomedOf(call[t])) \cup DoomedOf(d)
  <2>1. /\ \A x \in ItemOf(d) : x \notin ItemOf(call[t]) => x \notin Inserting
        /\ \A x \in LeavingOf(d) : x \notin LeavingOf(call[t]) => x \notin Leaving
        /\ \A x \in DoomedOf(d) : x \notin DoomedOf(call[t]) => x \notin Doomed
    BY <1>13, <1>15, <1>17, <1>18, <1>19 DEF c
  <2>2. \A x \in ItemOf(d) : (x \in held[t] /\ t \in ctxs /\ Usable(t, KeyOf[x]))'
    <3>1. \A x \in ItemOf(d) : x \in held[t] /\ t \in ctxs /\ Usable(t, KeyOf[x])
      BY <1>1, <1>17 DEF CallsInv, Owned, c
    <3>. QED BY <1>5, <3>1 DEF Usable
  <2>3. \A r \in Threads : r # t =>
           held'[r] = held[r] /\ users'[r] = users[r] /\ (r \in ctxs => r \in ctxs')
    BY <1>5
  <2>4. lock \in {NoOne, t} BY <1>2
  <2>. QED BY <1>1, <1>4, <1>15, <2>1, <2>2, <2>3, <2>4, Stepped
<1>21. Inserting' = Inserting /\ Leaving' = Leaving \ {v} /\ Doomed' = Doomed \cup dead
  <2>1. ItemOf(c) \subseteq Inserting /\ LeavingOf(c) \subseteq Leaving
    BY DEF Inserting, Leaving, c
  <2>2. v \in LeavingOf(c) BY <1>7, <1>9
  <2>. QED BY <1>8, <1>15, <1>17, <1>20, <2>1, <2>2 DEF c
<1>22. Books' BY <1>1, <1>5, <1>21, BooksKept
<1>23. InStore' = InStore \ {v}
  <2>1. InStore = Known \cup Leaving BY <1>1, BooksTypes
  <2>2. InStore' = Known \cup Leaving' BY <1>5, <1>21 DEF InStore, Known
  <2>. QED BY <1>18, <1>21, <2>1, <2>2
<1>24. Counts' /\ Lives' /\ ItemKeys'
  <2>1. Counts /\ Lives /\ ItemKeys BY <1>1 DEF Accounts
  <2>2. Doomed' = Doomed \cup {x \in {v} : refs'[x] = 0} BY <1>14, <1>21
  <2>3. {v} \in SUBSET InStore BY <1>18
  <2>4. ChainOf(call[t]) = {} BY <1>8 DEF c
  <2>. QED BY <1>1, <1>3, <1>4, <1>5, <1>15, <1>23, <2>1, <2>2, <2>3, <2>4, AccountsRemoved
<1>25. ImageUses' BY <1>1, <1>3, ImageUsesKept DEF Accounts
<1>26. Flags'
  <2>1. scavenging' \in BOOLEAN /\ lock' \in Threads \cup {NoOne} BY <1>1, <1>3, <1>5 DEF Flags
  <2>. QED BY <1>1, <1>5, <2>1, FlagsKept
<1>27. Contexts'
  <2>1. Resumed(d).pc # "empty" /\ Resumed(call[t]).pc # "empty"
    BY <1>6, <1>8, <1>10, <1>15 DEF c
  <2>2. t \in ctxs \/ (held'[t] = held[t] /\ users'[t] = users[t]) BY <1>5
  <2>3. \A r \in Threads : r # t => held'[r] = held[r] /\ users'[r] = users[r] BY <1>5
  <2>4. list' \in Seq(Vals) /\ Range(list') \subseteq Range(list) BY <1>1, <1>5, BooksTypes
  <2>. QED BY <1>1, <1>4, <1>5, <1>15, <2>1, <2>2, <2>3, <2>4, ContextsKept
<1>. QED BY <1>20, <1>22, <1>24, <1>25, <1>26, <1>27 DEF StoreInv, Accounts

LEMMA DropItemStep ==
    ASSUME StoreInv, NEW t \in Threads, DropItem(t)
    PROVE  StoreInv'
<1>. DEFINE c == call[t]  v == Head(c.chain)  rest == Tail(c.chain)  dead == c.dead \ {v}
            d == Discard(rest, dead, c.back)
<1>1. CallsInv /\ Books /\ Accounts /\ Flags /\ Contexts /\ call \in [Threads -> Calls]
  BY DEF StoreInv, CallsInv
<1>2. c \in Drops /\ c.pc = "drop" /\ c.chain # <<>> /\ lock = NoOne
  BY CallAt DEF DropItem
<1>3. /\ alive' = alive \ ({v} \cap c.dead)
      /\ imgRefs' = [i \in Images |-> imgRefs[i] - (IF i = KeyOf[v] THEN 1 ELSE 0)]
      /\ keyRefs' = [i \in Images |-> keyRefs[i] - (IF i = KeyOf[v] THEN 1 ELSE 0)]
      /\ call' = [call EXCEPT ![t] = d]
      /\ UNCHANGED <<lock, store, flags, users, refs, held, ctxs, lost>>
  BY DEF DropItem
<1>4. /\ list' = list /\ hash' = hash /\ size' = size /\ lock' = lock
      /\ scavenging' = scavenging /\ needs_reaping' = needs_reaping
      /\ deferring' = deferring /\ users' = users /\ refs' = refs
      /\ held' = held /\ ctxs' = ctxs /\ lost' = lost
  BY <1>3 DEF store, flags
<1>5. /\ c.chain \in Lists /\ c.dead \subseteq Range(c.chain) /\ c.back \in Frames
  BY <1>2 DEF Drops
<1>6. /\ v \in Range(c.chain) /\ v \in Vals
      /\ rest \in Lists /\ Range(rest) = Range(c.chain) \ {v}
  BY <1>2, <1>5, ChainIs
<1>7. dead \in SUBSET Range(rest) BY <1>5, <1>6
<1>8. /\ Resumed(c) = c.back /\ ChainOf(c) = Range(c.chain) /\ DoomedOf(c) = c.dead
  BY <1>2 DEF Resumed, ChainOf, DoomedOf
<1>9. DoomedOf(c) \ {v} = dead BY <1>8
<1>. DEFINE b == c.back
<1>10. b \in Frames /\ Resumed(c) = b BY <1>5, <1>8
<1>. HIDE DEF v, rest, dead, b
<1>11. d = Discard(rest, dead, b) BY DEF b
<1>. HIDE DEF d
<1>12. /\ d \in Calls /\ d.pc \in {"idle", "drop"} /\ Resumed(d) = b
       /\ ChainOf(d) = Range(rest) /\ DoomedOf(d) = dead
  BY <1>6, <1>7, <1>10, <1>11, DiscardIs
<1>. HIDE DEF c
<1>13. ItemOf(d) = ItemOf(c) /\ LeavingOf(d) = LeavingOf(c) BY <1>10, <1>12 DEF ItemOf, LeavingOf
<1>14. /\ ItemOf(c) \subseteq Inserting /\ LeavingOf(c) \subseteq Leaving
       /\ DoomedOf(c) \subseteq Doomed
  BY DEF Inserting, Leaving, Doomed, c
<1>15. /\ CallsInv'
       /\ Inserting' = (Inserting \ ItemOf(call[t])) \cup ItemOf(d)
       /\ Leaving' = (Leaving \ LeavingOf(call[t])) \cup LeavingOf(d)
       /\ Doomed' = (Doomed \ DoomedOf(call[t])) \cup DoomedOf(d)
  <2>1. /\ \A x \in ItemOf(d) : x \notin ItemOf(call[t]) => x \notin Inserting
        /\ \A x \in LeavingOf(d) : x \notin LeavingOf(call[t]) => x \notin Leaving
        /\ \A x \in DoomedOf(d) : x \notin DoomedOf(call[t]) => x \notin Doomed
    BY <1>9, <1>12, <1>13 DEF c
  <2>2. \A x \in ItemOf(d) : (x \in held[t] /\ t \in ctxs /\ Usable(t, KeyOf[x]))'
    <3>1. \A x \in ItemOf(d) : x \in held[t] /\ t \in ctxs /\ Usable(t, KeyOf[x])
      BY <1>1, <1>13 DEF CallsInv, Owned, c
    <3>. QED BY <1>4, <3>1 DEF Usable
  <2>3. \A r \in Threads : r # t =>
           held'[r] = held[r] /\ users'[r] = users[r] /\ (r \in ctxs => r \in ctxs')
    BY <1>4
  <2>. QED BY <1>1, <1>2, <1>3, <1>12, <2>1, <2>2, <2>3, Stepped
<1>16. /\ Inserting' = Inserting /\ Leaving' = Leaving
       /\ Doomed' = Doomed \ ({v} \cap DoomedOf(c))
  BY <1>9, <1>12, <1>13, <1>14, <1>15 DEF c
<1>17. Books' BY <1>1, <1>4, <1>16, BooksKept
<1>18. InStore' = InStore BY <1>4, <1>16 DEF InStore
<1>19. Accounts'
  <2>1. v \in ChainOf(call[t]) /\ ChainOf(d) = ChainOf(call[t]) \ {v}
    BY <1>6, <1>8, <1>12 DEF c
  <2>2. /\ Doomed' = Doomed \ ({v} \cap DoomedOf(call[t])) /\ DoomedOf(call[t]) \subseteq Doomed
        /\ alive' = alive \ ({v} \cap DoomedOf(call[t]))
    BY <1>3, <1>8, <1>14, <1>16 DEF c
  <2>. QED BY <1>1, <1>3, <1>4, <1>12, <1>18, <2>1, <2>2, AccountsDiscarded
<1>20. Flags'
  <2>1. Flags /\ imgRefs \in [Images -> Nat] /\ keyRefs \in [Images -> Nat]
    BY <1>1 DEF Accounts, ImageUses, ItemKeys
  <2>2. \A k : OrphanKey(k)' <=> OrphanKey(k)
    <3>. SUFFICES ASSUME NEW k \in Images PROVE imgRefs'[k] = keyRefs'[k] <=> imgRefs[k] = keyRefs[k]
      BY DEF OrphanKey
    <3>1. imgRefs[k] \in Nat /\ keyRefs[k] \in Nat BY <2>1
    <3>2. /\ imgRefs'[k] = imgRefs[k] - (IF k = KeyOf[v] THEN 1 ELSE 0)
          /\ keyRefs'[k] = keyRefs[k] - (IF k = KeyOf[v] THEN 1 ELSE 0)
      BY <1>3
    <3>. QED BY <3>1, <3>2
  <2>. QED BY <1>4, <2>1, <2>2 DEF Flags, OrphansAreReaped
<1>21. Contexts'
  <2>1. Resumed(d).pc = "empty" <=> Resumed(call[t]).pc = "empty" BY <1>10, <1>12 DEF c
  <2>2. t \in ctxs \/ (held'[t] = held[t] /\ users'[t] = users[t]) BY <1>4
  <2>3. \A r \in Threads : r # t => held'[r] = held[r] /\ users'[r] = users[r] BY <1>4
  <2>4. list' \in Seq(Vals) /\ Range(list') \subseteq Range(list) BY <1>1, <1>4, BooksTypes
  <2>. QED BY <1>1, <1>3, <1>4, <1>12, <2>1, <2>2, <2>3, <2>4, ContextsKept
<1>. QED BY <1>15, <1>17, <1>19, <1>20, <1>21 DEF StoreInv

LEMMA DropStep ==
    ASSUME StoreInv, NEW t \in Threads, NEW v \in Vals, Drop(t, v)
    PROVE  StoreInv'
<1>1. CallsInv /\ Books /\ Accounts /\ Flags /\ Contexts /\ call \in [Threads -> Calls]
  BY DEF StoreInv, CallsInv
<1>2. /\ call[t] = Idle /\ lock = NoOne /\ t \in ctxs /\ v \in held[t]
      /\ refs' = [refs EXCEPT ![v] = @ - 1]
      /\ held' = [held EXCEPT ![t] = @ \ {v}]
      /\ alive' = IF refs'[v] = 0 THEN alive \ {v} ELSE alive
      /\ list' = list /\ hash' = hash /\ size' = size
      /\ needs_reaping' = needs_reaping /\ deferring' = deferring
      /\ UNCHANGED imgs /\ keyRefs' = keyRefs /\ imgRefs' = imgRefs /\ users' = users
      /\ ctxs' = ctxs /\ lost' = lost
  BY DEF Drop, Enter, store, imgs
<1>3. Idle \in Others BY DEF Others
<1>4. PICK c \in Others :
         /\ call' = [call EXCEPT ![t] = c]
         /\ lock' \in {NoOne, t} /\ (lock' = t \/ c.pc \in {"idle", "drop"})
         /\ scavenging' \in BOOLEAN
  <2>1. CASE Scavenge(t, size - MaxSize, Idle)
    <3>1. size - MaxSize \in Int BY <1>1, BooksTypes, LimitsAssumption
    <3>2. PICK c \in Others : call' = [call EXCEPT ![t] = c] /\ lock' = t /\ scavenging' \in BOOLEAN
      BY <2>1, <3>1, ScavengeIs
    <3>. QED BY <3>2
  <2>2. CASE UNCHANGED <<lock, call, scavenging>>
    <3>1. call' = [call EXCEPT ![t] = Idle] BY <1>1, <1>2, <2>2
    <3>2. Idle.pc \in {"idle", "drop"} BY DEF Idle
    <3>. QED BY <1>1, <1>2, <1>3, <2>2, <3>1, <3>2 DEF Flags
  <2>. QED BY <2>1, <2>2 DEF Drop
<1>5. /\ c \in Calls /\ ItemOf(c) = {} /\ LeavingOf(c) = {} /\ DoomedOf(c) = {}
      /\ ChainOf(c) = {} /\ Resumed(c) = c /\ c.pc # "empty"
  BY OthersHaveNothing
<1>6. /\ ItemOf(Idle) = {} /\ LeavingOf(Idle) = {} /\ DoomedOf(Idle) = {}
      /\ ChainOf(Idle) = {} /\ Resumed(Idle) = Idle /\ Idle.pc # "empty"
  BY <1>3, OthersHaveNothing
<1>7. \A r \in Threads : r # t => held'[r] = held[r]
  <2>1. held \in [Threads -> SUBSET Vals] BY <1>1 DEF Accounts, Counts
  <2>. QED BY <1>2, <2>1
<1>8. /\ CallsInv'
      /\ Inserting' = (Inserting \ ItemOf(call[t])) \cup ItemOf(c)
      /\ Leaving' = (Leaving \ LeavingOf(call[t])) \cup LeavingOf(c)
      /\ Doomed' = (Doomed \ DoomedOf(call[t])) \cup DoomedOf(c)
  <2>1. /\ \A x \in ItemOf(c) : x \notin ItemOf(call[t]) => x \notin Inserting
        /\ \A x \in LeavingOf(c) : x \notin LeavingOf(call[t]) => x \notin Leaving
        /\ \A x \in DoomedOf(c) : x \notin DoomedOf(call[t]) => x \notin Doomed
        /\ \A x \in ItemOf(c) : (x \in held[t] /\ t \in ctxs /\ Usable(t, KeyOf[x]))'
    BY <1>5
  <2>2. \A r \in Threads : r # t =>
           held'[r] = held[r] /\ users'[r] = users[r] /\ (r \in ctxs => r \in ctxs')
    BY <1>2, <1>7
  <2>. QED BY <1>1, <1>2, <1>4, <1>5, <2>1, <2>2, Stepped
<1>9. Inserting' = Inserting /\ Leaving' = Leaving /\ Doomed' = Doomed
  BY <1>2, <1>5, <1>6, <1>8
<1>10. Books' BY <1>1, <1>2, <1>9, BooksKept
<1>11. InStore' = InStore BY <1>2, <1>9 DEF InStore
<1>12. ChainOf(c) = ChainOf(call[t]) BY <1>2, <1>5, <1>6
<1>13. Accounts' BY <1>1, <1>2, <1>4, <1>5, <1>9, <1>11, <1>12, AccountsReleased
<1>14. Flags'
  <2>1. lock' \in Threads \cup {NoOne} BY <1>4
  <2>. QED BY <1>1, <1>2, <1>4, <2>1, FlagsKept
<1>15. Contexts'
  <2>1. Resumed(c).pc = "empty" <=> Resumed(call[t]).pc = "empty" BY <1>2, <1>5, <1>6
  <2>2. \A r \in Threads : r # t => held'[r] = held[r] /\ users'[r] = users[r] BY <1>2, <1>7
  <2>3. list' \in Seq(Vals) /\ Range(list') \subseteq Range(list) BY <1>1, <1>2, BooksTypes
  <2>. QED BY <1>1, <1>2, <1>4, <1>5, <2>1, <2>2, <2>3, ContextsKept
<1>. QED BY <1>8, <1>10, <1>13, <1>14, <1>15 DEF StoreInv

-----------------------------------------------------------------------------
(* The invariant holds, and what follows from it.                          *)

LEMMA StoreInvInit ==
    ASSUME Init
    PROVE  StoreInv
<1>1. /\ lock = NoOne /\ list = <<>> /\ hash = <<>> /\ size = 0 /\ lost = 0
      /\ scavenging = FALSE /\ needs_reaping = FALSE /\ deferring = {}
      /\ alive = {} /\ ctxs = Threads
  BY DEF Init
<1>2. /\ Idle \in Calls /\ Idle.pc = "idle" /\ Resumed(Idle) = Idle
      /\ ItemOf(Idle) = {} /\ LeavingOf(Idle) = {} /\ DoomedOf(Idle) = {} /\ ChainOf(Idle) = {}
  BY OthersHaveNothing DEF Others, Idle
<1>3. call \in [Threads -> Calls] /\ \A t \in Threads : call[t] = Idle BY <1>2 DEF Init
<1>4. /\ \A t \in Threads : ItemOf(call[t]) = {} /\ LeavingOf(call[t]) = {}
                            /\ DoomedOf(call[t]) = {} /\ ChainOf(call[t]) = {}
      /\ \A t \in Threads : Resumed(call[t]).pc # "empty"
  BY <1>2, <1>3
<1>5. Inserting = {} /\ Leaving = {} /\ Doomed = {} BY <1>4 DEF Inserting, Leaving, Doomed
<1>6. Range(list) = {} BY <1>1, EmptyRange
<1>7. InStore = {} /\ Known = {} BY <1>5, <1>6 DEF InStore, Known
<1>8. CallsInv
  <2>1. Locked BY <1>2, <1>3 DEF Locked
  <2>2. Owned /\ Apart BY <1>4 DEF Owned, Apart
  <2>. QED BY <1>3, <2>1, <2>2 DEF CallsInv
<1>9. Books
  <2>1. list \in Lists
    <3>1. <<>> \in Seq(Vals) /\ DOMAIN <<>> = {} OBVIOUS
    <3>. QED BY <1>1, <3>1 DEF Lists, Distinct
  <2>2. DOMAIN hash = {} /\ hash \in [DOMAIN hash -> Vals] BY <1>1
  <2>3. SizeOf(Range(list) \ Inserting) = 0
    <3>1. Range(list) \ Inserting = {} BY <1>6
    <3>2. SizeOf({}) = 0 BY TotalEmpty DEF SizeOf, Total
    <3>. QED BY <3>1, <3>2
  <2>4. ListInv BY <1>5, <2>1 DEF ListInv
  <2>5. HashInv BY <1>7, <2>2 DEF HashInv
  <2>6. SizeInv BY <1>1, <2>3 DEF SizeInv
  <2>. QED BY <2>4, <2>5, <2>6 DEF Books
<1>10. Accounts
  <2>1. /\ held = [t \in Threads |-> {}] /\ refs = [v \in Vals |-> 0]
        /\ users = [t \in Threads |-> Images] /\ keyRefs = [i \in Images |-> 0]
        /\ imgRefs = [i \in Images |-> Cardinality(Threads)]
    BY DEF Init
  <2>2. Counts
    <3>1. \A v \in Vals : Cardinality({t \in Threads : v \in held[t]}) = 0
      <4>1. \A v \in Vals : {t \in Threads : v \in held[t]} = {} BY <2>1
      <4>. QED BY <4>1, FS_EmptySet
    <3>2. RefsAreUsers BY <1>7, <2>1, <3>1 DEF RefsAreUsers
    <3>. QED BY <2>1, <3>2 DEF Counts
  <2>3. Lives
    <3>1. Held = {} BY <2>1 DEF Held
    <3>. QED BY <1>1, <1>5, <1>7, <3>1 DEF Lives
  <2>4. ItemKeys
    <3>1. ASSUME NEW i \in Images
          PROVE  Cardinality(KeyedIn(InStore, i)) = 0 /\ Total(Chained(i), Threads) = 0
      <4>1. KeyedIn(InStore, i) = {} BY <1>7 DEF KeyedIn
      <4>2. \A t \in Threads : Chained(i)[t] = 0
        <5>1. \A t \in Threads : KeyedIn(ChainOf(call[t]), i) = {} BY <1>4 DEF KeyedIn
        <5>. QED BY <5>1, FS_EmptySet DEF Chained
      <4>3. Total(Chained(i), Threads) = 0 BY <4>2, TotalOfZeros, ValsAssumption
      <4>. QED BY <4>1, <4>3, FS_EmptySet
    <3>. QED BY <1>7, <2>1, <3>1, FS_EmptySet DEF ItemKeys
  <2>5. ImageUses
    <3>1. Cardinality(Threads) \in Nat BY ValsAssumption, FS_CardinalityType
    <3>2. \A i \in Images : UsersOf(i) = Threads BY <2>1 DEF UsersOf
    <3>. QED BY <2>1, <3>1, <3>2 DEF ImageUses
  <2>. QED BY <2>2, <2>3, <2>4, <2>5 DEF Accounts
<1>11. Flags BY <1>1, <1>6 DEF Flags, OrphansAreReaped
<1>12. Contexts BY <1>1, <1>4 DEF Contexts
<1>. QED BY <1>8, <1>9, <1>10, <1>11, <1>12 DEF StoreInv

LEMMA StoreInvStutter ==
    ASSUME StoreInv, UNCHANGED vars
    PROVE  StoreInv'
<1>1. /\ lock' = lock /\ call' = call /\ list' = list /\ hash' = hash /\ size' = size
      /\ scavenging' = scavenging /\ needs_reaping' = needs_reaping /\ deferring' = deferring
      /\ keyRefs' = keyRefs /\ imgRefs' = imgRefs /\ users' = users /\ refs' = refs
      /\ alive' = alive /\ held' = held /\ ctxs' = ctxs /\ lost' = lost
  BY DEF vars, store, flags, imgs
<1>2. CallsInv' BY <1>1 DEF StoreInv, CallsInv, Locked, Owned, Apart, Usable
<1>3. Inserting' = Inserting /\ Leaving' = Leaving /\ Doomed' = Doomed
  BY <1>1 DEF Inserting, Leaving, Doomed
<1>4. Books' BY <1>1, <1>3, BooksKept DEF StoreInv
<1>5. InStore' = InStore BY <1>1, <1>3 DEF InStore
<1>6. Counts' BY <1>1, <1>5 DEF StoreInv, Accounts, Counts, RefsAreUsers
<1>7. Lives' BY <1>1, <1>3, <1>5 DEF StoreInv, Accounts, Lives, Held
<1>8. ItemKeys' BY <1>1, <1>5 DEF StoreInv, Accounts, ItemKeys, KeyedIn, Chained, ChainOf
<1>9. ImageUses' BY <1>1 DEF StoreInv, Accounts, ImageUses, UsersOf
<1>10. Contexts' BY <1>1 DEF StoreInv, Contexts
<1>11. Flags' BY <1>1 DEF StoreInv, Flags, OrphansAreReaped, OrphanKey
<1>. QED BY <1>2, <1>4, <1>6, <1>7, <1>8, <1>9, <1>10, <1>11 DEF StoreInv, Accounts

LEMMA StoreInvStep ==
    ASSUME StoreInv, Next
    PROVE  StoreInv'
<1>1. PICK t \in Threads : Begin(t) \/ Continue(t) BY DEF Next
<1>2. CASE \E k \in Keys : Find(t, k) BY <1>2, FindStep
<1>3. CASE \E k \in Keys : RemoveItem(t, k) BY <1>3, RemoveItemStep
<1>4. CASE \E v \in Vals : StoreDuplicate(t, v) BY <1>4, StoreDuplicateStep
<1>5. CASE \E v \in Vals : StoreNew(t, v) BY <1>5, StoreNewStep
<1>6. CASE \E v \in Vals : Drop(t, v) BY <1>6, DropStep
<1>7. CASE \E i \in Images : DropImage(t, i) BY <1>7, DropImageStep
<1>8. CASE \E p \in Percents : Shrink(t, p) BY <1>8, ShrinkStep
<1>9. CASE (\E n \in Allocs : Malloc(t, n)) \/ MallocOk(t) \/ MallocFails(t) \/ While(t)
  BY <1>9, MallocStep
<1>10. CASE DeferStart(t) \/ DeferEnd(t) BY <1>10, DeferStep
<1>11. CASE Filter(t) BY <1>11, FilterStep
<1>12. CASE Leave(t) BY <1>12, LeaveStep
<1>13. CASE StoreFits(t) \/ StoreAnyway(t) BY <1>13, StoreStep
<1>14. CASE StoreReap(t) BY <1>14, StoreReapStep
<1>15. CASE EnsureSpace(t) BY <1>15, EnsureSpaceStep
<1>16. CASE SpaceUnref(t) BY <1>16, SpaceUnrefStep
<1>17. CASE ScavengeEvict(t) BY <1>17, ScavengeEvictStep
<1>18. CASE ScavengeEnd(t) BY <1>18, ScavengeEndStep
<1>19. CASE Phase(t) BY <1>19, PhaseStep
<1>20. CASE Empty(t) BY <1>20, EmptyStep
<1>21. CASE DropItem(t) BY <1>21, DropItemStep
<1>22. CASE Relock(t) BY <1>22, RelockStep
<1>. QED
  BY <1>1, <1>2, <1>3, <1>4, <1>5, <1>6, <1>7, <1>8, <1>9, <1>10, <1>11, <1>12, <1>13, <1>14,
     <1>15, <1>16, <1>17, <1>18, <1>19, <1>20, <1>21, <1>22
  DEF Begin, Continue

\* Whatever the threads do in whatever order, store, counts, flags and the
\* calls in progress fit together: store.c under FZ_LOCK_ALLOC.
THEOREM StoreIsSound == Spec => []StoreInv
<1>1. StoreInv /\ [Next]_vars => StoreInv' BY StoreInvStep, StoreInvStutter
<1>. QED BY <1>1, StoreInvInit, PTL DEF Spec

\* The variables keep their types: no count and no total gets below zero.
THEOREM StoreTyped == Spec => []TypeOK
<1>1. ASSUME StoreInv PROVE TypeOK
  <2>1. CallsInv /\ Books /\ Accounts /\ Flags BY <1>1 DEF StoreInv
  <2>2. list \in Seq(Vals) /\ size \in Nat BY <2>1, BooksTypes
  <2>3. DOMAIN hash \subseteq Hashed /\ hash \in [DOMAIN hash -> Vals] /\ lost \in Nat
    BY <2>1 DEF Books, HashInv, SizeInv
  <2>4. /\ refs \in [Vals -> Nat] /\ held \in [Threads -> SUBSET Vals]
        /\ keyRefs \in [Images -> Nat] /\ imgRefs \in [Images -> Nat]
        /\ users \in [Threads -> SUBSET Images]
    BY <2>1 DEF Accounts, Counts, ItemKeys, ImageUses
  <2>5. alive \subseteq Vals
    <3>1. Held \subseteq Vals BY <2>4 DEF Held
    <3>2. \A t \in Threads : DoomedOf(call[t]) \subseteq Vals BY <2>1, ViewTypes DEF CallsInv
    <3>3. Doomed \subseteq Vals BY <3>2 DEF Doomed
    <3>. QED BY <2>1, <3>1, <3>3 DEF Accounts, Lives
  <2>. QED BY <2>1, <2>2, <2>3, <2>4, <2>5 DEF TypeOK, Flags
<1>. QED BY <1>1, StoreIsSound, PTL

\* A value's count is the number of its users, plus one for the store.
THEOREM CountsAreRight == Spec => []RefsAreUsers
<1>1. StoreInv => RefsAreUsers BY DEF StoreInv, Accounts, Counts
<1>. QED BY <1>1, StoreIsSound, PTL

\* fz_drop_storable, evict and do_reap destroy nothing that list, hash table
\* or a thread still have, and nothing twice.
THEOREM NoUseAfterFree == Spec => []NothingReachableDestroyed
<1>1. ASSUME StoreInv PROVE NothingReachableDestroyed
  <2>1. /\ alive = Held \cup InStore \cup Doomed /\ Doomed \cap (Held \cup InStore) = {}
        /\ \A k \in DOMAIN hash : hash[k] \in Known
    BY <1>1 DEF StoreInv, Accounts, Lives, Books, HashInv
  <2>2. Known \subseteq InStore BY DEF Known, InStore
  <2>3. \A s, t \in Threads : s # t => DoomedOf(call[s]) \cap DoomedOf(call[t]) = {}
    BY <1>1 DEF StoreInv, CallsInv, Apart
  <2>4. {hash[k] : k \in DOMAIN hash} \subseteq InStore BY <2>1, <2>2
  <2>5. (Held \cup InStore) \cup {hash[k] : k \in DOMAIN hash} \subseteq alive \ Doomed
    BY <2>1, <2>4
  <2>6. Doomed \subseteq alive BY <2>1
  <2>. QED BY <2>3, <2>5, <2>6 DEF NothingReachableDestroyed, Held
<1>. QED BY <1>1, StoreIsSound, PTL

\* List, hash table and total of fz_store tell the same story.
THEOREM BooksAreRight == Spec => []BooksAgree
<1>1. ASSUME StoreInv PROVE BooksAgree
  <2>1. Books /\ CallsInv BY <1>1 DEF StoreInv
  <2>2. list \in Seq(Vals) /\ Distinct(list) BY <2>1, BooksTypes
  <2>3. Len(list) = Cardinality(Range(list)) BY <2>2, DistinctLength
  <2>4. HashInv /\ SizeInv BY <2>1 DEF Books
  <2>. QED BY <2>3, <2>4 DEF BooksAgree, HashInv, SizeInv, Known
<1>. QED BY <1>1, StoreIsSound, PTL

\* What deferring reaping put off is never forgotten.
THEOREM NoOrphanIsForgotten == Spec => []OrphansAreReaped
<1>1. StoreInv => OrphansAreReaped BY DEF StoreInv, Flags
<1>. QED BY <1>1, StoreIsSound, PTL

\* The last fz_drop_store_context leaves no value, no entry and no image.
THEOREM StoreEndsEmpty == Spec => []NothingLeft
<1>1. ASSUME StoreInv PROVE NothingLeft
  <2>. SUFFICES ASSUME ctxs = {}, \A t \in Threads : call[t] = Idle
                PROVE  alive = {} /\ hash = <<>> /\ \A i \in Images : imgRefs[i] = 0
    BY DEF NothingLeft
  <2>1. /\ Idle.pc = "idle" /\ Resumed(Idle) = Idle
        /\ ItemOf(Idle) = {} /\ LeavingOf(Idle) = {} /\ DoomedOf(Idle) = {} /\ ChainOf(Idle) = {}
    BY OthersHaveNothing DEF Others, Idle
  <2>2. Inserting = {} /\ Leaving = {} /\ Doomed = {} BY <2>1 DEF Inserting, Leaving, Doomed
  <2>3. list = <<>> /\ \A t \in Threads : held[t] = {} /\ users[t] = {}
    BY <1>1, <2>1 DEF StoreInv, Contexts
  <2>4. InStore = {} /\ Known = {} BY <2>2, <2>3, EmptyRange DEF InStore, Known
  <2>5. Held = {} BY <2>3 DEF Held
  <2>6. alive = {} BY <1>1, <2>2, <2>4, <2>5 DEF StoreInv, Accounts, Lives
  <2>7. hash = <<>>
    <3>1. DOMAIN hash = {} /\ hash \in [DOMAIN hash -> Vals]
      BY <1>1, <2>4 DEF StoreInv, Books, HashInv
    <3>. QED BY <3>1
  <2>8. ASSUME NEW i \in Images PROVE imgRefs[i] = 0
    <3>1. UsersOf(i) = {} BY <2>3 DEF UsersOf
    <3>2. KeyedIn(InStore, i) = {} BY <2>4 DEF KeyedIn
    <3>3. \A t \in Threads : Chained(i)[t] = 0
      <4>1. \A t \in Threads : KeyedIn(ChainOf(call[t]), i) = {} BY <2>1 DEF KeyedIn
      <4>. QED BY <4>1, FS_EmptySet DEF Chained
    <3>4. Total(Chained(i), Threads) = 0 BY <3>3, TotalOfZeros, ValsAssumption
    <3>5. keyRefs[i] = Cardinality(KeyedIn(InStore, i)) + Total(Chained(i), Threads)
      BY <1>1 DEF StoreInv, Accounts, ItemKeys
    <3>6. imgRefs[i] = keyRefs[i] + Cardinality(UsersOf(i))
      BY <1>1 DEF StoreInv, Accounts, ImageUses
    <3>. QED BY <3>1, <3>2, <3>4, <3>5, <3>6, FS_EmptySet
  <2>. QED BY <2>6, <2>7, <2>8
<1>. QED BY <1>1, StoreIsSound, PTL
=============================================================================
