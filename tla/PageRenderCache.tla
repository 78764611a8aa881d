-------------------------- MODULE PageRenderCache --------------------------
(***************************************************************************)
(* The cache of rendered pages of a session: document_core's               *)
(* PageRenderCache.  A map holds the pixels, a queue the order in which    *)
(* they were last used, a counter their bytes; the three are kept by hand. *)
(* A key stands for a page at one zoom, viewport and revision, a value for *)
(* its number of bytes.                                                    *)
(***************************************************************************)
EXTENDS Naturals, Sequences, FiniteSets, Selections

CONSTANTS
    Keys,
    PageOf,       \* the page a key is a rendering of
    Sizes,        \* the sizes a rendering can have
    MaxEntries,
    MaxBytes

SizesAssumption == Sizes \subseteq Nat \ {0}
LimitsAssumption == MaxEntries \in Nat /\ MaxBytes \in Nat

VARIABLES
    map,      \* the size of each cached rendering
    order,    \* the keys, least recently used first
    bytes,
    uses      \* history: every key ever used, by its last use

vars == <<map, order, bytes, uses>>

TypeOK ==
    /\ DOMAIN map \subseteq Keys /\ map \in [DOMAIN map -> Sizes]
    /\ order \in Seq(Keys)
    /\ bytes \in Nat
    /\ uses \in Seq(Keys)

Init == map = <<>> /\ order = <<>> /\ bytes = 0 /\ uses = <<>>

\* Mutant: the operands are swapped.
MinusSwapped(m, n) == n - m

\* saturating_sub.
Minus(m, n) == IF m >= n THEN m - n ELSE 0

TotalOf(m, K) == MapThenSumSet(LAMBDA k : m[k], K \cap DOMAIN m)

Dropped(m, K) == [k \in DOMAIN m \ K |-> m[k]]

\* Mutant: a hit does not count as a use.
TouchNothing(k) == UNCHANGED order

Touch(k) == order' = Append(Without(order, {k}), k)

\* get: a hit moves the key to the back of the queue.
Get(k) ==
    /\ k \in DOMAIN map
    /\ Touch(k)
    /\ uses' = Append(Without(uses, {k}), k)
    /\ UNCHANGED <<map, bytes>>

\* evict_to_fit takes keys from the front of the queue until both limits
\* hold or the queue is empty.
EvictToFit(m, q, b) ==
    LET Oldest(n) == {q[j] : j \in 1 .. n}
        fits == {n \in 0 .. Len(q) :
                    /\ Cardinality(DOMAIN m \ Oldest(n)) <= MaxEntries
                    /\ Minus(b, TotalOf(m, Oldest(n))) <= MaxBytes}
        n == IF fits = {} THEN Len(q) ELSE Min(fits)
    IN  /\ map' = Dropped(m, Oldest(n))
        /\ order' = SubSeq(q, n + 1, Len(q))
        /\ bytes' = Minus(b, TotalOf(m, Oldest(n)))

\* Mutants: the bytes of the entry that is replaced stay counted; its place
\* in the queue stays.
InsertCountingTwice(k, size) ==
    /\ EvictToFit([j \in DOMAIN map \cup {k} |-> IF j = k THEN size ELSE map[j]],
                  Append(Without(order, {k}), k), bytes + size)
    /\ uses' = Append(Without(uses, {k}), k)

\* insert replaces what the key held before.
Insert(k, size) ==
    /\ EvictToFit([j \in DOMAIN map \cup {k} |-> IF j = k THEN size ELSE map[j]],
                  Append(Without(order, {k}), k),
                  Minus(bytes, TotalOf(map, {k})) + size)
    /\ uses' = Append(Without(uses, {k}), k)

\* Every rendering of a page.
InvalidatePage(p) ==
    LET K == {k \in DOMAIN map : PageOf[k] = p}
    IN  /\ map' = Dropped(map, K)
        /\ bytes' = Minus(bytes, TotalOf(map, K))
        /\ order' = Without(order, K)
        /\ UNCHANGED uses

Clear ==
    /\ map' = <<>> /\ order' = <<>> /\ bytes' = 0
    /\ UNCHANGED uses

Next ==
    \/ \E k \in Keys : Get(k) \/ \E size \in Sizes : Insert(k, size)
    \/ \E p \in {PageOf[k] : k \in Keys} : InvalidatePage(p)
    \/ Clear

Spec == Init /\ [][Next]_vars

-----------------------------------------------------------------------------
(***************************************************************************)
(* Properties.                                                             *)
(***************************************************************************)

\* The three records of what is cached agree, so that nothing is kept that
\* could not be evicted and no byte is counted that is not held; the
\* saturating subtractions never hide a difference.
Agreement ==
    /\ Range(order) = DOMAIN map
    /\ Len(order) = Cardinality(DOMAIN map)
    /\ bytes = TotalOf(map, DOMAIN map)

\* Neither limit is ever exceeded between two calls.
WithinLimits == Cardinality(DOMAIN map) <= MaxEntries /\ bytes <= MaxBytes

\* The queue is the order in which the cached keys were last used, through
\* hits, replacements, evictions and invalidations.
QueueIsRecency == order = Within(uses, DOMAIN map)

\* An insertion evicts those keys whose last use is longest ago, in spite of
\* the hits, replacements and invalidations since they were inserted, and no
\* more of them than the limits demand.
LastUse(k) == CHOOSE j \in DOMAIN uses : uses[j] = k

EvictsLeastRecent ==
    [][\A k \in Keys : (k \notin DOMAIN map /\ k \in DOMAIN map') =>
          LET kept == DOMAIN map \cap DOMAIN map'
          IN  \A gone \in DOMAIN map \ kept :
                 /\ \A j \in kept : LastUse(gone) < LastUse(j)
                 /\ LET room == kept \cup {j \in DOMAIN map : LastUse(j) >= LastUse(gone)}
                    IN  \/ Cardinality(room) + 1 > MaxEntries
                        \/ TotalOf(map, room) + map'[k] > MaxBytes]_vars
=============================================================================
