----------------------------- MODULE HashTable -----------------------------
(***************************************************************************)
(* The hash table of the resource store (source/fitz/hash.c): open         *)
(* addressing with linear probing, removal by moving entries back into     *)
(* the hole, and growth that lets go of the allocation lock while it asks  *)
(* for memory.  A value is identified with its key.  Every action is what  *)
(* happens between taking the lock and letting go of it.                   *)
(***************************************************************************)
EXTENDS Naturals, FiniteSets, FiniteSetsExt

CONSTANTS
    Threads,
    Keys,
    Hash,          \* the hash of a key
    Filters,       \* the sets of keys that fz_hash_filter is asked to remove
    InitialSize,
    NoKey          \* what a free entry holds

KeysAssumption == NoKey \notin Keys /\ Hash \in [Keys -> Nat]
\* Smaller tables may fill up before they are made to grow.
SizeAssumption == InitialSize \in Nat /\ InitialSize >= 6
FiltersAssumption == \A K \in Filters : K \subseteq Keys /\ IsFiniteSet(K)
\* Threads that are overtaken while they grow the table insert above the
\* limit.  The table that threads share starts with 4096 entries (store.c).
ThreadsAssumption ==
    /\ IsFiniteSet(Threads)
    /\ Cardinality(Threads) < 2 * InitialSize - (2 * InitialSize * 8) \div 10

VARIABLES
    ents,    \* the entries, from 0
    load,
    call,    \* what each thread is inserting
    stored   \* history: the keys inserted and not removed since

vars == <<ents, load, call, stored>>

Idle == [pc |-> "idle"]

SizeOf(e) == Cardinality(DOMAIN e)

size == SizeOf(ents)

Empty(n) == [i \in 0 .. n - 1 |-> NoKey]

Init ==
    /\ ents = Empty(InitialSize) /\ load = 0
    /\ call = [t \in Threads |-> Idle]
    /\ stored = {}

\* The n-th entry that is looked at for a key.
Probe(e, k, n) == (Hash[k] + n) % SizeOf(e)

\* The entry at which the search for a key stops.
Stop(e, k) ==
    LET stops == {n \in 0 .. SizeOf(e) - 1 : e[Probe(e, k, n)] \in {k, NoKey}}
    IN  Probe(e, k, Min(stops))

\* fz_hash_find.
Found(e, k) == e[Stop(e, k)] = k

\* do_hash_insert; a key that is there already stays where it is.
Inserted(e, k) == [e EXCEPT ![Stop(e, k)] = k]

\* The entries in the order of the old table, inserted into one of size n.
Rehashed(e, n) ==
    LET F[i \in 0 .. SizeOf(e)] ==
            IF i = 0 THEN Empty(n)
            ELSE IF e[i - 1] = NoKey THEN F[i - 1]
            ELSE Inserted(F[i - 1], e[i - 1])
    IN  F[SizeOf(e)]

\* Whether an entry at look whose search starts at code may move to hole.
\* Mutant: a search that wraps round is forgotten.
MayMoveUnwrapped(code, hole, look) ==
    \/ code <= hole /\ hole < look
    \/ look < code /\ code <= hole

MayMove(code, hole, look) ==
    \/ code <= hole /\ hole < look
    \/ look < code /\ code <= hole
    \/ hole < look /\ look < code

\* do_removal: the entries behind the hole, up to the next free one, move
\* into it when they may, each leaving a new hole.
Removed(e, first) ==
    LET n == SizeOf(e)
        Look(i) == (first + i) % n
        F[i \in 0 .. n - 1] ==
            IF i = 0 THEN [ents |-> [e EXCEPT ![first] = NoKey],
                           hole |-> first, done |-> FALSE]
            ELSE LET s == F[i - 1] IN
                 IF s.done \/ s.ents[Look(i)] = NoKey THEN [s EXCEPT !.done = TRUE]
                 ELSE IF MayMove(Hash[s.ents[Look(i)]] % n, s.hole, Look(i))
                 THEN [s EXCEPT !.ents[s.hole] = s.ents[Look(i)],
                                !.ents[Look(i)] = NoKey, !.hole = Look(i)]
                 ELSE s
    IN  F[n - 1].ents

\* fz_hash_filter: the first entry that is picked is removed, and the scan
\* starts again.
Filtered(e, K) ==
    LET Picked(f) == {i \in DOMAIN f : f[i] \in K}
        F[n \in 0 .. Cardinality(K)] ==
            IF n = 0 THEN e
            ELSE IF Picked(F[n - 1]) = {} THEN F[n - 1]
            ELSE Removed(F[n - 1], Min(Picked(F[n - 1])))
    IN  F[Cardinality(K)]

Content(e) == {e[i] : i \in DOMAIN e} \ {NoKey}

-----------------------------------------------------------------------------
(* Operations.                                                             *)

Put(k) ==
    /\ ents' = Inserted(ents, k)
    /\ load' = IF Found(ents, k) THEN load ELSE load + 1
    /\ stored' = stored \cup {k}

Crowded == load > (size * 8) \div 10

\* fz_hash_insert when there is room.
Insert(t, k) ==
    /\ call[t] = Idle /\ ~ Crowded
    /\ Put(k)
    /\ UNCHANGED call

\* fz_resize_hash lets go of the lock to allocate.
StartGrowing(t, k) ==
    /\ call[t] = Idle /\ Crowded
    /\ call' = [call EXCEPT ![t] = [pc |-> "grow", key |-> k, newsize |-> 2 * size]]
    /\ UNCHANGED <<ents, load, stored>>

\* Mutant: the count goes on from what it was.
GrowCounting(t) ==
    /\ call[t].pc = "grow" /\ size < call[t].newsize
    /\ ents' = Rehashed(ents, call[t].newsize)
    /\ load' = load + Cardinality(Content(ents'))
    /\ call' = [call EXCEPT ![t] = [pc |-> "insert", key |-> call[t].key]]
    /\ UNCHANGED stored

\* With the lock again, the entries move to the new table; the lock is let
\* go of once more to free the old one.
Grow(t) ==
    /\ call[t].pc = "grow" /\ size < call[t].newsize
    /\ ents' = Rehashed(ents, call[t].newsize)
    /\ load' = Cardinality(Content(ents'))
    /\ call' = [call EXCEPT ![t] = [pc |-> "insert", key |-> call[t].key]]
    /\ UNCHANGED stored

\* Another thread was faster: the new table is freed, without the lock.
GrownMeanwhile(t) ==
    /\ call[t].pc = "grow" /\ size >= call[t].newsize
    /\ call' = [call EXCEPT ![t] = [pc |-> "insert", key |-> call[t].key]]
    /\ UNCHANGED <<ents, load, stored>>

\* No memory: the insertion throws.
GrowFails(t) ==
    /\ call[t].pc = "grow" /\ size < call[t].newsize
    /\ call' = [call EXCEPT ![t] = Idle]
    /\ UNCHANGED <<ents, load, stored>>

\* do_hash_insert after growing, whatever has been inserted meanwhile.
FinishInsert(t) ==
    /\ call[t].pc = "insert"
    /\ Put(call[t].key)
    /\ call' = [call EXCEPT ![t] = Idle]

Remove(t, k) ==
    /\ call[t] = Idle /\ Found(ents, k)
    /\ ents' = Removed(ents, Stop(ents, k))
    /\ load' = load - 1
    /\ stored' = stored \ {k}
    /\ UNCHANGED call

Filter(t, K) ==
    /\ call[t] = Idle /\ K \cap Content(ents) # {}
    /\ ents' = Filtered(ents, K)
    /\ load' = load - Cardinality(K \cap Content(ents))
    /\ stored' = stored \ K
    /\ UNCHANGED call

Next ==
    \E t \in Threads :
        \/ \E k \in Keys : Insert(t, k) \/ StartGrowing(t, k) \/ Remove(t, k)
        \/ \E K \in Filters : Filter(t, K)
        \/ Grow(t) \/ GrownMeanwhile(t) \/ GrowFails(t) \/ FinishInsert(t)

Spec == Init /\ [][Next]_vars

-----------------------------------------------------------------------------
(* Properties.                                                             *)

\* The variables have their types.
TypeOK ==
    /\ ents \in [0 .. size - 1 -> Keys \cup {NoKey}]
    /\ load \in Nat
    /\ \A t \in Threads : call[t] = Idle \/ call[t].key \in Keys

\* A search ends, for some entry is always free: the load counts the
\* entries through growth, removals and insertions that were overtaken.
SearchesEnd == load = Cardinality(Content(ents)) /\ load < size

\* A search finds exactly the keys that were inserted and not removed,
\* whatever was moved back into holes and into larger tables meanwhile, and
\* none is in the table twice.
FindsWhatIsStored ==
    /\ \A k \in Keys : Found(ents, k) <=> k \in stored
    /\ Content(ents) = stored
    /\ Cardinality({i \in DOMAIN ents : ents[i] # NoKey}) = Cardinality(stored)
=============================================================================
