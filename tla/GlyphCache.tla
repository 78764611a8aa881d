----------------------------- MODULE GlyphCache -----------------------------
(***************************************************************************)
(* The cache of rendered glyphs that the threads of a context share        *)
(* (source/fitz/draw-glyph.c).  Entries are in one of the chains of a hash *)
(* table and in a list, most recently used first.  The lock of the cache   *)
(* is held throughout a call, except while a Type 3 glyph is drawn: its    *)
(* content may need the cache itself.  Every action is what happens        *)
(* between taking the lock and letting go of it.                           *)
(***************************************************************************)
EXTENDS Integers, Sequences, FiniteSets, Selections

CONSTANTS
    Threads,
    Keys,       \* a glyph of a font under a matrix
    Bucket,     \* the chain a key belongs to
    Bytes,      \* the size of the rendering of a key
    Type3,      \* the keys of Type 3 fonts
    Uncached,   \* the keys whose renderings are too large for the cache
    MaxTotal,   \* MAX_CACHE_SIZE
    MaxGlyphs,  \* bound on the renderings in memory
    NoKey

KeysAssumption ==
    /\ Bytes \in [Keys -> Nat] /\ NoKey \notin Keys
    /\ Type3 \subseteq Keys /\ Uncached \subseteq Keys
    /\ MaxTotal \in Nat /\ MaxGlyphs \in Nat

VARIABLES
    glyphs,     \* the key each glyph in memory is a rendering of
    refs,       \* its references
    lru,        \* the cached glyphs, most recently used first
    chain,      \* and by hash
    total,
    held,       \* the glyphs each thread has a reference to
    drawing,    \* the Type 3 glyph a thread is drawing
    ctxs        \* the threads that still have a context

cache == <<lru, chain, total>>
vars  == <<glyphs, refs, cache, held, drawing, ctxs>>

Pool == 1 .. MaxGlyphs
Chains == {Bucket[k] : k \in Keys}

Init ==
    /\ glyphs = [g \in Pool |-> NoKey] /\ refs = [g \in Pool |-> 0]
    /\ lru = <<>> /\ chain = [b \in Chains |-> <<>>] /\ total = 0
    /\ held = [t \in Threads |-> {}]
    /\ drawing = [t \in Threads |-> NoKey]
    /\ ctxs = Threads

-----------------------------------------------------------------------------
(* The two lists.                                                          *)

\* The entry the search of a chain ends at, if any.
Cached(k) ==
    {chain[Bucket[k]][i] : i \in {j \in DOMAIN chain[Bucket[k]] :
        /\ glyphs[chain[Bucket[k]][j]] = k
        /\ \A h \in 1 .. j - 1 : glyphs[chain[Bucket[k]][h]] # k}}

\* Glyphs lose a reference each; those without any are freed.
Release(G) ==
    /\ refs' = [g \in Pool |-> IF g \in G THEN refs[g] - 1 ELSE refs[g]]
    /\ glyphs' = [g \in Pool |-> IF g \in G /\ refs[g] = 1 THEN NoKey ELSE glyphs[g]]

\* The bytes of cached glyphs.
BytesOf(G, of) == SumFunctionOnSet([g \in G |-> Bytes[of[g]]], G)

\* A new glyph is put first in both lists and counted; then the least
\* recently used go until the total fits, the new one too if it must.
Encache(t, g, k) ==
    LET of    == [glyphs EXCEPT ![g] = k]
        q     == <<g>> \o lru
        Gone(n) == Range(SubSeq(q, n + 1, Len(q)))
        Fits(n) == total + Bytes[k] - BytesOf(Gone(n), of) <= MaxTotal
        n     == Max({i \in 0 .. Len(q) : i = 0 \/ Fits(i)})
        gone  == Gone(n)
        count == [refs EXCEPT ![g] = 2]
    IN  /\ lru' = SubSeq(q, 1, n)
        /\ chain' = [b \in Chains |->
                        Without(IF b = Bucket[k] THEN <<g>> \o chain[b] ELSE chain[b], gone)]
        /\ total' = total + Bytes[k] - BytesOf(gone, of)
        /\ refs' = [h \in Pool |-> IF h \in gone THEN count[h] - 1 ELSE count[h]]
        /\ glyphs' = [h \in Pool |-> IF h \in gone /\ count[h] = 1 THEN NoKey ELSE of[h]]
        /\ held' = [held EXCEPT ![t] = @ \cup {g}]

\* The glyph is for the caller alone.
Keep(t, g, k) ==
    /\ glyphs' = [glyphs EXCEPT ![g] = k]
    /\ refs' = [refs EXCEPT ![g] = 1]
    /\ held' = [held EXCEPT ![t] = @ \cup {g}]
    /\ UNCHANGED cache

\* Memory for a new rendering.
Fresh == {g \in Pool : glyphs[g] = NoKey /\ \A h \in 1 .. g - 1 : glyphs[h] # NoKey}

-----------------------------------------------------------------------------
(* fz_render_glyph.                                                        *)

Calls(t, k) == t \in ctxs /\ drawing[t] = NoKey /\ \A g \in held[t] : glyphs[g] # k

\* Mutant: the caller gets the glyph without a reference of its own.
TakeUncounted(t, g) ==
    /\ lru' = <<g>> \o Without(lru, {g})
    /\ held' = [held EXCEPT ![t] = @ \cup {g}]
    /\ UNCHANGED <<glyphs, refs, chain, total>>

\* move_to_front and fz_keep_glyph.
Take(t, g) ==
    /\ lru' = <<g>> \o Without(lru, {g})
    /\ refs' = [refs EXCEPT ![g] = @ + 1]
    /\ held' = [held EXCEPT ![t] = @ \cup {g}]
    /\ UNCHANGED <<glyphs, chain, total>>

Hit(t, k) ==
    /\ Calls(t, k)
    /\ \E g \in Cached(k) : Take(t, g)
    /\ UNCHANGED <<drawing, ctxs>>

\* A rendering that fails leaves everything as it was; one for which there
\* is no memory for an entry is returned and not cached.
RenderFont(t, k) ==
    /\ Calls(t, k) /\ Cached(k) = {} /\ k \notin Type3
    /\ \E g \in Fresh :
          \/ k \notin Uncached /\ Encache(t, g, k)
          \/ Keep(t, g, k)
    /\ UNCHANGED <<drawing, ctxs>>

\* The lock is let go of to draw a Type 3 glyph.
StartDrawing(t, k) ==
    /\ Calls(t, k) /\ Cached(k) = {} /\ k \in Type3
    /\ drawing' = [drawing EXCEPT ![t] = k]
    /\ UNCHANGED <<glyphs, refs, cache, held, ctxs>>

DrawingFails(t) ==
    /\ drawing[t] # NoKey
    /\ drawing' = [drawing EXCEPT ![t] = NoKey]
    /\ UNCHANGED <<glyphs, refs, cache, held, ctxs>>

\* Mutant: it is not looked for again.
DrawnBlindly(t) ==
    /\ drawing[t] # NoKey
    /\ LET k == drawing[t]
       IN  \E g \in Fresh :
              \/ k \notin Uncached /\ Encache(t, g, k)
              \/ Keep(t, g, k)
    /\ drawing' = [drawing EXCEPT ![t] = NoKey]
    /\ UNCHANGED ctxs

\* With the lock again: what another thread has cached meanwhile is used
\* and the own rendering dropped.
Drawn(t) ==
    /\ drawing[t] # NoKey
    /\ LET k == drawing[t]
       IN  \/ k \notin Uncached /\ \E g \in Cached(k) : Take(t, g)
           \/ /\ k \in Uncached \/ Cached(k) = {}
              /\ \E g \in Fresh :
                    \/ k \notin Uncached /\ Encache(t, g, k)
                    \/ Keep(t, g, k)
    /\ drawing' = [drawing EXCEPT ![t] = NoKey]
    /\ UNCHANGED ctxs

\* fz_drop_glyph when it has been painted.
Painted(t, g) ==
    /\ g \in held[t] /\ drawing[t] = NoKey
    /\ Release({g})
    /\ held' = [held EXCEPT ![t] = @ \ {g}]
    /\ UNCHANGED <<cache, drawing, ctxs>>

\* do_purge: every chain is emptied.
Purged ==
    /\ lru' = <<>> /\ chain' = [b \in Chains |-> <<>>] /\ total' = 0
    /\ Release(UNION {Range(chain[b]) : b \in Chains})

Purge(t) ==
    /\ t \in ctxs /\ drawing[t] = NoKey /\ lru # <<>>
    /\ Purged
    /\ UNCHANGED <<held, drawing, ctxs>>

\* fz_drop_glyph_cache_context: the last one purges.
Leave(t) ==
    /\ t \in ctxs /\ drawing[t] = NoKey /\ held[t] = {}
    /\ ctxs' = ctxs \ {t}
    /\ IF ctxs' = {} THEN Purged ELSE UNCHANGED <<glyphs, refs, cache>>
    /\ UNCHANGED <<held, drawing>>

Next ==
    \E t \in Threads :
        \/ \E k \in Keys : Hit(t, k) \/ RenderFont(t, k) \/ StartDrawing(t, k)
        \/ DrawingFails(t) \/ Drawn(t) \/ Purge(t) \/ Leave(t)
        \/ \E g \in Pool : Painted(t, g)

Spec == Init /\ [][Next]_vars

-----------------------------------------------------------------------------
(* Properties.                                                             *)

\* The variables have their types.
TypeOK ==
    /\ glyphs \in [Pool -> Keys \cup {NoKey}] /\ refs \in [Pool -> Nat]
    /\ lru \in Seq(Pool) /\ chain \in [Chains -> Seq(Pool)] /\ total \in Nat
    /\ held \in [Threads -> SUBSET Pool]
    /\ drawing \in [Threads -> Type3 \cup {NoKey}] /\ ctxs \subseteq Threads

\* Lists and total tell the same story: every entry is once in the list and
\* once in the chain of its key, no key is cached twice, and the total is
\* the bytes of what is cached, which fit.
CacheIsCoherent ==
    /\ \A b \in Chains : Range(chain[b]) = {g \in Range(lru) : Bucket[glyphs[g]] = b}
    /\ Len(lru) = Cardinality({glyphs[g] : g \in Range(lru)})
    /\ total = BytesOf(Range(lru), glyphs)

\* The cache is never over its limit when the lock is free.
WithinLimit == total <= MaxTotal

\* A glyph has a reference for each thread that paints with it and one for
\* the cache, so it is freed after the last of them and not before.
FreedAfterLastUse ==
    \A g \in Pool :
        /\ refs[g] = Cardinality({t \in Threads : g \in held[t]})
                     + (IF g \in Range(lru) THEN 1 ELSE 0)
        /\ glyphs[g] = NoKey <=> refs[g] = 0
=============================================================================
