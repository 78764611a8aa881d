------------------------------- MODULE Caches -------------------------------
(***************************************************************************)
(* The three lookup structures that keep several records of the same       *)
(* content in step, side by side: the rendered pages of a session, the     *)
(* glyphs and the hash table of the rendering engine.  They do not         *)
(* interact; a behaviour uses one of them.                                 *)
(***************************************************************************)
EXTENDS Integers, Sequences, FiniteSets

CONSTANTS
    PageKeys, PageOf, Sizes, MaxEntries, MaxBytes,                  \* pages
    GlyphKeys, Bucket, Bytes, Type3, Uncached, MaxTotal, MaxGlyphs, \* glyphs
    TableKeys, Hash, Filters, InitialSize,                          \* hash table
    Threads, NoKey

VARIABLES
    used,                                                   \* which of the three
    map, order, bytes, uses,                                \* pages
    glyphs, refs, lru, chain, total, held, drawing, ctxs,   \* glyphs
    ents, load, call, stored                                \* hash table

Pages  == INSTANCE PageRenderCache WITH Keys <- PageKeys
Glyphs == INSTANCE GlyphCache WITH Keys <- GlyphKeys
Table  == INSTANCE HashTable WITH Keys <- TableKeys

ASSUME PagesAssumption  == Pages!SizesAssumption /\ Pages!LimitsAssumption
ASSUME GlyphsAssumption == Glyphs!KeysAssumption
ASSUME TableAssumption  == /\ Table!KeysAssumption /\ Table!SizeAssumption
                           /\ Table!FiltersAssumption /\ Table!ThreadsAssumption

pages  == <<map, order, bytes, uses>>
images == <<glyphs, refs, lru, chain, total, held, drawing, ctxs>>
table  == <<ents, load, call, stored>>
vars   == <<used, pages, images, table>>

Init ==
    /\ used \in {"pages", "glyphs", "table"}
    /\ Pages!Init /\ Glyphs!Init /\ Table!Init

Next ==
    /\ \/ /\ used = "pages" /\ Pages!Next
          /\ UNCHANGED <<images, table>>
       \/ /\ used = "glyphs" /\ Glyphs!Next
          /\ UNCHANGED <<pages, table>>
       \/ /\ used = "table" /\ Table!Next
          /\ UNCHANGED <<pages, images>>
    /\ UNCHANGED used

Spec == Init /\ [][Next]_vars

-----------------------------------------------------------------------------
(* The properties of the three modules under names of their own.           *)

\* The variables of the three have their types.
TypeOK == Pages!TypeOK /\ Glyphs!TypeOK /\ Table!TypeOK

\* Pages: map, queue and counter agree, neither limit is exceeded between
\* two calls, and the queue is the order of last use.
PagesAreCoherent == Pages!Agreement /\ Pages!WithinLimits /\ Pages!QueueIsRecency

\* Pages: an insertion evicts those used longest ago, and no more of them
\* than the limits demand.
PagesEvictLeastRecent == Pages!EvictsLeastRecent

\* Glyphs: list, chains and total tell the same story, no key is cached
\* twice, and the total is within the limit when the lock is free.
GlyphsAreCoherent == Glyphs!CacheIsCoherent /\ Glyphs!WithinLimit

\* Glyphs: a glyph is freed after its last user and its eviction, not before.
GlyphsFreedAfterLastUse == Glyphs!FreedAfterLastUse

\* Hash table: a free entry always ends a search.
TableSearchesEnd == Table!SearchesEnd

\* Hash table: a search finds what was inserted and not removed.
TableFindsWhatIsStored == Table!FindsWhatIsStored
=============================================================================
