------------------------------ MODULE MCCaches ------------------------------
(***************************************************************************)
(* Caches for TLC.  Pages: three pages, one of them at two zooms.  Glyphs: *)
(* two chains, a Type 3 glyph in each, one rendering too large to cache.   *)
(* Hash table: six keys, which fill the smallest table past the point of   *)
(* growth, with searches that collide and that wrap round.                 *)
(***************************************************************************)
EXTENDS Caches, TLC

CONSTANTS k1, k2, k3, k4, g1, g2, g3, g4, h1, h2, h3, h4, h5, h6, t1, t2

MCPageOf == k1 :> 0 @@ k2 :> 0 @@ k3 :> 1 @@ k4 :> 2

MCBucket == g1 :> 1 @@ g2 :> 1 @@ g3 :> 2 @@ g4 :> 2

MCBytes == g1 :> 1 @@ g2 :> 2 @@ g3 :> 2 @@ g4 :> 4

MCHash == h1 :> 4 @@ h2 :> 16 @@ h3 :> 5 @@ h4 :> 11 @@ h5 :> 0 @@ h6 :> 7
=============================================================================
