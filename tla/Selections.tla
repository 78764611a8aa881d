---------------------------- MODULE Selections ----------------------------
(***************************************************************************)
(* Removing entries from a queue or a linked list, which the caches do in  *)
(* place.                                                                  *)
(***************************************************************************)
EXTENDS Naturals, Sequences, FiniteSetsExt

\* The entries that are not in K, in their order.
Without(s, K) ==
    LET keep[i \in 0 .. Len(s)] ==
            IF i = 0 THEN <<>>
            ELSE IF s[i] \in K THEN keep[i - 1]
            ELSE Append(keep[i - 1], s[i])
    IN  keep[Len(s)]

\* The entries that are.
Within(s, K) == Without(s, Range(s) \ K)
=============================================================================
