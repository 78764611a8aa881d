---------------------------- MODULE DurableFile ----------------------------
(***************************************************************************)
(* What a caller of a save may rely on, without saying how it is done.     *)
(*                                                                         *)
(* The versions of one document are numbered in the order they are saved;  *)
(* 0 stands for "no file yet".  `current' is the version that could be     *)
(* read back if the machine stopped now, `acked' the last version a save   *)
(* reported as written.  A save moves `current' forward in one step, only  *)
(* a version that is already safe is acknowledged, and nothing, a crash    *)
(* included, moves `acked' back.  Where versions are `revocable', one that *)
(* was not acknowledged may be taken back.                                 *)
(***************************************************************************)
EXTENDS Naturals

VARIABLES current, acked, revocable

vars == <<current, acked, revocable>>

Init ==
    /\ current \in {0, 1}
    /\ acked = 0
    /\ revocable \in BOOLEAN

\* A newer version replaces the current one as a whole; the caller may be
\* told so at once.
Replace ==
    /\ current' \in Nat
    /\ current' > current
    /\ acked' \in {acked, current'}

\* The caller is told that the current version is safe.
Acknowledge ==
    /\ acked' = current
    /\ UNCHANGED current

\* A version that does not read back is withdrawn.
Withdraw ==
    /\ revocable
    /\ current' \in acked .. current
    /\ UNCHANGED acked

Next == (Replace \/ Acknowledge \/ Withdraw) /\ UNCHANGED revocable

Spec == Init /\ [][Next]_vars
=============================================================================
