-------------------------- MODULE MCEditingEngine --------------------------
(* Instances of EditingEngine for TLC. *)
EXTENDS EditingEngine

CONSTANTS a, b

SinglePage == {<<a>>}
FirstPages == {0, 1}
=============================================================================
