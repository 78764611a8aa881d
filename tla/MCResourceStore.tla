-------------------------- MODULE MCResourceStore --------------------------
(***************************************************************************)
(* ResourceStore for TLC: two threads, an image with a small and a large   *)
(* rendering, of which one does not fit beside anything else, and a parsed *)
(* object of the document of the first thread.                             *)
(***************************************************************************)
EXTENDS ResourceStore, TLC

CONSTANTS t1, t2, image, object, small, large, parsed

MCKeyOf == small :> image @@ large :> image @@ parsed :> object

MCSize == small :> 1 @@ large :> 2 @@ parsed :> 1

MCOwner == object :> t1
=============================================================================
