--------------------------- MODULE MCContentStore ---------------------------
(***************************************************************************)
(* ContentStore with few blobs, which are interchangeable.                 *)
(***************************************************************************)
EXTENDS ContentStore

Symmetry == Permutations(Blobs) \cup Permutations(Callers)
=============================================================================
