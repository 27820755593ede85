--------------------------- MODULE MCFileRegistry ---------------------------
(***************************************************************************)
(* FileRegistry on two ids, which is enough for a path to change hands and *)
(* for a duplicate to be dropped, and two paths.                           *)
(***************************************************************************)
EXTENDS FileRegistry, TLC

CONSTANTS a, b, p, q, c1, c2

MCIds   == {a, b}
MCPaths == {p, q}
MCAlone == {c1}
MCPair  == {c1, c2}

Symmetric == Permutations(MCIds) \cup Permutations(MCPaths)
=============================================================================
