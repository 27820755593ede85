------------------------------ MODULE MCDiff3 ------------------------------
(***************************************************************************)
(* Diff3 on all triples of short texts over few lines, which are           *)
(* interchangeable.                                                        *)
(***************************************************************************)
EXTENDS Diff3

CONSTANTS a, b, c, d, e

MCLines   == {a, b, c, d, e}
Symmetric == Permutations(MCLines)

\* A line that looks like the separator of a conflict block.
MCUnderlined == {a, b, Sep}
=============================================================================
