----------------------------- MODULE MCCapture -----------------------------
(***************************************************************************)
(* Capture with one call at a time, or two.                                *)
(***************************************************************************)
EXTENDS Capture, TLC

CONSTANTS x, y, c1, c2

MCTexts   == {x, y}
MCAlone   == {c1}
MCPair    == {c1, c2}
Symmetric == Permutations(MCTexts)
=============================================================================
