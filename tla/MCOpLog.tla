------------------------------ MODULE MCOpLog ------------------------------
(***************************************************************************)
(* OpLog on three ops of two files: the create of file f, an update of f,  *)
(* and an op of file g that a prune of f leaves alone.                     *)
(***************************************************************************)
EXTENDS OpLogFaults

CONSTANTS createF, updateF, otherG, fileF, fileG

MCOps     == {createF, updateF, otherG}
MCFiles   == {fileF, fileG}
MCCreates == {createF}
MCFileOf  == [o \in MCOps |-> IF o = otherG THEN fileG ELSE fileF]
=============================================================================
