------------------------------ MODULE MCVault ------------------------------
(***************************************************************************)
(* Vault on two devices with few paths.                                    *)
(***************************************************************************)
EXTENDS Vault

CONSTANTS p, q, OpsOfFirst, OpsOfSecond

\* Both users may write the same, the second also something else.
MCNotes == <<{1}, {1, 2}>>
\* No two texts have anything in common.
MCOwnNotes == <<{1}, {2, 3}>>
MCOps   == <<OpsOfFirst, OpsOfSecond>>
=============================================================================
