------------------------------- MODULE MCSync -------------------------------
(***************************************************************************)
(* Sync on two devices.                                                    *)
(***************************************************************************)
EXTENDS Sync

CONSTANTS p, q, f1, EditsOfFirst, EditsOfSecond

\* The second device types the same as the first, another text for the same region, so
\* that edits conflict, or a text for another region, so that they merge.
MCTypable == <<{<<p, 1>>}, {<<p, 2>>, <<q, 1>>}>>
MCEdits   == <<EditsOfFirst, EditsOfSecond>>
=============================================================================
