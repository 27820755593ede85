---------------------------- MODULE OpLogFaults ----------------------------
(***************************************************************************)
(* OpLog over the metadata store its port really promises                  *)
(* (src/src/ports/metadata-store.ts): an append "need not be atomic", so a *)
(* crash can cut it inside a line, and a write can reject.                 *)
(***************************************************************************)
EXTENDS OpLog

\* A crash cuts the append in flight inside a line: what is left of that line,
\* part of the op or all of it, has no newline.
TornCrash ==
    /\ running
    /\ active # NoPersist /\ active.kind = "append"
    /\ LoseMemory
    /\ \E k \in 1..Len(active.data), whole \in BOOLEAN :
        journal' = Appended(Append(SubSeq(active.data, 1, k - 1),
                                   IF whole THEN active.data[k] ELSE Garbage))
    /\ openTail' = TRUE
    /\ UNCHANGED history

\* metadata.write rejects: the old file stands, and so does the old marker,
\* though pendingOps is already shorter.
RewriteRejects ==
    /\ active # NoPersist /\ active.kind = "rewrite"
    /\ active' = NoPersist
    /\ UNCHANGED <<running, pendingOps, persisted, queue, disk, history>>

FaultyNext == Next \/ TornCrash \/ RewriteRejects
FaultySpec == Init /\ [][FaultyNext]_vars

----------------------------------------------------------------------------
\* "A torn trailing append is tolerated by the journal reader, which drops an
\* unparseable final line" (ports/metadata-store.ts:30-31): whatever a resolved
\* write put on disk is still read back after a torn append.
TornTailTolerated == WrittenStaysDurable
=============================================================================
