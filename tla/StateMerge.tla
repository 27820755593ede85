----------------------------- MODULE StateMerge -----------------------------
(***************************************************************************)
(* The merge decision for one file (src/src/merge/state-merge.ts): given   *)
(* the local entry, the remote entry projected from the pulled ops, the    *)
(* version graph, and the contents whose bytes each side has staged, which *)
(* action to apply.                                                        *)
(*                                                                         *)
(* A content stands for its own hash.  An entry is a record                *)
(*   id, path, hash, hlc (a pair time, device), deleted, head, conf, synced*)
(* where conf is the set of open heads of a two-headed file and synced the *)
(* last synced path or NoPath.  NoEntry is a side that does not know the   *)
(* file.                                                                   *)
(***************************************************************************)
EXTENDS VersionDag, TextMerge

CONSTANTS
    NoEntry,    \* undefined: this side does not know the file
    NoHead,     \* headVersionId null
    NoPath,     \* lastSyncedPath null
    Binary      \* contents with a null byte

----------------------------------------------------------------------------
\* hlcCompare(a, b) >= 0
AtLeast(a, b) == a[1] > b[1] \/ (a[1] = b[1] /\ a[2] >= b[2])

Winner(le, re) == IF AtLeast(le.hlc, re.hlc) THEN le ELSE re

NoOp              == [type |-> "no_op"]
SendRemote        == [type |-> "send_remote"]
DeleteRemote      == [type |-> "delete_remote"]
DeleteLocal(e)    == [type |-> "delete_local", path |-> e.path]
MoveLocal(le, re) == [type |-> "move_local", from |-> le.path, to |-> re.path]
WriteLocal(e, path) ==
    [type |-> "write_local", path |-> path, content |-> e.hash, hlc |-> e.hlc, head |-> e.head]
WriteMerge(path, content, le, re) ==
    [type |-> "write_merge", path |-> path, content |-> content, parents |-> {le.head, re.head}]
Conflict(le, re, text) ==
    [type |-> "conflict", path |-> le.path, content |-> text, parents |-> {le.head, re.head}]
DeleteConflict(survivor, le, re) ==
    [type |-> "delete_conflict", path |-> survivor.path, content |-> survivor.hash,
     parents |-> {le.head, re.head}]
BinaryConflict(le, re) ==
    [type |-> "binary_conflict", local |-> le.hash, remote |-> re.hash,
     localPath |-> le.path, remotePath |-> re.path, parents |-> {le.head, re.head}]

HeadsKnown(le, re) == le.head # NoHead /\ re.head # NoHead
Known(dag, a, v)   == a # NoHead /\ v # NoHead /\ isAncestor(dag, a, v)

\* A peer's resolution: a merge node above the given head.
Resolves(dag, e, head) == e.head # NoHead /\ isMergeNode(dag, e.head) /\ Known(dag, head, e.head)

\* Does local's content equal the content of its head?  Not so for an edit that reached
\* the disk and is not an op yet.
LocalAtHead(dag, le) == contentHashOf(dag, le.head) = le.hash

----------------------------------------------------------------------------
(* One side deleted *)

\* isUnchangedSinceBase: not renamed since the last sync, and still the base's content.
UnchangedSinceBase(dag, survivor, other) ==
    LET syncedPath == IF survivor.synced # NoPath THEN survivor.synced ELSE other.synced
        base       == mergeBase(dag, survivor.head, other.head)
    IN  /\ syncedPath = NoPath \/ survivor.path = syncedPath
        /\ HeadsKnown(survivor, other)
        /\ base \notin {NoBase, MultipleBases}
        /\ contentHashOf(dag, base) # NoHash
        /\ contentHashOf(dag, base) = survivor.hash

ResolveLocalDeleted(dag, le, re, staged) ==
    IF Resolves(dag, re, le.head) /\ re.hash \in staged THEN WriteLocal(re, re.path)
    ELSE IF UnchangedSinceBase(dag, re, le) THEN DeleteRemote
    ELSE IF re.hash \in staged THEN DeleteConflict(re, le, re)
    ELSE NoOp

ResolveRemoteDeleted(dag, le, re, staged) ==
    IF Resolves(dag, re, le.head) \/ UnchangedSinceBase(dag, le, re) THEN DeleteLocal(le)
    ELSE IF le.hash \in staged THEN DeleteConflict(le, le, re)
    ELSE NoOp

----------------------------------------------------------------------------
(* Same content on both sides *)

\* Equal bytes may still be two concurrent heads: then they are united by a merge node.
ResolveSameContent(dag, le, re, staged) ==
    CASE le.path # re.path ->
            IF AtLeast(le.hlc, re.hlc) THEN NoOp ELSE MoveLocal(le, re)
      [] le.path = re.path /\ (~ HeadsKnown(le, re) \/ le.head = re.head
                               \/ isAncestor(dag, re.head, le.head)
                               \/ ~ LocalAtHead(dag, le) \/ le.hash \notin staged) -> NoOp
      [] OTHER -> IF isAncestor(dag, le.head, re.head) THEN WriteLocal(re, re.path)
                  ELSE WriteMerge(le.path, le.hash, le, re)

----------------------------------------------------------------------------
(* Both sides modified *)

\* The file carries markers: only a peer's resolution of every open head is taken.
ResolveTwoHeaded(dag, le, re, staged) ==
    IF /\ re.head # NoHead /\ isMergeNode(dag, re.head)
       /\ \A h \in le.conf : isAncestor(dag, h, re.head)
       /\ re.hash \in staged
    THEN WriteLocal(re, re.path)
    ELSE NoOp

\* Some bytes are missing: the later side's are written, if it is that side that has them.
ResolveMissing(le, re, lstore, rstore) ==
    IF Winner(le, re).hash \in (IF Winner(le, re) = le THEN lstore ELSE rstore)
    THEN WriteLocal(Winner(le, re), Winner(le, re).path)
    ELSE NoOp

ResolveBinary(dag, le, re, base) ==
    LET baseHash == IF base \in {NoBase, MultipleBases} THEN NoHash ELSE contentHashOf(dag, base)
    IN  CASE baseHash # NoHash /\ le.hash = baseHash /\ re.hash # baseHash -> WriteLocal(re, re.path)
          [] baseHash # NoHash /\ le.hash # baseHash /\ re.hash = baseHash -> NoOp
          [] OTHER -> BinaryConflict(le, re)

\* The text to merge against: empty only when the heads share no ancestor at all; NoHash
\* when the base is ambiguous, or known and without bytes.
BaseText(dag, base, staged) ==
    CASE base = NoBase -> EmptyText
      [] base \notin {NoBase, MultipleBases} /\ contentHashOf(dag, base) \in staged ->
            contentHashOf(dag, base)
      [] OTHER -> NoHash

ResolveText(dag, le, re, base, staged) ==
    LET text == BaseText(dag, base, staged)
    IN  CASE text = NoHash -> Conflict(le, re, MarkedWhole(le.hash, re.hash))
          [] text # NoHash /\ HasConflicts(text, le.hash, re.hash) ->
                Conflict(le, re, Marked(text, le.hash, re.hash))
          [] OTHER -> WriteMerge(Winner(le, re).path, Merged(text, le.hash, re.hash), le, re)

\* Remote is a strict descendant of what local really holds.
FastForwards(dag, le, re) == LocalAtHead(dag, le) /\ Known(dag, le.head, re.head)

resolveContentConflict(dag, le, re, lstore, rstore) ==
    LET base   == IF HeadsKnown(le, re) THEN mergeBase(dag, le.head, re.head) ELSE NoBase
        staged == lstore \cup rstore
    IN  IF le.conf # {} THEN ResolveTwoHeaded(dag, le, re, staged)
        ELSE IF FastForwards(dag, le, re)
             THEN IF re.hash \in staged THEN WriteLocal(re, re.path) ELSE NoOp
        ELSE IF Known(dag, re.head, le.head) THEN NoOp
        ELSE IF le.hash \notin lstore \/ re.hash \notin rstore
             THEN ResolveMissing(le, re, lstore, rstore)
        ELSE IF le.hash \in Binary \/ re.hash \in Binary THEN ResolveBinary(dag, le, re, base)
        ELSE ResolveText(dag, le, re, base, staged)

----------------------------------------------------------------------------
\* classifyAndResolve for a file whose path no other file holds on the other side.
classifyAndResolve(dag, le, re, lstore, rstore) ==
    LET staged == lstore \cup rstore IN
    CASE le = NoEntry ->
            IF re.deleted \/ re.hash \notin rstore THEN NoOp ELSE WriteLocal(re, re.path)
      [] re = NoEntry ->
            IF le.deleted THEN NoOp ELSE SendRemote
      [] OTHER ->
            CASE le.deleted /\ re.deleted -> NoOp
              [] le.deleted /\ ~ re.deleted -> ResolveLocalDeleted(dag, le, re, staged)
              [] ~ le.deleted /\ re.deleted -> ResolveRemoteDeleted(dag, le, re, staged)
              [] ~ le.deleted /\ ~ re.deleted ->
                    IF le.hash = re.hash THEN ResolveSameContent(dag, le, re, staged)
                    ELSE resolveContentConflict(dag, le, re, lstore, rstore)

----------------------------------------------------------------------------
(* Two ids at one path *)

\* resolveCreateCollision: a live local entry and a live remote one hold the same path
\* under different ids.  It is called once for each of the ids, and one call acts.
\* pickCollisionWinner's tie cannot arise: no two ids carry the same stamp.
resolveCreateCollision(dag, le, re, selfIsRemote, lstore, rstore) ==
    LET known      == HeadsKnown(le, re)
        remoteWins == Winner(le, re) = re
        adopt      == IF selfIsRemote /\ re.hash \in lstore \cup rstore
                      THEN WriteLocal(re, re.path) ELSE NoOp
    IN  IF known /\ isAncestor(dag, le.head, re.head) THEN adopt
        ELSE IF known /\ isAncestor(dag, re.head, le.head) THEN NoOp
        ELSE IF le.hash = re.hash THEN IF remoteWins THEN adopt ELSE NoOp
        ELSE IF le.hash \in lstore /\ re.hash \in rstore /\ remoteWins = selfIsRemote
             THEN Conflict(le, re, MarkedWhole(le.hash, re.hash))
        ELSE NoOp
=============================================================================
