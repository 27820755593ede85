------------------------------- MODULE DagStore -------------------------------
(***************************************************************************)
(* The version graph of one file on one device, in memory and on disk: the *)
(* snapshot and the journal (network/version-dag-store.ts), the edges each *)
(* round records before it merges (network/vault-sync-host.ts), its loss   *)
(* and the rebuild from the server, and the sweep to what the vault still  *)
(* names (core/version-dag.ts, main.ts).                                   *)
(*                                                                         *)
(* A node never changes once its op exists, so a graph is the set of the   *)
(* versions it has nodes for; a version's number is its stamp.  Peers      *)
(* write any version whose parents are on the server.  Contents do not     *)
(* matter: whether two heads merge cleanly, conflict or are deferred, and  *)
(* whether the server lacks the bytes of a peer's version, is a free       *)
(* choice; the file's own bytes are at hand.                               *)
(***************************************************************************)
EXTENDS VersionDag, Sequences, FiniteSetsExt, SequencesExt

CONSTANTS
    NoVersion,      \* an entry without a head
    File,           \* the file
    SnapshotMayGo,  \* whether version-dag.json may be lost while the journal stays
    CollectsEarly,  \* whether the user may collect before a failed round is repeated
    LinesTear,      \* whether a crash may cut an appended line in two
    MaxVersions,    \* bound: versions
    MaxFaults       \* bound: crashes and lost files

ASSUME FlagsAssumption  == {SnapshotMayGo, CollectsEarly, LinesTear} \subseteq BOOLEAN
ASSUME BoundsAssumption == MaxVersions \in Nat /\ MaxFaults \in Nat
ASSUME NoVersionAssumption == NoVersion \notin Nat

VARIABLES
    history,        \* every version there is, with its parents
    log,            \* the versions on the server, in seq order
    mine,           \* those this device authored
    head, conf,     \* the registry's head and open heads
    pending,        \* the pending ops; their order is that of their stamps
    cursor,         \* the saved pull cursor
    snapshot,       \* on disk: version-dag.json
    journal,        \* on disk: version-dag.log
    torn,           \* on disk: the journal ends in half a line
    phase,          \* where the round or the collection is
    dag,            \* in memory: the graph of the round or the collection
    ops, end,       \* in memory: the ops it pushes, and up to where in the log it pulled
    edges,          \* in memory: the nodes it appends to the journal
    deferred,       \* in memory: whether the merge was left for the next round
    missing,        \* in memory: the heads whose bytes the server lacks
    attempted,      \* in memory: the leaves it folded or failed to fold
    aside,          \* observed: versions a cursor has passed that no head descended from
    faults

server   == <<history, log, mine>>
registry == <<head, conf, pending>>
files    == <<snapshot, journal, torn>>
memory   == <<dag, ops, end, edges, deferred, missing, attempted>>
vars     == <<server, registry, cursor, files, phase, memory, aside, faults>>

In(p) == phase = p

Forget ==
    /\ dag' = {} /\ ops' = {} /\ end' = 0 /\ edges' = {}
    /\ deferred' = FALSE /\ missing' = {} /\ attempted' = {}

Graph(S) == [v \in S |-> history[v]]
OnDisk   == snapshot \cup journal        \* load: the journal replayed over the snapshot

NextVersion == Cardinality(DOMAIN history) + 1

Mints(v, parents) ==
    /\ v = NextVersion /\ v <= MaxVersions
    /\ history' = AddVersion(history, v, parents, NoHash, File)

\* The ops of the log after seq m, up to seq n.
Logged(m, n) == {log[i] : i \in (m + 1)..n}

----------------------------------------------------------------------------
(* Peers, and the user of this device                                      *)

\* Another device pushes an edit of a version it has, a merge node, or the first version.
\* Past the pull and the push a round does not look at the server again, and a push then
\* is like one after the round.
PeerWrites(v, parents) ==
    /\ In("idle") \/ In("push")
    /\ parents = {} <=> history = EmptyDag
    /\ parents \subseteq ToSet(log) /\ Cardinality(parents) <= 2
    /\ \A p, q \in parents : p # q => ~ isAncestor(history, p, q)
    /\ Mints(v, parents)
    /\ log' = Append(log, v)
    /\ UNCHANGED <<mine, registry, cursor, files, phase, memory, faults, aside>>

\* No round is under way that would still clear the pending ops (see Sync for those).
Quiet == phase \in {"idle", "maintain", "sweep", "trim"}

Heads == IF conf # {} THEN conf ELSE {head} \ {NoVersion}

\* The user edits the file, or resolves its two heads; the registry names the new version
\* at once, the graph learns it in the next round.
LocalEdit(v) ==
    /\ Quiet
    /\ head = NoVersion => history = EmptyDag
    /\ Mints(v, Heads)
    /\ mine' = mine \cup {v}
    /\ head' = v /\ conf' = {}
    /\ pending' = pending \cup {v}
    /\ UNCHANGED <<log, cursor, files, phase, memory, faults, aside>>

----------------------------------------------------------------------------
(* The round, as far as it reads and writes the graph                      *)

\* Fault: an empty graph is taken for a fresh device's.
NeverRebuilt == FALSE

\* dagNeedsRebuild: an empty graph on a device that has consumed ops.
dagNeedsRebuild == cursor # 0 /\ OnDisk = {}

StartCursor == IF dagNeedsRebuild THEN 0 ELSE cursor

\* loadDag, the rewind, the snapshot of the pending ops, the pull.  The saved cursor stays
\* where the pull started until the round has settled.
BeginRound ==
    /\ In("idle") /\ phase' = "push"
    /\ cursor' = StartCursor
    /\ dag' = OnDisk /\ ops' = pending /\ end' = Len(log)
    /\ UNCHANGED <<server, registry, files, edges, deferred, missing, attempted, faults, aside>>

Pulled == Logged(cursor, end)

\* The enumeration of a finite set of versions in stamp order (one element).
Ascending(S) ==
    {e \in [1..Cardinality(S) -> S] :
        /\ \A i, j \in 1..Cardinality(S) : i < j => e[i] < e[j]
        /\ \A v \in S : \E i \in 1..Cardinality(S) : e[i] = v}

\* The server appends each op once.
Push ==
    /\ In("push") /\ phase' = "clear"
    /\ \E e \in Ascending(ops \ ToSet(log)) : log' = log \o e
    /\ UNCHANGED <<history, mine, registry, cursor, files, memory, faults, aside>>

ClearPendingOps ==
    /\ In("clear") /\ phase' = "record"
    /\ pending' = IF ops = {} THEN pending ELSE {}
    /\ UNCHANGED <<server, head, conf, cursor, files, memory, faults, aside>>

\* recordVersionEdges up to the append: only what is new to the graph is journalled.
Recorded == dag \cup ops \cup Pulled

recordVersionEdges ==
    /\ In("record")
    /\ phase' = IF Recorded = dag THEN "merge" ELSE "append"
    /\ dag' = Recorded /\ edges' = Recorded \ dag
    /\ UNCHANGED <<server, registry, cursor, files, ops, end, deferred, missing, attempted,
                   faults, aside>>

\* Whichever of the lines is the first to be appended to half a line is lost with it.
Landed(lines) == IF torn /\ lines # {} THEN {lines \ {v} : v \in lines} ELSE {lines}

\* appendEdges resolves; the journal's length decides about a compaction.
EdgesAppended ==
    /\ In("append") /\ phase' \in {"merge", "compact"}
    /\ \E landed \in Landed(edges) : journal' = journal \cup landed
    /\ torn' = FALSE
    /\ edges' = {}
    /\ UNCHANGED <<server, registry, cursor, snapshot, dag, ops, end, deferred, missing,
                   attempted, faults, aside>>

\* compact: the snapshot first, then the journal is removed.
SnapshotWritten ==
    /\ In("compact") /\ phase' = "truncate"
    /\ snapshot' = dag
    /\ UNCHANGED <<server, registry, cursor, journal, torn, memory, faults, aside>>

JournalRemoved ==
    /\ In("truncate") /\ phase' = "merge"
    /\ journal' = {} /\ torn' = FALSE
    /\ UNCHANGED <<server, registry, cursor, snapshot, memory, faults, aside>>

\* What the registry and the pending ops name.
Named == Heads \cup pending

\* The remote side of the merge: the latest of the peers' ops.
Foreign == Pulled \ mine

\* A resolution: a merge node above every open head.
Resolves(g, r) == isMergeNode(g, r) /\ \A h \in conf : isAncestor(g, h, r)

Adopt(r)   == head' = r /\ conf' = {} /\ pending' = {} /\ UNCHANGED <<history, mine>>
Holds      == pending' = {} /\ UNCHANGED <<history, mine, head, conf>>
Mark(r)    == conf' = {head, r} /\ pending' = {} /\ UNCHANGED <<history, mine, head>>
Unite(v, r) ==
    /\ Mints(v, {head, r})
    /\ mine' = mine \cup {v}
    /\ head' = v /\ conf' = {} /\ pending' = {v}

\* What the merge and the applicator, which clears the pending ops, do with the head r.
Reconcile(g, r) ==
    \/ head = NoVersion /\ Adopt(r)
    \/ head # NoVersion /\ conf # {} /\ IF Resolves(g, r) THEN Adopt(r) ELSE Holds
    \/ /\ head # NoVersion /\ conf = {}
       /\ \/ isAncestor(g, r, head) /\ Holds
          \/ ~ isAncestor(g, r, head) /\ isAncestor(g, head, r) /\ Adopt(r)
          \/ /\ ~ isAncestor(g, r, head) /\ ~ isAncestor(g, head, r)
             /\ Mark(r) \/ \E v \in {NextVersion} : Unite(v, r)

Merge ==
    /\ In("merge") /\ phase' = "fold"
    /\ IF Foreign = {} THEN Holds ELSE Reconcile(Graph(dag), Max(Foreign))
    /\ UNCHANGED <<log, cursor, files, memory, faults, aside>>

\* An action throws or the file drifted: it is left for the next round.
MergeDefers ==
    /\ In("merge") /\ phase' = "fold" /\ Foreign # {}
    /\ Holds
    /\ deferred' = TRUE
    /\ UNCHANGED <<log, cursor, files, dag, ops, end, edges, missing, attempted, faults, aside>>

\* The remote head's bytes are not on the server yet: the merge does nothing.
MergeMisses ==
    /\ In("merge") /\ phase' = "fold" /\ Foreign # {}
    /\ Holds
    /\ missing' = {Max(Foreign)}
    /\ UNCHANGED <<log, cursor, files, dag, ops, end, edges, deferred, attempted, faults, aside>>

\* The graph a pass of the folds works on: the pending ops are recorded first.
Known == dag \cup pending

\* reconcileConcurrentHeads: a pulled leaf beside the head, with which it shares a base.
Extras(g) ==
    {r \in (leaves(g, File) \cap Foreign) \ attempted :
        ~ isAncestor(g, r, head) /\ mergeBase(g, head, r) # NoBase}

\* One pass: one leaf is folded unless its bytes are missing.  There is another pass if
\* this one folded something, here or in other files.
Fold ==
    /\ In("fold") /\ ~ deferred /\ head # NoVersion
    /\ \E r \in Extras(Graph(Known)) :
          /\ attempted' = attempted \cup {r}
          /\ \/ Reconcile(Graph(Known), r) /\ UNCHANGED <<phase, missing>>
             \/ /\ missing' = missing \cup {r} /\ phase' \in {"fold", "folded"}
                /\ UNCHANGED <<history, mine, registry>>
    /\ dag' = Known
    /\ \E landed \in Landed(Known \ dag) : journal' = journal \cup landed
    /\ torn' = (torn /\ Known = dag)
    /\ UNCHANGED <<log, cursor, snapshot, ops, end, edges, deferred, faults, aside>>

FoldsEnd ==
    /\ In("fold") /\ phase' = "folded"
    /\ deferred \/ head = NoVersion \/ Extras(Graph(Known)) = {}
    /\ UNCHANGED <<server, registry, cursor, files, memory, faults, aside>>

\* safeCursor: all that was pulled; what comes before the first version without bytes; or
\* nothing of it.
safeCursor ==
    LET blocked == {i \in (cursor + 1)..end : log[i] \in missing}
    IN  IF deferred THEN cursor ELSE IF blocked # {} THEN Min(blocked) - 1 ELSE end

SaveCursor ==
    /\ In("folded") /\ phase' = "maintain"
    /\ cursor' = safeCursor
    /\ aside' = aside \cup (Logged(0, cursor') \ WalkUp(history, Named))
    /\ Forget
    /\ UNCHANGED <<server, registry, files, faults>>

----------------------------------------------------------------------------
(* The collection: in a round that has settled, or by itself               *)

\* Fault: the open heads of a conflicted file are not rooted.
HeadsOnly == {head} \ {NoVersion}

\* versionRoots
versionRoots == ({head} \cup conf) \ {NoVersion}

\* Fault: the parents of a pending op are not rooted.
PendingIdsOnly == pending

PendingRoots == pending \cup UNION {history[v].parents : v \in pending}

Roots == versionRoots \cup PendingRoots

Kept == OnDisk \cap WalkUp(Graph(OnDisk), Roots)

\* Between a push whose round then fails and the next round, versions of this device are
\* neither pending nor in the graph, though the vault names them or a child of theirs.
OwnRecorded == mine \cap WalkUp(history, Roots) \subseteq OnDisk \cup pending

\* sweepToRoots: it declines when the vault names nothing that the graph holds; a head of
\* some other file is enough.
Sweep ==
    /\ In("maintain") \/ (In("idle") /\ (CollectsEarly \/ OwnRecorded))
    /\ OnDisk # {} /\ Kept # OnDisk
    /\ \E others \in BOOLEAN : others \/ Roots \cap OnDisk # {}
    /\ phase' = "sweep" /\ dag' = Kept
    /\ UNCHANGED <<server, registry, cursor, files, ops, end, edges, deferred, missing, attempted,
                   faults, aside>>

SweepWritten ==
    /\ In("sweep") /\ phase' = "trim"
    /\ snapshot' = dag
    /\ UNCHANGED <<server, registry, cursor, journal, torn, memory, faults, aside>>

SweepTrims ==
    /\ In("trim") /\ phase' = "idle"
    /\ journal' = {} /\ torn' = FALSE
    /\ Forget
    /\ UNCHANGED <<server, registry, cursor, snapshot, faults, aside>>

RoundEnds ==
    /\ In("maintain") /\ phase' = "idle"
    /\ UNCHANGED <<server, registry, cursor, files, memory, faults, aside>>

----------------------------------------------------------------------------
(* Failures                                                                *)

Fault == faults < MaxFaults /\ faults' = faults + 1

\* The application stops, or the round fails.  Of an append some lines are there, and
\* perhaps half of another.
Crash ==
    /\ Fault /\ ~ In("idle") /\ phase' = "idle"
    /\ IF In("append")
       THEN \E part \in SUBSET edges :
              /\ \E landed \in Landed(part) : journal' = journal \cup landed
              /\ torn' \in {torn /\ part = {}, LinesTear}
       ELSE UNCHANGED <<journal, torn>>
    /\ Forget
    /\ UNCHANGED <<server, registry, cursor, snapshot, aside>>

\* The files of the graph are deleted or unreadable.
GraphLost ==
    /\ Fault /\ In("idle")
    /\ snapshot' = {} /\ torn' = FALSE
    /\ journal' \in {{}} \cup (IF SnapshotMayGo THEN {journal} ELSE {})
    /\ UNCHANGED <<server, registry, cursor, phase, memory, aside>>

----------------------------------------------------------------------------

Init ==
    /\ history = EmptyDag /\ log = <<>> /\ mine = {}
    /\ head = NoVersion /\ conf = {} /\ pending = {}
    /\ cursor = 0
    /\ snapshot = {} /\ journal = {} /\ torn = FALSE
    /\ phase = "idle" /\ dag = {} /\ ops = {} /\ end = 0 /\ edges = {}
    /\ deferred = FALSE /\ missing = {} /\ attempted = {}
    /\ aside = {} /\ faults = 0

Round ==
    \/ BeginRound \/ Push \/ ClearPendingOps \/ recordVersionEdges \/ EdgesAppended
    \/ SnapshotWritten \/ JournalRemoved \/ Merge \/ MergeDefers \/ MergeMisses \/ Fold \/ FoldsEnd
    \/ SaveCursor \/ RoundEnds

Next ==
    \/ \E v \in {NextVersion} :
          \/ LocalEdit(v)
          \/ \E parents \in {{}} \cup {{p, q} : p, q \in ToSet(log)} : PeerWrites(v, parents)
    \/ Round
    \/ Sweep \/ SweepWritten \/ SweepTrims
    \/ Crash \/ GraphLost

Spec == Init /\ [][Next]_vars

----------------------------------------------------------------------------
(* Properties *)

Versions == DOMAIN history

\* The kinds of the state: the files and the log hold versions that exist, a file has no
\* open heads or two, and the cursor is a place in the log.
TypeOK ==
    /\ Versions = 1..Cardinality(Versions)
    /\ IsInjective(log) /\ ToSet(log) \cup pending \cup OnDisk \cup mine \subseteq Versions
    /\ head \in Versions \cup {NoVersion}
    /\ conf \subseteq Versions /\ Cardinality(conf) \in {0, 2}
    /\ cursor \in 0..Len(log)
    /\ torn \in BOOLEAN

\* The ops the next round pulls, and the graph it merges with.
Coming  == Logged(StartCursor, Len(log))
NextDag == Graph(OnDisk \cup pending \cup Coming)

\* What a fold cleared before it was pushed: a merge node that the fold of a further head
\* took for obsolete, though the vault still names it or a child of it.
Dropped == WalkUp(history, Named) \ (ToSet(log) \cup pending)

\* The history of everything the vault names is at hand for the next round, whatever was
\* swept, compacted, cut off or lost: on disk, or among the ops it will pull, except what
\* a round once put aside (recordVersionEdges, compact, prune, dagNeedsRebuild).
NamedHistoryIsKnown == Dropped = {} => WalkUp(history, Named) \ aside \subseteq DOMAIN NextDag

SameBase(h, v) == mergeBase(NextDag, h, v) = mergeBase(history, h, v)

\* A merge of a named head with a head that comes finds the base the full history has,
\* unless one of the two descends from a version that a round put aside: held by two open
\* heads, or passed by a cursor that stops below its child (mergeBase, prune, safeCursor).
BasesKept ==
    Dropped = {} =>
    \A h \in Named, v \in Coming :
        SameBase(h, v) \/ WalkUp(history, {h, v}) \cap aside # {}

\* The same without the exception: no sweep changes an answer of the graph.
AnswersKept == \A h \in Named, v \in Coming : SameBase(h, v)

\* A round passes a peer's version only when the head descends from it, or it is a parent
\* of one that is pulled again, or the file is open for the user (reconcileConcurrentHeads).
PassesWhatItFolds ==
    [][In("folded") /\ conf = {} =>
          aside' \ aside \subseteq WalkUp(history, Logged(safeCursor, Len(log)))]_vars
=============================================================================
