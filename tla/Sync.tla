-------------------------------- MODULE Sync --------------------------------
(***************************************************************************)
(* Devices that share a vault through the server: the sync round           *)
(* (src/src/network/server-sync.ts, vault-sync-host.ts), the capture of    *)
(* edits (core/operation-logger.ts) and the applicator                     *)
(* (network/sync-applicator.ts), for files that exist and are edited.      *)
(*                                                                         *)
(* A round is cut where it awaits: capture, pull, push, clear, merge, one  *)
(* step per applied action, and the folds of concurrent heads.  Between    *)
(* any two steps users edit, other devices run their rounds, the round may *)
(* fail and the app may crash.                                             *)
(*                                                                         *)
(* Journals and clocks have modules of their own (OpLog, HLC): here an op  *)
(* is durable when it is recorded, and a clock is the counter of a device  *)
(* that never loses it.                                                    *)
(***************************************************************************)
EXTENDS StateMerge, Sequences, FiniteSetsExt, SequencesExt

CONSTANTS
    Devices,        \* device ids, numbers: they break ties of stamps
    Files,          \* files of the vault, each at a path of its own
    Typable,        \* Typable[d]: what is typed on device d, pairs of a region and a text
    MaxEdits,       \* bound: MaxEdits[d] edits are made on device d
    MaxFaults,      \* bound: failures, crashes, lost graphs and missing blobs
    MaxLog,         \* bound: with so many ops on the server, one device only still syncs
    NoRound         \* no round under way

ASSUME DevicesAssumption == Devices \subseteq Nat /\ Devices # {} /\ IsFiniteSet(Files)
ASSUME TypableAssumption == Typable \in [Devices -> SUBSET (Regions \X (Nat \ {0}))]
ASSUME EditsAssumption   == MaxEdits \in [Devices -> Nat] /\ MaxFaults \in Nat /\ MaxLog \in Nat
ASSUME TextsAssumption   == \A b \in Binary : ~ (b \subseteq Edits)   \* the files are notes

VARIABLES
    log,        \* the ops on the server, in seq order
    disk,       \* disk[d][f]: the text of the file on device d
    armed,      \* armed[d]: files whose debounce timer runs
    dev,        \* dev[d]: what the plugin keeps: reg (registry), ops (pending),
                \* clock, store (contents whose bytes are in the content store)
    dag,        \* dag[d]: the version graph on disk
    cursor,     \* cursor[d]: the saved pull cursor
    round,      \* round[d]: the round under way
    running,    \* running[d]: the app is open
    \* history and bounds
    typed,      \* typed[d][f]: what the user of d has typed
    edits,      \* edits[d]: how often
    faults,     \* faults so far
    emitted,    \* every op ever recorded as pending
    held        \* held[d]: versions a round of d left aside

vars == <<log, disk, armed, dev, dag, cursor, round, running,
          typed, edits, faults, emitted, held>>

history == <<typed, edits, faults, emitted, held>>

----------------------------------------------------------------------------
(* Versions and ops *)

\* An op's id is its stamp; a merge node's id is made of its content and its parents.
EditOp(d, f, text, n, parents) ==
    [id |-> <<"op", n, d>>, file |-> f, hash |-> text, hlc |-> <<n, d>>, parents |-> parents]
MergeOp(d, f, text, n, parents) ==
    [id |-> <<"merge", text, parents>>, file |-> f, hash |-> text, hlc |-> <<n, d>>,
     parents |-> parents]

\* The first version of a file, known to every device.
Root(f) == [EditOp(Min(Devices), f, EmptyText, 0, {}) EXCEPT !.id = <<"root", f>>]

\* recordVersionEdges
RecordEdges(g, ops) ==
    FoldLeft(LAMBDA acc, op : AddVersion(acc, op.id, op.parents, op.hash, op.file), g, ops)

Ids(ops) == {ops[i].id : i \in DOMAIN ops}

----------------------------------------------------------------------------
(* Capture: from the disk to the registry and the pending ops *)

\* Update the entry, record the op, set the head.
LogUpdate(v, d, f, text) ==
    LET n == v.clock + 1
        op == EditOp(d, f, text, n, {v.reg[f].head})
    IN  [v EXCEPT !.clock = n, !.store = @ \cup {text}, !.ops = Append(@, op),
                  !.reg[f] = [@ EXCEPT !.hash = text, !.hlc = <<n, d>>, !.head = op.id]]

\* A save of a file with two open heads: still marked, only the content is tracked;
\* otherwise it is the merge node that closes both.
LogResolution(v, d, f, text) ==
    LET n == v.clock + 1
        op == MergeOp(d, f, text, n, v.reg[f].conf)
        seen == [v EXCEPT !.clock = n, !.store = @ \cup {text},
                          !.reg[f] = [@ EXCEPT !.hash = text, !.hlc = <<n, d>>]]
    IN  IF hasConflictMarkers(text) THEN seen
        ELSE [seen EXCEPT !.ops = Append(@, op),
                          !.reg[f] = [@ EXCEPT !.head = op.id, !.conf = {}]]

flushModify(v, d, f, text) ==
    CASE text = v.reg[f].hash -> v
      [] text # v.reg[f].hash /\ v.reg[f].conf # {} -> LogResolution(v, d, f, text)
      [] OTHER -> LogUpdate(v, d, f, text)

\* captureOfflineChanges looks at the content hash only.
captureFile(v, d, f, text) ==
    IF text = v.reg[f].hash THEN v ELSE LogUpdate(v, d, f, text)

\* A fold over the files, by the flush of the timers or by the scan for drift.
RecordFiles(v, d, S, how) ==
    FoldSet(LAMBDA f, acc : IF how = "flush" THEN flushModify(acc, d, f, disk[d][f])
                            ELSE captureFile(acc, d, f, disk[d][f]), v, S)

FlushFiles(v, d, S)   == RecordFiles(v, d, S, "flush")
CaptureFiles(v, d, S) == RecordFiles(v, d, S, "scan")

----------------------------------------------------------------------------
(* The user and the watcher *)

InPhase(d, phase) == round[d] # NoRound /\ round[d].phase = phase

\* The watcher is off while a round applies.
Listening(d) == running[d] /\ ~ InPhase(d, "apply")

Save(d, f, text) ==
    /\ disk' = [disk EXCEPT ![d][f] = text]
    /\ armed' = [armed EXCEPT ![d] = IF Listening(d) THEN @ \cup {f} ELSE @]

\* A user changes a region, here or in another program.
UserEdit(d, f, e) ==
    /\ edits[d] < MaxEdits[d]
    /\ e \notin disk[d][f]
    /\ Save(d, f, disk[d][f] \cup {e})
    /\ typed' = [typed EXCEPT ![d][f] = @ \cup {e}]
    /\ edits' = [edits EXCEPT ![d] = @ + 1]
    /\ UNCHANGED <<log, dev, dag, cursor, round, running, faults, emitted, held>>

\* A user removes the markers and keeps both sides.
UserResolve(d, f) ==
    /\ hasConflictMarkers(disk[d][f])
    /\ Save(d, f, disk[d][f] \ Marks)
    /\ UNCHANGED <<log, dev, dag, cursor, round, running, history>>

\* The debounce timer of f fires.
DebounceFires(d, f) ==
    /\ Listening(d) /\ f \in armed[d]
    /\ armed' = [armed EXCEPT ![d] = @ \ {f}]
    /\ LET v == flushModify(dev[d], d, f, disk[d][f])
       IN  /\ dev' = [dev EXCEPT ![d] = v]
           /\ emitted' = emitted \cup ToSet(v.ops)
    /\ UNCHANGED <<log, disk, dag, cursor, round, running, typed, edits, faults, held>>

----------------------------------------------------------------------------
(* The round, up to the push *)

\* At the bound MaxLog all devices but one are cut off.
CanSync(d) == running[d] /\ (Len(log) < MaxLog \/ d = Min(Devices))

\* SyncCoordinator.sync: flush the timers, then capture what drifted.
BeginRound(d) ==
    /\ CanSync(d) /\ round[d] = NoRound
    /\ LET v == CaptureFiles(FlushFiles(dev[d], d, armed[d]), d, Files)
       IN  /\ dev' = [dev EXCEPT ![d] = v]
           /\ emitted' = emitted \cup ToSet(v.ops)
    /\ armed' = [armed EXCEPT ![d] = {}]
    /\ round' = [round EXCEPT ![d] = [phase |-> "captured"]]
    /\ UNCHANGED <<log, disk, dag, cursor, running, typed, edits, faults, held>>

\* buildLocalIdentity: an entry whose content is not what is on the disk is copied and
\* corrected; of any other the round holds the entry itself, not a copy.
SnapshotOf(d) ==
    [f \in {g \in Files : disk[d][g] # dev[d].reg[g].hash} |->
        [dev[d].reg[f] EXCEPT !.hash = disk[d][f]]]

LocalState(d, snap) == [f \in Files |-> IF f \in DOMAIN snap THEN snap[f] ELSE dev[d].reg[f]]

Snapshot(d) == LocalState(d, round[d].snap)

Entry(f, e) ==
    [id |-> f, path |-> f, synced |-> f, deleted |-> FALSE,
     hash |-> e.hash, hlc |-> e.hlc, head |-> e.head, conf |-> e.conf]

Foreign(d, ops, f) == {i \in DOMAIN ops : ops[i].hlc[2] # d /\ ops[i].file = f}

\* Fault: the first op of a file, not the latest.
RemoteEntryFirst(d, ops, f) ==
    IF Foreign(d, ops, f) = {} THEN NoEntry
    ELSE LET op == ops[Min(Foreign(d, ops, f))]
         IN  Entry(f, [hash |-> op.hash, hlc |-> op.hlc, head |-> op.id, conf |-> {}])

\* reconstructRemoteState: the latest foreign op of a file, or NoEntry.
RemoteEntry(d, ops, f) ==
    IF Foreign(d, ops, f) = {} THEN NoEntry
    ELSE LET i == CHOOSE i \in Foreign(d, ops, f) : \A j \in Foreign(d, ops, f) :
                      /\ AtLeast(ops[i].hlc, ops[j].hlc)
                      /\ ops[i].hlc = ops[j].hlc => i <= j
         IN  Entry(f, [hash |-> ops[i].hash, hlc |-> ops[i].hlc, head |-> ops[i].id, conf |-> {}])

\* Contents of the projection that the device has to download.
Wanted(d, ops, snap) ==
    {RemoteEntry(d, ops, f).hash : f \in {g \in Files :
        /\ RemoteEntry(d, ops, g) # NoEntry
        /\ RemoteEntry(d, ops, g).hash # snap[g].hash
        /\ RemoteEntry(d, ops, g).hash \notin dev[d].store}}

\* Fault: an emptied graph is not noticed.
SavedCursor(d) == cursor[d]

\* dagNeedsRebuild: the graph is empty although ops were consumed; pull from the start.
StartCursor(d) == IF dag[d] = EmptyDag THEN 0 ELSE cursor[d]

\* buildLocalIdentity, loadCursor, pullAll, fetchRemoteBlobs; some blobs may be missing.
Pull(d) ==
    /\ InPhase(d, "captured")
    /\ LET start == StartCursor(d)
           ops   == SubSeq(log, start + 1, Len(log))
           snap  == SnapshotOf(d)
       IN  \E missing \in SUBSET Wanted(d, ops, LocalState(d, snap)) :
              /\ faults + Cardinality(missing) <= MaxFaults
              /\ faults' = faults + Cardinality(missing)
              /\ cursor' = [cursor EXCEPT ![d] = start]
              /\ round' = [round EXCEPT ![d] =
                    [phase   |-> IF dev[d].ops = <<>> THEN "merge" ELSE "push",
                     snap    |-> snap, ops |-> dev[d].ops, clock |-> dev[d].clock,
                     start   |-> start, pulled |-> ops, missing |-> missing]]
    /\ UNCHANGED <<log, disk, armed, dev, dag, running, typed, edits, emitted, held>>

\* Fault: one batch is sent.
AppendOneBatch(ops) == IF ops = <<>> \/ Head(ops).id \in Ids(log) THEN log ELSE Append(log, Head(ops))

\* The server appends an op once, by its id: of the new ones, the k-th comes k-th.
AppendOps(ops) ==
    LET new    == {i \in DOMAIN ops : ops[i].id \notin Ids(log)}
        nth(k) == CHOOSE i \in new : Cardinality({j \in new : j <= i}) = k
    IN  log \o [k \in 1..Cardinality(new) |-> ops[nth(k)]]

\* pushPendingOps, then clearPendingOps, which drops whatever is pending.
Push(d) ==
    /\ InPhase(d, "push")
    /\ log' = AppendOps(round[d].ops)
    /\ dev' = [dev EXCEPT ![d].ops = <<>>]
    /\ round' = [round EXCEPT ![d].phase = "merge"]
    /\ UNCHANGED <<disk, armed, dag, cursor, running, history>>

\* Fault: the ops are cleared in any case.
RoundFailsCleared(d) ==
    /\ faults < MaxFaults /\ faults' = faults + 1
    /\ InPhase(d, "push")
    /\ dev' = [dev EXCEPT ![d].ops = <<>>]
    /\ round' = [round EXCEPT ![d] = NoRound]
    /\ UNCHANGED <<log, disk, armed, dag, cursor, running, typed, edits, emitted, held>>

\* The round fails or is cancelled before it touches the vault.  Some of the ops may
\* have reached the server, all of them if only the answer was lost.
RoundFails(d) ==
    /\ faults < MaxFaults /\ faults' = faults + 1
    /\ \/ InPhase(d, "captured") /\ UNCHANGED log
       \/ InPhase(d, "push") /\ \E k \in 0..Len(round[d].ops) :
                                   log' = AppendOps(SubSeq(round[d].ops, 1, k))
    /\ round' = [round EXCEPT ![d] = NoRound]
    /\ UNCHANGED <<disk, armed, dev, dag, cursor, running, typed, edits, emitted, held>>

----------------------------------------------------------------------------
(* The merge *)

\* stageForFiles: the local content, and the contents along the head's history that the
\* walk reaches; only what the store holds can be staged.
Staged(d, g, e) ==
    {e.hash} \cup (reachableContentHashes(g, e.head, dev[d].store \cup {e.hash}) \cap dev[d].store)

\* fetchRemoteBlobs stages nothing for a file that already has that content.
RemoteStaged(le, re, missing) == IF le.hash = re.hash THEN {} ELSE {re.hash} \ missing

MergeAction(d, g, f, le, re, missing) ==
    IF re = NoEntry THEN SendRemote
    ELSE classifyAndResolve(g, Entry(f, le), re, Staged(d, g, le), RemoteStaged(le, re, missing))

\* The file carries markers, or it has the same text already as an edit yet to be captured.
LeftAside(le, re) == le.conf # {} \/ le.hash = re.hash

LatestTime(d, ops) == Max({0} \cup {ops[i].hlc[1] : i \in {j \in DOMAIN ops : ops[j].hlc[2] # d}})

GraphWith(d) == RecordEdges(dag[d], round[d].ops \o round[d].pulled)

\* recordVersionEdges, stageMergeContent, mergeVaultStates, setCurrent; the applicator
\* then turns the watcher off, which drops the armed timers.
Merge(d) ==
    /\ InPhase(d, "merge")
    /\ LET g    == GraphWith(d)
           acts == [f \in Files |-> MergeAction(d, g, f, Snapshot(d)[f],
                                       RemoteEntry(d, round[d].pulled, f), round[d].missing)]
       IN  /\ dag' = [dag EXCEPT ![d] = g]
           /\ dev' = [dev EXCEPT ![d].clock = Max({round[d].clock, LatestTime(d, round[d].pulled)})]
           /\ round' = [round EXCEPT ![d] =
                 [phase |-> "apply", snap |-> @.snap, start |-> @.start, pulled |-> @.pulled,
                  missing |-> @.missing, acts |-> acts,
                  todo |-> {f \in Files : acts[f].type \notin {"no_op", "send_remote"}},
                  reg |-> dev[d].reg, blobs |-> {}, minted |-> <<>>, deferred |-> {}]]
           /\ held' = [held EXCEPT ![d] = @ \cup
                 {op.id : op \in {o \in ToSet(round[d].pulled) :
                     /\ acts[o.file] = NoOp
                     /\ LeftAside(Snapshot(d)[o.file], RemoteEntry(d, round[d].pulled, o.file))}}]
    /\ armed' = [armed EXCEPT ![d] = {}]
    /\ UNCHANGED <<log, disk, cursor, running, typed, edits, faults, emitted>>

----------------------------------------------------------------------------
(* The applicator *)

\* What applying act to file f makes of its entry, given the time n of a fresh stamp.
Adopted(d, e, act, n) ==
    CASE act.type = "write_local" ->
            [hash |-> act.content, hlc |-> act.hlc, head |-> act.head, conf |-> {}]
      [] act.type = "write_merge" ->
            [hash |-> act.content, hlc |-> <<n, d>>,
             head |-> <<"merge", act.content, act.parents>>, conf |-> {}]
      [] act.type = "conflict" ->
            [e EXCEPT !.hash = act.content, !.hlc = <<n, d>>, !.conf = act.parents]

Minted(d, f, act, n) ==
    IF act.type = "write_merge" THEN <<MergeOp(d, f, act.content, n, act.parents)>> ELSE <<>>

\* Fault: no look at the disk before the write.
NeverDrifted(d, f, snap) == FALSE

\* driftedSinceSnapshot
Drifted(d, f, snap) == disk[d][f] # snap[f].hash

\* applyAction for one file.  A drifted file is left alone and deferred.
ApplyFile(d, f) ==
    /\ InPhase(d, "apply") /\ f \in round[d].todo
    /\ IF Drifted(d, f, Snapshot(d))
       THEN /\ round' = [round EXCEPT ![d].todo = @ \ {f}, ![d].deferred = @ \cup {f}]
            /\ UNCHANGED <<disk, dev>>
       ELSE LET act == round[d].acts[f]
                n   == IF act.type = "write_local" THEN dev[d].clock ELSE dev[d].clock + 1
            IN  /\ disk' = [disk EXCEPT ![d][f] = act.content]
                /\ dev' = [dev EXCEPT ![d].clock = n]
                /\ round' = [round EXCEPT ![d] =
                      [round[d] EXCEPT !.todo = @ \ {f}, !.blobs = @ \cup {act.content},
                                !.reg[f] = Adopted(d, round[d].reg[f], act, n),
                                !.minted = @ \o Minted(d, f, act, n)]]
    /\ UNCHANGED <<log, armed, dag, cursor, running, history>>

\* The action throws before it has done anything: the file is deferred.
ApplyThrows(d, f) ==
    /\ InPhase(d, "apply") /\ f \in round[d].todo
    /\ faults < MaxFaults /\ faults' = faults + 1
    /\ round' = [round EXCEPT ![d].todo = @ \ {f}, ![d].deferred = @ \cup {f}]
    /\ UNCHANGED <<log, disk, armed, dev, dag, cursor, running, typed, edits, emitted, held>>

\* Minted merge nodes become pending, then the drifted files are captured again.
Emit(v, d, minted, deferred) == FlushFiles([v EXCEPT !.ops = @ \o minted], d, deferred)

\* The blobs are flushed and the pending ops cleared, the watcher is on again, and what
\* the round itself has to say is recorded.  The registry changes in memory only.
ApplyEmits(d) ==
    /\ InPhase(d, "apply") /\ round[d].todo = {}
    /\ LET cleared == [dev[d] EXCEPT !.ops = <<>>, !.store = @ \cup round[d].blobs,
                                     !.reg = round[d].reg]
           v == Emit(cleared, d, round[d].minted, round[d].deferred)
       IN  /\ dev' = [dev EXCEPT ![d] = [v EXCEPT !.reg = dev[d].reg]]
           /\ emitted' = emitted \cup ToSet(v.ops)
           /\ round' = [round EXCEPT ![d].phase = "flush", ![d].reg = v.reg]
    /\ UNCHANGED <<log, disk, armed, dag, cursor, running, typed, edits, faults, held>>

\* The registry is written, once for the whole batch.
ApplyFlushes(d) ==
    /\ InPhase(d, "flush")
    /\ dev' = [dev EXCEPT ![d].reg = round[d].reg]
    /\ round' = [round EXCEPT ![d] =
          [phase |-> "fold", start |-> @.start, pulled |-> @.pulled, missing |-> @.missing,
           deferred |-> @.deferred, attempted |-> {}, folded |-> TRUE]]
    /\ UNCHANGED <<log, disk, armed, dag, cursor, running, history>>

----------------------------------------------------------------------------
(* reconcileConcurrentHeads *)

Touched(d) == {f \in Files : Foreign(d, round[d].pulled, f) # {}}

\* A fixed order of version ids: edits by their stamp, then merge nodes.
FirstId(S) ==
    LET plain == {v \in S : v[1] = "op"}
    IN  IF plain = {} THEN CHOOSE v \in S : TRUE
        ELSE CHOOSE v \in plain : \A w \in plain : AtLeast(<<w[2], w[3]>>, <<v[2], v[3]>>)

\* Leaves of f beside the head, with an op pulled this round and a base in common.
Extras(d, g, f, head) ==
    {v \in leaves(g, f) : /\ ~ isAncestor(g, v, head)
                          /\ v \in Ids(round[d].pulled) /\ v \notin round[d].attempted
                          /\ mergeBase(g, head, v) # NoBase}

\* The first pass needs a touched file with several leaves, a later one that the pass
\* before it folded something.
FoldsMore(d) ==
    IF round[d].attempted = {} THEN \E f \in Touched(d) : Cardinality(leaves(dag[d], f)) >= 2
    ELSE round[d].folded

Foldable(d, g) ==
    {f \in Touched(d) \ round[d].deferred : Extras(d, g, f, dev[d].reg[f].head) # {}}

\* One pass: a fresh snapshot, the pending ops recorded, and one leaf to fold per file.
FoldPass(d) ==
    /\ InPhase(d, "fold") /\ FoldsMore(d)
    /\ LET g == RecordEdges(dag[d], dev[d].ops)
       IN  /\ Foldable(d, g) # {}
           /\ dag' = [dag EXCEPT ![d] = g]
           /\ round' = [round EXCEPT ![d] =
                 [phase |-> "foldfile", start |-> @.start, pulled |-> @.pulled,
                  missing |-> @.missing, deferred |-> @.deferred, folded |-> FALSE,
                  attempted |-> @.attempted, snap |-> SnapshotOf(d), clock |-> dev[d].clock,
                  leaf |-> [f \in Foldable(d, g) |->
                               FirstId(Extras(d, g, f, dev[d].reg[f].head))]]]
    /\ UNCHANGED <<log, disk, armed, dev, cursor, running, history>>

OpOf(d, id) == LET i == CHOOSE i \in DOMAIN round[d].pulled : round[d].pulled[i].id = id
               IN  round[d].pulled[i]

\* The file's fold is done; after the last one comes another pass.
FoldDone(d, f, missing) ==
    LET r      == round[d]
        left   == DOMAIN r.leaf \ {f}
        passed == r.attempted \cup {r.leaf[f]}
        absent == r.missing \cup missing
        folds  == r.folded \/ missing = {}
    IN  round' = [round EXCEPT ![d] =
            IF left = {}
            THEN [phase |-> "fold", start |-> r.start, pulled |-> r.pulled, missing |-> absent,
                  deferred |-> r.deferred, attempted |-> passed, folded |-> folds]
            ELSE [r EXCEPT !.missing = absent, !.attempted = passed, !.folded = folds,
                           !.leaf = [x \in left |-> r.leaf[x]]]]

\* The bytes of the leaf are neither staged nor on the server.
FoldMissing(d, f) ==
    /\ InPhase(d, "foldfile") /\ f \in DOMAIN round[d].leaf
    /\ faults < MaxFaults /\ faults' = faults + 1
    /\ LET leaf == OpOf(d, round[d].leaf[f])
       IN  /\ leaf.hash \notin Staged(d, dag[d], Snapshot(d)[f])
           /\ FoldDone(d, f, {leaf.hash})
    /\ UNCHANGED <<log, disk, armed, dev, dag, cursor, running, typed, edits, emitted, held>>

\* One leaf is merged and applied by the same applicator: it clears the pending ops,
\* whatever the action is.  Its deferrals are not handed on.
FoldFile(d, f) ==
    /\ InPhase(d, "foldfile") /\ f \in DOMAIN round[d].leaf
    /\ LET leaf == OpOf(d, round[d].leaf[f])
           re   == Entry(f, [hash |-> leaf.hash, hlc |-> leaf.hlc, head |-> leaf.id, conf |-> {}])
           le   == Snapshot(d)[f]
           act  == classifyAndResolve(dag[d], Entry(f, le), re, Staged(d, dag[d], le), {re.hash})
           time == Max({dev[d].clock, round[d].clock, leaf.hlc[1]})
           n    == IF act.type = "write_local" THEN time ELSE time + 1
           idle == act.type \in {"no_op", "send_remote"}
           skip == Drifted(d, f, Snapshot(d))
           v0   == [dev[d] EXCEPT !.ops = <<>>, !.clock = time]
           v1   == IF idle THEN v0
                   ELSE IF skip THEN Emit(v0, d, <<>>, {f})
                   ELSE Emit([v0 EXCEPT !.clock = n, !.store = @ \cup {act.content},
                                        !.reg[f] = Adopted(d, dev[d].reg[f], act, n)],
                             d, Minted(d, f, act, n), {})
       IN  /\ disk' = IF idle \/ skip THEN disk ELSE [disk EXCEPT ![d][f] = act.content]
           /\ dev' = [dev EXCEPT ![d] = v1]
           /\ emitted' = emitted \cup ToSet(v1.ops)
           /\ held' = IF idle /\ LeftAside(le, re) THEN [held EXCEPT ![d] = @ \cup {leaf.id}] ELSE held
    /\ FoldDone(d, f, {})
    /\ armed' = [armed EXCEPT ![d] = {}]
    /\ UNCHANGED <<log, dag, cursor, running, typed, edits, faults>>

----------------------------------------------------------------------------
(* The end of the round *)

\* Fault: one more than there was.
OffByOne(r) == r.start + Len(r.pulled) + 1

\* Fault: the cursor moves over everything that was pulled.
WholePull(r) == r.start + Len(r.pulled)

\* safeCursor: nothing is passed that was deferred, or whose content is missing.
safeCursor(r) ==
    LET blocked == {i \in DOMAIN r.pulled : r.pulled[i].hash \in r.missing}
    IN  CASE r.deferred # {} -> r.start
          [] r.deferred = {} /\ blocked = {} -> r.start + Len(r.pulled)
          [] OTHER -> r.start + Min(blocked) - 1

\* The last pass finds nothing to fold; then the cursor is saved.
SaveCursor(d) ==
    /\ InPhase(d, "fold")
    /\ LET g == RecordEdges(dag[d], dev[d].ops)
       IN  IF FoldsMore(d) THEN Foldable(d, g) = {} /\ dag' = [dag EXCEPT ![d] = g]
           ELSE UNCHANGED dag
    /\ cursor' = [cursor EXCEPT ![d] = safeCursor(round[d])]
    /\ round' = [round EXCEPT ![d] = NoRound]
    /\ UNCHANGED <<log, disk, armed, dev, running, history>>

----------------------------------------------------------------------------
(* Crash, restart, lost graph *)

\* The app dies: the round and the timers are gone.
Crash(d) ==
    /\ running[d] /\ faults < MaxFaults /\ faults' = faults + 1
    /\ running' = [running EXCEPT ![d] = FALSE]
    /\ round' = [round EXCEPT ![d] = NoRound]
    /\ armed' = [armed EXCEPT ![d] = {}]
    /\ UNCHANGED <<log, disk, dev, dag, cursor, typed, edits, emitted, held>>

\* The start of the app captures what changed while it was closed.
Start(d) ==
    /\ ~ running[d]
    /\ running' = [running EXCEPT ![d] = TRUE]
    /\ LET v == CaptureFiles(dev[d], d, Files)
       IN  /\ dev' = [dev EXCEPT ![d] = v]
           /\ emitted' = emitted \cup ToSet(v.ops)
    /\ UNCHANGED <<log, disk, armed, dag, cursor, round, typed, edits, faults, held>>

\* The files of the version graph are lost or unreadable: they load as an empty graph.
GraphLost(d) ==
    /\ round[d] = NoRound /\ dag[d] # EmptyDag
    /\ faults < MaxFaults /\ faults' = faults + 1
    /\ dag' = [dag EXCEPT ![d] = EmptyDag]
    /\ UNCHANGED <<log, disk, armed, dev, cursor, round, running, typed, edits, emitted, held>>

----------------------------------------------------------------------------
\* Every device has synced the same empty files.
Init ==
    /\ log = SetToSeq({Root(f) : f \in Files})
    /\ disk = [d \in Devices |-> [f \in Files |-> EmptyText]]
    /\ armed = [d \in Devices |-> {}]
    /\ dev = [d \in Devices |->
          [reg |-> [f \in Files |-> [hash |-> EmptyText, hlc |-> Root(f).hlc,
                                     head |-> Root(f).id, conf |-> {}]],
           ops |-> <<>>, clock |-> 0, store |-> {EmptyText}]]
    /\ dag = [d \in Devices |-> RecordEdges(EmptyDag, log)]
    /\ cursor = [d \in Devices |-> Len(log)]
    /\ round = [d \in Devices |-> NoRound]
    /\ running = [d \in Devices |-> TRUE]
    /\ typed = [d \in Devices |-> [f \in Files |-> {}]]
    /\ edits = [d \in Devices |-> 0] /\ faults = 0 /\ emitted = {}
    /\ held = [d \in Devices |-> {}]

\* From the merge on, a round reads and writes nothing but what its own device keeps, so
\* its steps commute with every step of another device; they are not interleaved.
Local(d) == round[d] # NoRound /\ round[d].phase \notin {"captured", "push"}
Turn(d)  == \A e \in Devices \ {d} : ~ Local(e)

\* During a round a user leaves files that carry markers alone, and a timer armed during a
\* round has not fired when the round begins to apply.
Calm(d, f) == round[d] = NoRound \/ ~ hasConflictMarkers(disk[d][f])

Next ==
    \E d \in Devices :
        \/ Turn(d) /\ BeginRound(d)
        \/ Turn(d) /\ Pull(d)
        \/ Turn(d) /\ Push(d)
        \/ Turn(d) /\ Merge(d)
        \/ Turn(d) /\ ApplyEmits(d)
        \/ Turn(d) /\ ApplyFlushes(d)
        \/ Turn(d) /\ FoldPass(d)
        \/ Turn(d) /\ SaveCursor(d)
        \/ Turn(d) /\ RoundFails(d)
        \/ Turn(d) /\ Crash(d)
        \/ Turn(d) /\ Start(d)
        \/ Turn(d) /\ GraphLost(d)
        \/ \E f \in Files :
              \/ Turn(d) /\ ApplyFile(d, f)
              \/ Turn(d) /\ ApplyThrows(d, f)
              \/ Turn(d) /\ FoldFile(d, f)
              \/ Turn(d) /\ FoldMissing(d, f)
              \/ Turn(d) /\ Calm(d, f) /\ UserResolve(d, f)
              \/ Turn(d) /\ Calm(d, f) /\ \E e \in Typable[d] : UserEdit(d, f, e)
              \/ Turn(d) /\ round[d] = NoRound /\ DebounceFires(d, f)

Spec == Init /\ [][Next]_vars

\* Rounds are triggered again and again and each of them goes on, a closed app is opened
\* again, and a user who sees markers resolves them.
Fairness ==
    \A d \in Devices :
        /\ []<>(~ CanSync(d)) \/ []<><<round'[d] # round[d]>>_vars
        /\ WF_vars(Start(d))
        /\ \A f \in Files : WF_vars(UserResolve(d, f))

FairSpec == Spec /\ Fairness

\* Timers also fire while a round is under way.
WindowSpec == Init /\ [][Next \/ \E d \in Devices, f \in Files : Turn(d) /\ DebounceFires(d, f)]_vars

\* One device at a time syncs.
Apart     == Cardinality({d \in Devices : round[d] # NoRound}) <= 1
ApartSpec == Init /\ [][Next /\ Apart']_vars

----------------------------------------------------------------------------
(* Properties *)

Idle(d) == round[d] = NoRound

\* Every version there is.
Truth ==
    LET ops == ToSet(log) \cup emitted
    IN  [v \in {op.id : op \in ops} |->
            LET op == CHOOSE o \in ops : o.id = v
            IN  [parents |-> op.parents, hash |-> op.hash, file |-> op.file]]

Heads(d, f) == {dev[d].reg[f].head} \cup dev[d].reg[f].conf

Pairs == Regions \X Nat

\* The kinds of the state: versions are those of the log or of pending ops, a cursor
\* never passes the end of the log, the pending ops carry distinct ids.
TypeOK ==
    /\ \A i \in DOMAIN log : log[i].file \in Files /\ log[i].hash \subseteq Pairs
    /\ \A d \in Devices :
          /\ cursor[d] \in 0..Len(log)
          /\ armed[d] \subseteq Files
          /\ running[d] \in BOOLEAN
          /\ round[d] # NoRound => running[d]
          /\ IsInjective([i \in DOMAIN dev[d].ops |-> dev[d].ops[i].id])
          /\ \A f \in Files : /\ disk[d][f] \subseteq Pairs
                              /\ Heads(d, f) \subseteq DOMAIN Truth
                              /\ Cardinality(dev[d].reg[f].conf) \in {0, 2}

\* What the user of a device typed is on that device's disk, whatever rounds, merges and
\* crashes do.
NoLostEdit == \A d \in Devices, f \in Files : typed[d][f] \subseteq disk[d][f]

\* A step takes something the user typed off the disk only when the file has two open
\* heads: then a peer's resolution replaces it (applyAction behind driftedSinceSnapshot,
\* the merge table).
EditsStay ==
    [][\A d \in Devices, f \in Files :
          typed[d][f] \cap disk[d][f] \subseteq disk'[d][f] \/ dev[d].reg[f].conf # {}]_vars

OpSurvives(op) == op.id \in Ids(log) \/ \E d \in Devices : op.id \in Ids(dev[d].ops)

\* The op of an edit is on the server or still pending: the clears of a round
\* (clearPendingOps after the push, clearOps in the applicator) drop no other edit.
RecordedEditsSurvive == \A op \in emitted : op.id[1] = "op" => OpSurvives(op)

\* No step loses an op on its way from the device that recorded it to the server, but a
\* fold of concurrent heads on that very device: neither the clear after the push
\* (clearPendingOps), nor the one in the applicator (clearOps), nor a failed round.
OpsLeaveOnlyInFolds ==
    [][\A op \in emitted' :
          \/ OpSurvives(op)'
          \/ op \in emitted /\ ~ OpSurvives(op)
          \/ \E d \in Devices : InPhase(d, "foldfile") /\ op.id \in Ids(dev[d].ops)]_vars

\* RecordedEditsSurvive for every op, the merge nodes that rounds mint included.
RecordedOpsSurvive == \A op \in emitted : OpSurvives(op)

\* An op that a fold has dropped leaves no trace only if no later version names it: what it
\* says is otherwise part of the history of an op that survives.
Lost(op) ==
    op.id \notin WalkUp(Truth, Ids(log) \cup UNION {Ids(dev[d].ops) : d \in Devices})

NothingLost == \A op \in emitted : ~ Lost(op)

\* Between rounds, every op of a peer below the cursor is part of the history of the
\* device's heads or of an op above the cursor, so that it need never be pulled again
\* (safeCursor, reconcileConcurrentHeads).  Excepted are the ops a round left aside, see LeftAside: a
\* later op of this device or of its peer unites them with the head.
AppliedUpToCursor ==
    \A d \in Devices : Idle(d) => \A i \in 1..cursor[d] :
        \/ log[i].hlc[2] = d
        \/ log[i].id \in held[d]
        \/ log[i].id \in WalkUp(Truth, Heads(d, log[i].file)
                                     \cup Ids(SubSeq(log, cursor[d] + 1, Len(log))))

\* When every device has pushed and pulled everything and no file has two open heads,
\* the devices hold the same texts.
Settled(d) ==
    /\ Idle(d) /\ running[d] /\ dev[d].ops = <<>> /\ cursor[d] = Len(log)
    /\ \A f \in Files : disk[d][f] = dev[d].reg[f].hash /\ dev[d].reg[f].conf = {}

Agreement == \A d, e \in Devices : disk[d] = disk[e]

SettledDevicesAgree == (\A d \in Devices : Settled(d)) => Agreement

\* The same, unless a version that a round left aside is still outside of the history of
\* the device's heads, or a fold has dropped an op for good.
NothingAside(d) == held[d] \subseteq WalkUp(Truth, UNION {Heads(d, f) : f \in Files})

SettledDevicesAgreeUnlessAside ==
    (\A d \in Devices : Settled(d) /\ NothingAside(d)) /\ NothingLost => Agreement

\* All versions of a file descend from its first one; so as long as no op was dropped, the
\* graph has a common ancestor of the two heads whenever a round merges (recordVersionEdges,
\* dagNeedsRebuild).
BaseIsFound ==
    RecordedOpsSurvive => \A d \in Devices, f \in Files :
        InPhase(d, "merge") /\ RemoteEntry(d, round[d].pulled, f) # NoEntry =>
            mergeBase(GraphWith(d), Snapshot(d)[f].head,
                      RemoteEntry(d, round[d].pulled, f).head) # NoBase

\* A merge node over heads with one and the same text.
Unites(op) ==
    /\ op.id[1] = "merge"
    /\ \A v \in op.parents : \E o \in ToSet(log) : o.id = v /\ o.hash = op.hash

\* Devices that hold the same text mint the same node over their heads and then
\* fast-forward to it (classifyAndResolve, same content), so that a node over equal
\* heads is not one of two equal heads again, and this one yet again.
NoMergeStorm ==
    ~ \E x, y, z \in ToSet(log) : /\ Unites(x) /\ Unites(y) /\ Unites(z)
                                  /\ x.id \in y.parents /\ y.id \in z.parents

\* In the end all devices hold the same texts for good, with all that any version
\* carries, unless a version was left aside for good or the bound MaxLog was reached.
EventuallyConverges ==
    <>[](\/ \E d \in Devices : ~ NothingAside(d) \/ ~ (Len(log) < MaxLog)
         \/ /\ Agreement
            /\ \A d \in Devices : \A op \in emitted : op.hash \ Marks \subseteq disk[d][op.file])
=============================================================================
