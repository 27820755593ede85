------------------------------- MODULE Vault -------------------------------
(***************************************************************************)
(* Many files and their paths: files are created, edited, renamed and      *)
(* deleted on devices that sync through the server.  What Sync does for    *)
(* one file that always exists is done here for the identity of files: the *)
(* id a path has (core/file-registry.ts), the ops that the live handlers   *)
(* record (core/operation-logger.ts), the merge of two vaults, create/     *)
(* create collisions included (merge/state-merge.ts), and the order in     *)
(* which the applicator carries its actions out                            *)
(* (network/sync-applicator.ts).                                           *)
(*                                                                         *)
(* A handler is one step and so is a round, whose inside Sync models; no   *)
(* write fails and no blob is missing.                                     *)
(***************************************************************************)
EXTENDS StateMerge, Sequences, FiniteSetsExt, SequencesExt

CONSTANTS
    Devices,        \* device ids, numbers: they break ties of stamps
    Paths,
    NoText,         \* no file at a path
    NoId,           \* no id in the path index
    Born,           \* the paths at which users create files
    Notes,          \* Notes[d]: what the user of d writes, numbers
    Decisions,      \* the answers users give to a delete conflict
    AnyPath,        \* whether a file may take a path that another file has had
    MaxOps,         \* bound: MaxOps[d] things the user of d does
    MaxLog          \* bound: with so many ops on the server, one device only still syncs

ASSUME DevicesAssumption == Devices \subseteq Nat /\ Devices # {}
ASSUME PathsAssumption   == Born \subseteq Paths /\ AnyPath \in BOOLEAN
ASSUME DecisionsAssumption ==
    Decisions # {} /\ Decisions \subseteq {"defer", "keep_modified", "keep_deleted"}
ASSUME NotesAssumption   == Notes \in [Devices -> SUBSET (Nat \ {0})]
ASSUME MaxOpsAssumption  == MaxOps \in [Devices -> Nat] /\ MaxLog \in Nat

VARIABLES
    log,        \* the ops on the server, in seq order
    disk,       \* disk[d][p]: the text of the file at p, or NoText
    reg,        \* reg[d]: the registry's entries in the order of the Map
    index,      \* index[d][p]: its path index
    ops,        \* ops[d]: the pending ops
    dag,        \* dag[d]: the version graph
    cursor,     \* cursor[d]: the saved pull cursor
    time,       \* the last stamp anyone took
    acts        \* acts[d]: how much the user of d has done

vars == <<log, disk, reg, index, ops, dag, cursor, time, acts>>

----------------------------------------------------------------------------
(* Ops and versions *)

Op(type, file, path, text, n, d, parents) ==
    [id |-> <<"op", n, d>>, type |-> type, file |-> file, path |-> path, hash |-> text,
     hlc |-> <<n, d>>, parents |-> parents]

MergeOp(type, file, path, text, n, d, parents) ==
    [Op(type, file, path, text, n, d, parents) EXCEPT !.id = <<"merge", text, parents>>]

\* recordVersionEdges: a move is no version.
RecordEdges(g, s) ==
    FoldLeft(LAMBDA acc, op : IF op.type = "move" THEN acc
                              ELSE AddVersion(acc, op.id, op.parents, op.hash, op.file), g, s)

Ids(s) == {s[i].id : i \in DOMAIN s}

----------------------------------------------------------------------------
(* The registry of a device, as part of a record v with disk, reg, index   *)
(* and ops                                                                 *)

PosOf(v, id) == {i \in DOMAIN v.reg : v.reg[i].id = id}
getById(v, id) == IF PosOf(v, id) = {} THEN NoEntry ELSE v.reg[CHOOSE i \in PosOf(v, id) : TRUE]
getByPath(v, p) == IF v.index[p] = NoId THEN NoEntry ELSE getById(v, v.index[p])

\* Fault: the entry is added without looking for its id.
PutAnew(v, e) == [v EXCEPT !.reg = Append(@, e)]

\* Map.set: in place when the id is there, else at the end.
Put(v, e) ==
    [v EXCEPT !.reg = IF PosOf(v, e.id) = {} THEN Append(@, e)
                      ELSE [i \in DOMAIN @ |-> IF @[i].id = e.id THEN e ELSE @[i]]]

Drop(v, id) == [v EXCEPT !.reg = SelectSeq(@, LAMBDA e : e.id # id)]

NewEntry(id, p, text, hlc) ==
    [id |-> id, path |-> p, hash |-> text, hlc |-> hlc, deleted |-> FALSE,
     head |-> NoHead, conf |-> {}, synced |-> NoPath]

\* registerFile: a tracked path keeps its id, a tombstone comes back to life.
registerFile(v, p, text, hlc) ==
    LET e == getByPath(v, p) IN
    CASE e = NoEntry -> [Put(v, NewEntry(hlc, p, text, hlc)) EXCEPT !.index[p] = hlc]
      [] e # NoEntry /\ e.deleted -> Put(v, [e EXCEPT !.deleted = FALSE, !.hash = text, !.hlc = hlc])
      [] OTHER -> v

updatePath(v, p, q, hlc) ==
    IF v.index[p] = NoId THEN v
    ELSE [Put(v, [getByPath(v, p) EXCEPT !.path = q, !.hlc = hlc])
            EXCEPT !.index = [@ EXCEPT ![p] = NoId, ![q] = v.index[p]]]

markDeleted(v, p, hlc) ==
    IF v.index[p] = NoId THEN v
    ELSE Put(v, [getByPath(v, p) EXCEPT !.deleted = TRUE, !.hlc = hlc])

setHeadVersion(v, id, head) ==
    IF getById(v, id) = NoEntry THEN v ELSE Put(v, [getById(v, id) EXCEPT !.head = head])

setSyncedPath(v, id) ==
    LET e == getById(v, id) IN IF e = NoEntry THEN v ELSE Put(v, [e EXCEPT !.synced = e.path])

markConflicted(v, p, text, hlc, parents) ==
    IF v.index[p] = NoId THEN v
    ELSE Put(v, [getByPath(v, p) EXCEPT !.hash = text, !.hlc = hlc, !.conf = parents])

\* Fault: the entry that held the path stays.
AdoptBesides(v, id, p) == v

\* What adoptRemote removes before it sets the entry: the divergent duplicate at the path.
WithoutDuplicate(v, id, p) ==
    IF v.index[p] \in {NoId, id} THEN v ELSE Drop(v, v.index[p])

adoptRemote(v, id, p, text, hlc, head) ==
    LET w    == WithoutDuplicate(v, id, p)
        prev == getById(w, id)
        e    == [NewEntry(id, p, text, hlc) EXCEPT !.head = head, !.synced = p]
        free == IF prev = NoEntry THEN {} ELSE {prev.path} \ {p}
    IN  [Put(w, e) EXCEPT !.index = [r \in Paths |->
            IF r = p THEN id ELSE IF r \in free THEN NoId ELSE @[r]]]

----------------------------------------------------------------------------
(* The handlers of the watcher, on such a record *)

\* A tracked file gets a new version: the entry, the op and the head of it.
LogUpdate(v, d, p, text) ==
    LET n  == v.time + 1
        e  == getByPath(v, p)
        op == Op("update", e.id, p, text, n, d, {e.head} \ {NoHead})
    IN  Put([v EXCEPT !.time = n, !.ops = Append(@, op)],
            [e EXCEPT !.hash = text, !.hlc = <<n, d>>, !.head = op.id])

\* A file with two open heads: tracked only while it carries markers, then a merge node.
LogResolution(v, d, p, text) ==
    LET n  == v.time + 1
        e  == [getByPath(v, p) EXCEPT !.hash = text, !.hlc = <<n, d>>]
        op == MergeOp("update", e.id, p, text, n, d, e.conf)
    IN  IF hasConflictMarkers(text) THEN Put([v EXCEPT !.time = n], e)
        ELSE Put([v EXCEPT !.time = n, !.ops = Append(@, op)],
                 [e EXCEPT !.head = op.id, !.conf = {}])

handleCreate(v, d, p) ==
    LET n  == v.time + 1
        w  == registerFile(v, p, v.disk[p], <<n, d>>)
        op == Op("create", w.index[p], p, v.disk[p], n, d, {})
    IN  setHeadVersion([w EXCEPT !.time = n, !.ops = Append(@, op)], w.index[p], op.id)

flushModify(v, d, p) ==
    LET e == getByPath(v, p)  text == v.disk[p] IN
    CASE text = NoText -> v
      [] text # NoText /\ e = NoEntry -> handleCreate(v, d, p)
      [] text # NoText /\ e # NoEntry ->
            IF text = e.hash THEN v
            ELSE IF e.conf # {} THEN LogResolution(v, d, p, text)
            ELSE LogUpdate(v, d, p, text)

\* Fault: the op of the delete is recorded next to the create.
PruneNothing(v, id) == v

\* pruneCreateDeletePair: with a create of the file pending, no op of it is left.
pruneCreateDeletePair(v, id) == [v EXCEPT !.ops = SelectSeq(@, LAMBDA op : op.file # id)]

PendingCreate(v, id) == \E i \in DOMAIN v.ops : v.ops[i].file = id /\ v.ops[i].type = "create"

LogDelete(v, d, e) ==
    LET n  == v.time + 1
        op == Op("delete", e.id, e.path, e.hash, n, d, {e.head} \ {NoHead})
    IN  setHeadVersion(markDeleted([v EXCEPT !.time = n, !.ops = Append(@, op)], e.path, <<n, d>>),
                       e.id, op.id)

\* A file that is back on the disk was not deleted.
handleDelete(v, d, p) ==
    LET e == getByPath(v, p)  n == v.time + 1 IN
    CASE e = NoEntry -> v
      [] e # NoEntry /\ v.disk[p] # NoText -> flushModify(v, d, p)
      [] OTHER -> IF PendingCreate(v, e.id)
                  THEN pruneCreateDeletePair(markDeleted([v EXCEPT !.time = n], p, <<n, d>>), e.id)
                  ELSE LogDelete(v, d, [e EXCEPT !.path = p])

\* A move is no new version: it names the head as its parent and leaves it the head.
handleRename(v, d, p, q) ==
    LET e  == getByPath(v, p)
        n  == v.time + 1
        op == Op("move", e.id, q, e.hash, n, d, {e.head} \ {NoHead})
    IN  IF e = NoEntry THEN handleCreate(v, d, q)
        ELSE updatePath([v EXCEPT !.time = n, !.ops = Append(@, op)], p, q, <<n, d>>)

----------------------------------------------------------------------------
(* Capture: what the handlers did not see *)

\* A tombstone at the path gets the new text and stays a tombstone.
captureFile(v, d, p) ==
    LET e == getByPath(v, p) IN
    CASE v.disk[p] = NoText -> v
      [] v.disk[p] # NoText /\ e = NoEntry -> handleCreate(v, d, p)
      [] OTHER -> IF v.disk[p] = e.hash THEN v ELSE LogUpdate(v, d, p, v.disk[p])

captureDelete(v, d, e) ==
    IF e.deleted \/ v.disk[e.path] # NoText THEN v ELSE LogDelete(v, d, e)

\* captureOfflineChanges: an empty listing beside live entries is not believed.
Capture(v, d) ==
    LET w == FoldSet(LAMBDA p, acc : captureFile(acc, d, p), v, Paths)
    IN  IF \A p \in Paths : w.disk[p] = NoText THEN w
        ELSE FoldLeft(LAMBDA acc, e : captureDelete(acc, d, e), w, w.reg)

----------------------------------------------------------------------------
(* What was pulled, and the merge of the two vaults *)

Foreign(d, pulled) == SelectSeq(pulled, LAMBDA op : op.hlc[2] # d)

Later(a, b) == IF AtLeast(a.hlc, b.hlc) THEN a ELSE b

\* The head of a move is the version it moved.
Projected(op) ==
    [id |-> op.file, path |-> op.path, hash |-> op.hash, hlc |-> op.hlc,
     deleted |-> op.type = "delete", conf |-> {}, synced |-> NoPath,
     head |-> IF op.type = "move" /\ op.parents # {} THEN CHOOSE h \in op.parents : TRUE ELSE op.id]

\* reconstructRemoteState: the latest op of each file, the files in order of appearance.
reconstructRemoteState(d, pulled) ==
    LET theirs == Foreign(d, pulled)
        files  == FoldLeft(LAMBDA acc, op : IF op.file \in ToSet(acc) THEN acc ELSE Append(acc, op.file),
                           <<>>, theirs)
        of(f)  == SelectSeq(theirs, LAMBDA op : op.file = f)
    IN  [i \in DOMAIN files |->
            Projected(FoldLeft(Later, Head(of(files[i])), Tail(of(files[i]))))]

ById(s, id) == IF \E i \in DOMAIN s : s[i].id = id THEN s[CHOOSE i \in DOMAIN s : s[i].id = id]
               ELSE NoEntry

\* liveByPath: the last live entry at the path.
LiveAt(s, p) ==
    LET at == {i \in DOMAIN s : ~ s[i].deleted /\ s[i].path = p}
    IN  IF at = {} THEN NoEntry ELSE s[Max(at)]

\* stageMergeContent, fetchRemoteBlobs: the contents whose bytes the merge can read.
Converged(le, re) ==
    /\ le # NoEntry /\ ~ le.deleted /\ ~ re.deleted
    /\ le.head = re.head /\ le.hash = re.hash /\ le.path = re.path

Reconciled(loc, rem) ==
    {le \in ToSet(loc) :
        /\ ~ le.deleted
        /\ LET re == ById(rem, le.id)
           IN  IF re = NoEntry THEN LiveAt(rem, le.path) # NoEntry ELSE ~ Converged(le, re)}

LocalStaged(g, loc, rem) ==
    UNION {{le.hash} \cup {contentHashOf(g, v) : v \in ancestors(g, le.head)} : le \in Reconciled(loc, rem)}

RemoteStaged(loc, rem) ==
    {re.hash : re \in {r \in ToSet(rem) :
        /\ ~ r.deleted
        /\ LET le == ById(loc, r.id) IN le = NoEntry \/ le.deleted \/ le.hash # r.hash}}

\* Fault: the collision check of the ids that only the server has is left out.
NeverCollides(s, e) == FALSE

\* A one-sided live entry collides with another id that is live at its path.
Collides(s, e) == ~ e.deleted /\ LiveAt(s, e.path) # NoEntry /\ LiveAt(s, e.path).id # e.id

Decide(g, id, loc, rem) ==
    LET le == ById(loc, id)  re == ById(rem, id)
        lstore == LocalStaged(g, loc, rem)  rstore == RemoteStaged(loc, rem)
    IN  IF le = NoEntry /\ Collides(loc, re)
        THEN resolveCreateCollision(g, LiveAt(loc, re.path), re, TRUE, lstore, rstore)
        ELSE IF re = NoEntry /\ Collides(rem, le)
        THEN resolveCreateCollision(g, le, LiveAt(rem, le.path), FALSE, lstore, rstore)
        ELSE classifyAndResolve(g, le, re, lstore, rstore)

\* mergeVaultStates: the local files first, then those only the server knows.
mergeVaultStates(g, loc, rem) ==
    LET new == SelectSeq(rem, LAMBDA e : ById(loc, e.id) = NoEntry)
    IN  [i \in 1..(Len(loc) + Len(new)) |->
            LET id == IF i <= Len(loc) THEN loc[i].id ELSE new[i - Len(loc)].id
            IN  [file |-> id] @@ Decide(g, id, loc, rem)]

----------------------------------------------------------------------------
(* The applicator: a record v with res, the merge nodes to record, and     *)
(* deferred, the files left for the next round                             *)

DriftedAt(v, loc, id, p) ==
    ById(loc, id) # NoEntry /\ v.disk[p] # NoText /\ v.disk[p] # ById(loc, id).hash

CurrentPath(loc, a) ==
    LET e == ById(loc, a.file) IN IF e = NoEntry \/ e.deleted THEN a.path ELSE e.path

Defer(v, id) == [v EXCEPT !.deferred = @ \cup {id}]

\* Write at the path, adopt the identity, trash the copy at the old path.
WriteAdopting(v, loc, a, hlc, head) ==
    LET cur == CurrentPath(loc, a)
        w   == adoptRemote([v EXCEPT !.disk[a.path] = a.content], a.file, a.path, a.content, hlc, head)
    IN  IF cur = a.path THEN w ELSE [w EXCEPT !.disk[cur] = NoText]

ApplyWriteLocal(v, d, loc, a) == WriteAdopting(v, loc, a, a.hlc, a.head)

\* mintMergeResolution, and the merge node of a clean merge
Minting(v, op) == [v EXCEPT !.time = op.hlc[1], !.res = Append(@, op)]

ApplyWriteMerge(v, d, loc, a) ==
    LET op == MergeOp("update", a.file, a.path, a.content, v.time + 1, d, a.parents)
    IN  WriteAdopting(Minting(v, op), loc, a, op.hlc, op.id)

\* The move of a file onto another is refused.  A file that is gone is not moved, but the
\* registry follows.
ApplyMove(v, d, a) ==
    IF v.disk[a.from] # NoText /\ v.disk[a.to] # NoText THEN Defer(v, a.file)
    ELSE LET n == v.time + 1
             w == IF v.disk[a.from] = NoText THEN v
                  ELSE [v EXCEPT !.disk = [@ EXCEPT ![a.to] = v.disk[a.from], ![a.from] = NoText]]
         IN  updatePath([w EXCEPT !.time = n], a.from, a.to, <<n, d>>)

ApplyDelete(v, d, a) ==
    markDeleted([v EXCEPT !.disk[a.path] = NoText, !.time = @ + 1], a.path, <<v.time + 1, d>>)

ApplyConflict(v, d, a) ==
    markConflicted([v EXCEPT !.disk[a.path] = a.content, !.time = @ + 1],
                   a.path, a.content, <<v.time + 1, d>>, a.parents)

ApplyDeleteConflict(v, d, a, decision) ==
    LET op(type) == MergeOp(type, a.file, a.path, a.content, v.time + 1, d, a.parents)
    IN  CASE decision = "defer" -> Defer(v, a.file)
          [] decision = "keep_modified" ->
                adoptRemote(Minting([v EXCEPT !.disk[a.path] = a.content], op("update")),
                            a.file, a.path, a.content, op("update").hlc, op("update").id)
          [] decision = "keep_deleted" ->
                markDeleted(Minting([v EXCEPT !.disk[a.path] = NoText], op("delete")),
                            a.path, op("delete").hlc)

\* What applyAction compares with the snapshot: the copy it would overwrite or trash.
Guarded(loc, a) ==
    CASE a.type \in {"write_local", "write_merge", "conflict"} -> {CurrentPath(loc, a)}
      [] a.type = "move_local" -> {a.from}
      [] a.type = "delete_local" -> {a.path}
      [] OTHER -> {}

applyAction(v, d, loc, a, decision) ==
    IF \E p \in Guarded(loc, a) : DriftedAt(v, loc, a.file, p) THEN Defer(v, a.file)
    ELSE CASE a.type = "write_local" -> ApplyWriteLocal(v, d, loc, a)
           [] a.type = "write_merge" -> ApplyWriteMerge(v, d, loc, a)
           [] a.type = "move_local" -> ApplyMove(v, d, a)
           [] a.type = "delete_local" -> ApplyDelete(v, d, a)
           [] a.type = "conflict" -> ApplyConflict(v, d, a)
           [] a.type = "delete_conflict" -> ApplyDeleteConflict(v, d, a, decision)
           [] OTHER -> v

\* updateSyncedPaths: also for a file that was sent, but only the first time.
updateSyncedPath(v, loc, a) ==
    LET e == ById(loc, a.file)
    IN  IF /\ a.file \notin v.deferred /\ a.type \in {"no_op", "send_remote"}
           /\ e # NoEntry /\ ~ e.deleted
           /\ a.type = "no_op" \/ e.synced = NoPath
        THEN setSyncedPath(v, a.file) ELSE v

\* recordMergeOp, recordMergeDelete
RecordMerge(v, op) == setHeadVersion([v EXCEPT !.ops = Append(@, op)], op.file, op.id)

Recapture(v, d, loc, id) ==
    IF ById(loc, id) = NoEntry THEN v ELSE flushModify(v, d, ById(loc, id).path)

\* applyActions: it clears the pending ops and then records what it made itself.
applyActions(v, d, loc, todo, decision) ==
    LET v0 == [v EXCEPT !.res = <<>>, !.deferred = {}]
        v1 == FoldLeft(LAMBDA acc, a : applyAction(acc, d, loc, a, decision), v0, todo)
        v2 == FoldLeft(LAMBDA acc, a : updateSyncedPath(acc, loc, a), [v1 EXCEPT !.ops = <<>>], todo)
        v3 == FoldLeft(RecordMerge, v2, v1.res)
    IN  FoldSet(LAMBDA id, acc : Recapture(acc, d, loc, id), v3, v1.deferred)

----------------------------------------------------------------------------
(* The folds of concurrent heads, after the merge *)

OpOf(pulled, id) == pulled[CHOOSE i \in DOMAIN pulled : pulled[i].id = id]

\* Leaves of the file that its head does not have, live, and pulled in this round.
Extras(v, g, pulled, e) ==
    {u \in leaves(g, e.id) :
        /\ ~ isAncestor(g, u, e.head)
        /\ u \in Ids(pulled) /\ OpOf(pulled, u).type # "delete"
        /\ <<e.id, u>> \notin v.tried
        /\ mergeBase(g, e.head, u) # NoBase}

\* One leaf of one file is merged as if it were the remote state.
FoldLeaf(v, d, g, pulled, e, u, decision) ==
    LET op  == OpOf(pulled, u)
        re  == [Projected(op) EXCEPT !.head = u, !.hash = contentHashOf(g, u)]
        act == Decide(g, e.id, <<e>>, <<re>>)
        w   == applyActions(v, d, <<e>>, <<[file |-> e.id] @@ act>>, decision)
    IN  [w EXCEPT !.tried = @ \cup {<<e.id, u>>}, !.deferred = v.deferred]

FoldEntry(v, d, g, pulled, e, decision) ==
    IF e.id \in v.deferred \/ e.deleted \/ Extras(v, g, pulled, e) = {} THEN v
    ELSE FoldLeaf(v, d, g, pulled, e, CHOOSE u \in Extras(v, g, pulled, e) : TRUE, decision)

Touched(d, pulled) == {op.file : op \in ToSet(Foreign(d, pulled))}

\* A pass folds one leaf of each touched file.  A pass with nothing to fold changes nothing.
FoldPass(v, d, pulled, decision) ==
    LET g    == RecordEdges(v.dag, v.ops)
        mine == SelectSeq(v.reg, LAMBDA e : e.id \in Touched(d, pulled))
    IN  FoldLeft(LAMBDA acc, e : FoldEntry(acc, d, g, pulled, e, decision), [v EXCEPT !.dag = g], mine)

reconcileConcurrentHeads(v, d, pulled, decision) ==
    IF \A f \in Touched(d, pulled) : Cardinality(leaves(v.dag, f)) < 2 THEN v
    ELSE FoldLeft(LAMBDA acc, op : FoldPass(acc, d, pulled, decision), v, pulled)

----------------------------------------------------------------------------
(* Steps *)

View(d) == [disk |-> disk[d], reg |-> reg[d], index |-> index[d], ops |-> ops[d], time |-> time,
            dag |-> dag[d], res |-> <<>>, deferred |-> {}, tried |-> {}]

SetView(d, v) ==
    /\ disk' = [disk EXCEPT ![d] = v.disk] /\ reg' = [reg EXCEPT ![d] = v.reg]
    /\ index' = [index EXCEPT ![d] = v.index] /\ ops' = [ops EXCEPT ![d] = v.ops]
    /\ dag' = [dag EXCEPT ![d] = v.dag] /\ time' = v.time

\* The user does something, and the watcher sees it.
UserStep(d, v) ==
    /\ acts[d] < MaxOps[d] /\ acts' = [acts EXCEPT ![d] = @ + 1]
    /\ SetView(d, v)
    /\ UNCHANGED <<log, cursor>>

OnDisk(d, p, text) == [View(d) EXCEPT !.disk[p] = text]

HasHad(d, p) == \E op \in ToSet(ops[d]) \cup ToSet(SubSeq(log, 1, cursor[d])) \cup
                          {o \in ToSet(log) : o.hlc[2] = d} : op.path = p

Create(d, p, n) ==
    /\ disk[d][p] = NoText /\ p \in Born
    /\ AnyPath \/ (index[d][p] = NoId /\ ~ HasHad(d, p))
    /\ UserStep(d, handleCreate(OnDisk(d, p, {<<1, n>>}), d, p))

Edit(d, p, n) ==
    /\ disk[d][p] # NoText /\ <<1, n>> \notin disk[d][p]
    /\ UserStep(d, flushModify(OnDisk(d, p, disk[d][p] \cup {<<1, n>>}), d, p))

Resolve(d, p) ==
    /\ disk[d][p] # NoText /\ hasConflictMarkers(disk[d][p])
    /\ UserStep(d, flushModify(OnDisk(d, p, disk[d][p] \ Marks), d, p))

Delete(d, p) ==
    /\ disk[d][p] # NoText
    /\ UserStep(d, handleDelete(OnDisk(d, p, NoText), d, p))

Rename(d, p, q) ==
    /\ disk[d][p] # NoText /\ disk[d][q] = NoText /\ p # q
    /\ AnyPath \/ (q \notin Born /\ \A x \in Devices :
                        \A op \in ToSet(log) \cup ToSet(ops[x]) : op.path # q)
    /\ UserStep(d, handleRename(
            [View(d) EXCEPT !.disk = [@ EXCEPT ![p] = NoText, ![q] = disk[d][p]]], d, p, q))

\* A sync round from the capture to the cursor, which stays where it was if a file was
\* deferred.
Round(d, decision) ==
    LET v0     == Capture(View(d), d)
        pulled == SubSeq(log, cursor[d] + 1, Len(log))
        rem    == reconstructRemoteState(d, pulled)
        g      == RecordEdges(RecordEdges(v0.dag, v0.ops), pulled)
        todo   == mergeVaultStates(g, v0.reg, rem)
        v1     == applyActions([v0 EXCEPT !.dag = g, !.ops = <<>>], d, v0.reg, todo, decision)
        v2     == reconcileConcurrentHeads(v1, d, pulled, decision)
    IN  /\ Len(log) < MaxLog \/ d = Min(Devices)
        /\ log' = log \o SelectSeq(v0.ops, LAMBDA op : op.id \notin Ids(log))
        /\ SetView(d, v2)
        /\ cursor' = [cursor EXCEPT ![d] = IF v2.deferred = {} THEN Len(log) ELSE @]
        /\ UNCHANGED acts

Init ==
    /\ log = <<>> /\ time = 0
    /\ disk = [d \in Devices |-> [p \in Paths |-> NoText]]
    /\ reg = [d \in Devices |-> <<>>]
    /\ index = [d \in Devices |-> [p \in Paths |-> NoId]]
    /\ ops = [d \in Devices |-> <<>>]
    /\ dag = [d \in Devices |-> EmptyDag]
    /\ cursor = [d \in Devices |-> 0]
    /\ acts = [d \in Devices |-> 0]

Next ==
    \E d \in Devices :
        \/ \E p \in Paths :
              \/ \E n \in Notes[d] : Create(d, p, n) \/ Edit(d, p, n)
              \/ Resolve(d, p)
              \/ Delete(d, p)
              \/ \E q \in Paths : Rename(d, p, q)
        \/ \E decision \in Decisions : Round(d, decision)

Spec == Init /\ [][Next]_vars

----------------------------------------------------------------------------
(* Properties *)

Texts == SUBSET (Regions \X Nat)

LiveEntries(d) == {e \in ToSet(reg[d]) : ~ e.deleted}

\* The kinds of the state: a registry has one entry per id, the path index names entries,
\* a cursor is a place in the log.
TypeOK ==
    /\ \A d \in Devices :
          /\ disk[d] \in [Paths -> Texts \cup {NoText}]
          /\ IsInjective([i \in DOMAIN reg[d] |-> reg[d][i].id])
          /\ \A p \in Paths : index[d][p] = NoId \/ \E e \in ToSet(reg[d]) : e.id = index[d][p]
          /\ \A e \in ToSet(reg[d]) : /\ e.path \in Paths /\ e.hash \in Texts
                                       /\ Cardinality(e.conf) \in {0, 2}
          /\ cursor[d] \in 0..Len(log)
          /\ IsInjective([i \in DOMAIN ops[d] |-> ops[d][i].id])

\* Some user deleted a file with x in it, or decided that it stays deleted.
DeletedText(x) ==
    \E op \in ToSet(log) \cup UNION {ToSet(ops[d]) : d \in Devices} : op.type = "delete" /\ x \in op.hash

\* A round takes nothing off a device that no one deleted: what stood in some file before
\* it stands in some file after it (applyAction, resolveCreateCollision).
Written(d) == UNION {disk[d][p] : p \in {q \in Paths : disk[d][q] # NoText}} \ Marks

NothingIsOverwritten ==
    [][acts' = acts =>
       \A d \in Devices :
           \A x \in Written(d) : x \in Written(d)' \/ DeletedText(x)']_vars

\* The registry and the vault agree after every handler and every round: the files are the
\* live entries, each path has one, and the path index finds it.
RegistryIsTheVault ==
    \A d \in Devices :
        /\ {e.path : e \in LiveEntries(d)} = {p \in Paths : disk[d][p] # NoText}
        /\ \A e \in LiveEntries(d) : index[d][e.path] = e.id /\ disk[d][e.path] = e.hash

\* When every device has pushed and pulled everything and no file has two open heads, all
\* hold the same files under the same ids.
Settled(d) ==
    /\ cursor[d] = Len(log) /\ ops[d] = <<>>
    /\ \A e \in LiveEntries(d) : e.conf = {}

SettledDevicesAgree ==
    (\A d \in Devices : Settled(d)) =>
        \A c, d \in Devices :
            /\ disk[c] = disk[d]
            /\ {<<e.id, e.path>> : e \in LiveEntries(c)} = {<<e.id, e.path>> : e \in LiveEntries(d)}

\* Whatever id a file ended up with: where two settled devices know the same id, they agree
\* on whether it is deleted and on its text, though create/create collisions, deletes,
\* decisions and merges raced (classifyAndResolve, applyActions).
SharedIdsAgree ==
    (\A d \in Devices : Settled(d)) =>
        \A c, d \in Devices : \A e \in ToSet(reg[c]), f \in ToSet(reg[d]) :
            e.id = f.id => e.deleted = f.deleted /\ (e.deleted \/ e.hash = f.hash)

\* A live id is at one path on all settled devices: a rename arrives (resolveRenameConflict).
RenamesArrive ==
    (\A d \in Devices : Settled(d)) =>
        \A c, d \in Devices : \A e \in LiveEntries(c), f \in LiveEntries(d) :
            e.id = f.id => e.path = f.path
=============================================================================
