---------------------------- MODULE FileRegistry ----------------------------
(***************************************************************************)
(* The file registry of one device (src/src/core/file-registry.ts): which  *)
(* id a path has, kept in memory as a map of entries and an index from     *)
(* paths, and on disk as a snapshot and a journal of the entries touched   *)
(* since.  A mutation changes memory at once, marks its id dirty and then  *)
(* waits for a flush, which appends the dirty entries to the journal;      *)
(* `compact` folds the journal back into the snapshot.                     *)
(*                                                                         *)
(* Callers are the asynchronous calls that may be under way at one time:   *)
(* a capture pass or the apply of a round is one caller, and each vault    *)
(* event that Obsidian delivers is a caller of its own.  A call is a step  *)
(* for every stretch between two awaits.  A crash may come at any point.   *)
(*                                                                         *)
(* An entry's hash, head, stamps and stat are one revision: the number of  *)
(* the change that wrote it.                                               *)
(***************************************************************************)
EXTENDS Integers, Sequences, FiniteSets

CONSTANTS
    Ids,            \* file ids (UUIDs)
    Paths,
    Callers,
    NoEntry,        \* the value of an id that is not in the map
    NoId,           \* the value of a path that is not in the index
    NoLine,         \* the value, in an append, of an id it has no line for
    WritesFail,     \* whether a write may fail
    MaxChanges,     \* bound: mutations
    MaxCrashes      \* bound: crashes

ASSUME NoIdAssumption == NoId \notin Ids
ASSUME NoEntryAssumption ==
    {NoEntry, NoLine} \cap [path : Paths, rev : Nat, deleted : BOOLEAN, marked : BOOLEAN] = {}
ASSUME NoLineAssumption == NoLine # NoEntry
ASSUME WritesFailAssumption == WritesFail \in BOOLEAN
ASSUME BoundsAssumption == MaxChanges \in Nat /\ MaxCrashes \in Nat

VARIABLES
    running,      \* the plugin is loaded
    entries,      \* in memory: id -> entry
    pathIndex,    \* in memory: path -> id
    dirtyIds,     \* in memory: the ids the next flush journals
    deferSave,    \* in memory: saves are suspended
    hasRecords,   \* in memory: journalRecords > 0
    calls,        \* the calls under way
    snapshot,     \* on disk: id -> entry
    journal,      \* on disk: the appended deltas, oldest first
    \* counters and history
    changes, crashes,
    unfolded      \* reclaimed ids that the disk still holds; read by no action

memory == <<entries, pathIndex, dirtyIds, deferSave, hasRecords, calls>>
disk   == <<snapshot, journal>>
vars   == <<running, memory, disk, changes, crashes, unfolded>>

----------------------------------------------------------------------------
(* Helpers *)

Entries == [path : Paths, rev : Nat, deleted : BOOLEAN, marked : BOOLEAN]
Maps    == [Ids -> Entries \cup {NoEntry}]
Empty   == [i \in Ids |-> NoEntry]
NoIndex == [p \in Paths |-> NoId]

Deltas  == [Ids -> Entries \cup {NoEntry, NoLine}]
NoDelta == [i \in Ids |-> NoLine]

\* The lines of one append: the present value of each of the ids, NoEntry for a
\* {del} line.
Delta(ids) == [i \in Ids |-> IF i \in ids THEN entries[i] ELSE NoLine]

\* The last of the appends that has a line for id i.
Last(lines, i) ==
    {k \in DOMAIN lines : /\ lines[k][i] # NoLine
                          /\ \A l \in DOMAIN lines : l > k => lines[l][i] = NoLine}

\* `load` reads the snapshot and replays the lines over it, the last one wins.
Replay(base, lines) ==
    [i \in Ids |-> IF Last(lines, i) = {} THEN base[i]
                   ELSE lines[CHOOSE k \in Last(lines, i) : TRUE][i]]

OnDisk == Replay(snapshot, journal)

Has(id)  == entries[id] # NoEntry
Live(id) == Has(id) /\ ~entries[id].deleted
Tombstones == {i \in Ids : Has(i) /\ entries[i].deleted}

\* Ids nothing has ever named: a fresh UUID is one of them.
Fresh == {i \in Ids : /\ ~Has(i) /\ i \notin dirtyIds /\ i \notin unfolded
                      /\ OnDisk[i] = NoEntry}

\* A call under way: what it has serialised, the reclaimed tombstones its fold
\* leaves out, and whether it is part of `load`.
Idle == [pc |-> "idle", delta |-> NoDelta, fold |-> Empty, dropped |-> {}, load |-> FALSE]

----------------------------------------------------------------------------
Init ==
    /\ running = TRUE
    /\ entries = Empty /\ pathIndex = NoIndex
    /\ dirtyIds = {} /\ deferSave = FALSE /\ hasRecords = FALSE
    /\ calls = [c \in Callers |-> Idle]
    /\ snapshot = Empty /\ journal = <<>>
    /\ changes = 0 /\ crashes = 0 /\ unfolded = {}

\* Caller c may start: it has no call under way, and `load` is over.
Ready(c) == running /\ calls[c].pc = "idle" /\ \A d \in Callers : ~calls[d].load

Step(c, call) == calls' = [calls EXCEPT ![c] = call]
Goto(c, pc)   == Step(c, [calls[c] EXCEPT !.pc = pc])

\* save(id): mark, then flush unless saves are suspended.  flush returns at once
\* when nothing is dirty; otherwise it waits for ensureDir.
Save(c, ids) ==
    /\ dirtyIds' = dirtyIds \cup ids
    /\ Goto(c, IF deferSave \/ dirtyIds' = {} THEN "idle" ELSE "dir")
    /\ UNCHANGED <<deferSave, hasRecords>>

\* A mutation by caller c: entry `id` becomes e, and the ids in `also` are
\* dirty with it.
Put(c, id, e, also) ==
    /\ entries' = [entries EXCEPT ![id] = e]
    /\ Save(c, {id} \cup also)

Counted == changes < MaxChanges /\ changes' = changes + 1

Rev == changes + 1

Undisturbed == UNCHANGED <<running, disk, crashes, unfolded>>

----------------------------------------------------------------------------
(* Mutations.  All but reconcileWithVault return at once when the path or  *)
(* the id is unknown, which changes nothing and is no step here.           *)

\* registerFile on a path the index does not know: a fresh id.
RegisterNew(c, p, id) ==
    /\ Ready(c) /\ Counted /\ Undisturbed
    /\ pathIndex[p] = NoId /\ id \in Fresh
    /\ pathIndex' = [pathIndex EXCEPT ![p] = id]
    /\ Put(c, id, [path |-> p, rev |-> Rev, deleted |-> FALSE, marked |-> FALSE], {})

\* registerFile on the path of an indexed tombstone: it comes back under its id.
RegisterResurrects(c, p) ==
    LET id == pathIndex[p] IN
    /\ Ready(c) /\ Counted /\ Undisturbed
    /\ id # NoId /\ entries[id].deleted
    /\ Put(c, id, [entries[id] EXCEPT !.deleted = FALSE, !.rev = Rev], {})
    /\ UNCHANGED pathIndex

\* updatePath.
UpdatePath(c, p, q) ==
    LET id == pathIndex[p] IN
    /\ Ready(c) /\ Counted /\ Undisturbed
    /\ id # NoId /\ p # q
    /\ pathIndex' = [pathIndex EXCEPT ![p] = NoId, ![q] = id]
    /\ Put(c, id, [entries[id] EXCEPT !.path = q, !.rev = Rev], {})

\* A change of the entry at a path that leaves its path and its marks alone.
ReviseAt(c, p) ==
    LET id == pathIndex[p] IN
    /\ Ready(c) /\ Counted /\ Undisturbed
    /\ id # NoId
    /\ Put(c, id, [entries[id] EXCEPT !.rev = Rev], {})
    /\ UNCHANGED pathIndex

UpdateContentHash(c, p) == ReviseAt(c, p)
RecordStat(c, p)        == ReviseAt(c, p)

\* markDeleted: the index keeps the tombstone's path.
MarkDeleted(c, p) ==
    LET id == pathIndex[p] IN
    /\ Ready(c) /\ Counted /\ Undisturbed
    /\ id # NoId
    /\ Put(c, id, [entries[id] EXCEPT !.deleted = TRUE, !.rev = Rev], {})
    /\ UNCHANGED pathIndex

\* Fault: whoever the index names is dropped, though it may name nobody.
DuplicateUnchecked(id, p) == {pathIndex[p]} \ {id}

\* The ids a remote write at p drops as divergent duplicates.
DuplicateAt(id, p) == {pathIndex[p]} \ {NoId, id}

\* Fault: the dropped duplicate gets no {del} line.
TouchedWithoutDuplicate(id, p) == {id}

TouchedByAdopt(id, p) == {id} \cup DuplicateAt(id, p)

\* Fault: the path the id had stays in the index.
StalePathKept(id, p) == {}

\* The path the id had, when it is another one.
StalePath(id, p) == IF Has(id) THEN {entries[id].path} \ {p} ELSE {}

\* adoptRemote: the id takes the path, whoever held it is dropped from the map,
\* and the path the id had is taken out of the index.
AdoptRemote(c, id, p) ==
    LET gone == DuplicateAt(id, p)
    IN  /\ Ready(c) /\ Counted /\ Undisturbed
        /\ entries' = [i \in Ids |->
              CASE i = id    -> [path |-> p, rev |-> Rev, deleted |-> FALSE, marked |-> FALSE]
                [] i \in gone -> NoEntry
                [] OTHER      -> entries[i]]
        /\ pathIndex' = [r \in Paths |->
              IF r = p THEN id ELSE IF r \in StalePath(id, p) THEN NoId ELSE pathIndex[r]]
        /\ Save(c, TouchedByAdopt(id, p))

\* A change of the entry of an id that leaves its path and its marks alone.
Revise(c, id) ==
    /\ Ready(c) /\ Counted /\ Undisturbed
    /\ Has(id)
    /\ Put(c, id, [entries[id] EXCEPT !.rev = Rev], {})
    /\ UNCHANGED pathIndex

SetHeadVersion(c, id) == Revise(c, id)
SetSyncedPath(c, id)  == Revise(c, id)

\* markConflicted and clearConflict.
MarkConflicted(c, p) ==
    LET id == pathIndex[p] IN
    /\ Ready(c) /\ Counted /\ Undisturbed
    /\ id # NoId
    /\ Put(c, id, [entries[id] EXCEPT !.marked = TRUE, !.rev = Rev], {})
    /\ UNCHANGED pathIndex

ClearConflict(c, id) ==
    /\ Ready(c) /\ Counted /\ Undisturbed
    /\ Has(id) /\ entries[id].marked
    /\ Put(c, id, [entries[id] EXCEPT !.marked = FALSE, !.rev = Rev], {})
    /\ UNCHANGED pathIndex

\* The files of the vault that no index entry names.
Untracked(vault) == {p \in vault : pathIndex[p] = NoId}

\* The live entries whose file is gone.
Vanished(vault) == {i \in Ids : Live(i) /\ entries[i].path \notin vault}

\* reconcileWithVault: `vault` is what the listing shows, `new` the ids minted.
ReconcileWithVault(c, vault, new) ==
    LET minted == {new[p] : p \in DOMAIN new}
        made(i) == CHOOSE p \in DOMAIN new : new[p] = i
    IN  /\ Ready(c) /\ Counted /\ Undisturbed
        /\ \A p, q \in DOMAIN new : new[p] = new[q] => p = q
        /\ minted \cup Vanished(vault) # {}
        /\ entries' = [i \in Ids |->
              CASE i \in minted -> [path |-> made(i), rev |-> Rev, deleted |-> FALSE, marked |-> FALSE]
                [] i \in Vanished(vault) -> [entries[i] EXCEPT !.deleted = TRUE, !.rev = Rev]
                [] OTHER -> entries[i]]
        /\ pathIndex' = [p \in Paths |-> IF p \in DOMAIN new THEN new[p] ELSE pathIndex[p]]
        /\ Save(c, minted \cup Vanished(vault))

SuspendSaves(c) ==
    /\ Ready(c) /\ ~deferSave /\ deferSave' = TRUE
    /\ UNCHANGED <<entries, pathIndex, dirtyIds, hasRecords, calls, changes>> /\ Undisturbed

ResumeSaves(c) ==
    /\ Ready(c) /\ deferSave /\ deferSave' = FALSE
    /\ UNCHANGED <<entries, pathIndex, dirtyIds, hasRecords, calls, changes>> /\ Undisturbed

----------------------------------------------------------------------------
(* flush: ensureDir, then the append, then perhaps a compaction *)

Flush(c) ==
    /\ Ready(c) /\ dirtyIds # {} /\ Goto(c, "dir")
    /\ UNCHANGED <<entries, pathIndex, dirtyIds, deferSave, hasRecords, changes>> /\ Undisturbed

\* ensureDir resolves: the delta is serialised and its append begins.
FlushSerialises(c) ==
    /\ running /\ calls[c].pc = "dir"
    /\ Step(c, [calls[c] EXCEPT !.pc = "append", !.delta = Delta(dirtyIds)])
    /\ UNCHANGED <<entries, pathIndex, dirtyIds, deferSave, hasRecords, changes>> /\ Undisturbed

\* metadata.append resolves; the size valve is the files' sizes' choice.
AppendResolves(c) ==
    /\ running /\ calls[c].pc = "append"
    /\ journal' = Append(journal, calls[c].delta)
    /\ hasRecords' = (hasRecords \/ calls[c].delta # NoDelta)
    /\ dirtyIds' = {}
    /\ \E fold \in {FALSE, ~deferSave /\ hasRecords'} :
          Step(c, [Idle EXCEPT !.pc = IF fold THEN "foldDir" ELSE "idle"])
    /\ UNCHANGED <<running, entries, pathIndex, deferSave, snapshot, changes, crashes, unfolded>>

\* The write a call waits for fails: its caller sees the error.
CallRejects(c) ==
    /\ WritesFail /\ running
    /\ calls[c].pc \in {"dir", "append", "foldDir", "snap", "trunc"}
    /\ Step(c, Idle)
    /\ UNCHANGED <<entries, pathIndex, dirtyIds, deferSave, hasRecords, changes>> /\ Undisturbed

----------------------------------------------------------------------------
(* compact *)

\* reclaimTombstones: old enough, not pinned by a pending op, not in conflict.
Reclaimed(aged, pinned) ==
    {i \in Tombstones : i \in aged /\ i \notin pinned /\ ~entries[i].marked}

\* Fault: the path of a reclaimed tombstone stays in the index.
IndexKeepsReclaimed(gone) == pathIndex

IndexWithout(gone) == [p \in Paths |-> IF pathIndex[p] \in gone THEN NoId ELSE pathIndex[p]]

\* compact up to ensureDir; with nothing to fold and nothing dropped it returns.
Compact(c, aged, pinned) ==
    LET gone == Reclaimed(aged, pinned) IN
    /\ Ready(c) /\ (hasRecords \/ gone # {})
    /\ entries' = [i \in Ids |-> IF i \in gone THEN NoEntry ELSE entries[i]]
    /\ pathIndex' = IndexWithout(gone)
    /\ unfolded' = unfolded \cup gone
    /\ Goto(c, "foldDir")
    /\ UNCHANGED <<running, dirtyIds, deferSave, hasRecords, disk, changes, crashes>>

CompactSerialises(c) ==
    /\ running /\ calls[c].pc = "foldDir"
    /\ Step(c, [calls[c] EXCEPT !.pc = "snap", !.fold = entries, !.dropped = unfolded])
    /\ UNCHANGED <<entries, pathIndex, dirtyIds, deferSave, hasRecords, changes>> /\ Undisturbed

\* The snapshot's atomic write resolves.
SnapshotWritten(c) ==
    /\ running /\ calls[c].pc = "snap"
    /\ snapshot' = calls[c].fold
    /\ Goto(c, "trunc")
    /\ UNCHANGED <<running, entries, pathIndex, dirtyIds, deferSave, hasRecords, journal,
                   changes, crashes, unfolded>>

\* The journal's atomic truncation resolves.
JournalTruncated(c) ==
    /\ running /\ calls[c].pc = "trunc"
    /\ journal' = <<>>
    /\ hasRecords' = FALSE /\ dirtyIds' = {}
    /\ unfolded' = unfolded \ calls[c].dropped
    /\ Step(c, Idle)
    /\ UNCHANGED <<running, entries, pathIndex, deferSave, snapshot, changes, crashes>>

----------------------------------------------------------------------------
(* resetAll: memory at once, then the two files, the snapshot first *)

ResetAll(c) ==
    /\ Ready(c)
    /\ entries' = Empty /\ pathIndex' = NoIndex
    /\ dirtyIds' = {} /\ hasRecords' = FALSE
    /\ Goto(c, "rmSnapshot")
    /\ UNCHANGED <<deferSave, changes>> /\ Undisturbed

SnapshotRemoved(c) ==
    /\ running /\ calls[c].pc = "rmSnapshot"
    /\ snapshot' = Empty
    /\ Goto(c, "rmJournal")
    /\ UNCHANGED <<running, entries, pathIndex, dirtyIds, deferSave, hasRecords, journal,
                   changes, crashes, unfolded>>

JournalRemoved(c) ==
    /\ running /\ calls[c].pc = "rmJournal"
    /\ journal' = <<>>
    /\ unfolded' = {}
    /\ Step(c, Idle)
    /\ UNCHANGED <<running, entries, pathIndex, dirtyIds, deferSave, hasRecords, snapshot,
                   changes, crashes>>

----------------------------------------------------------------------------
(* Crash and restart *)

LoseMemory ==
    /\ running' = FALSE
    /\ entries' = Empty /\ pathIndex' = NoIndex
    /\ dirtyIds' = {} /\ deferSave' = FALSE /\ hasRecords' = FALSE
    /\ calls' = [c \in Callers |-> Idle]
    /\ unfolded' = {}

\* Of an append in flight some lines may have reached the file; a line that was
\* cut in two does not parse.
Crash ==
    /\ running /\ crashes < MaxCrashes
    /\ \/ journal' = journal
       \/ \E c \in Callers : \E S \in SUBSET Ids :
             /\ calls[c].pc = "append"
             /\ journal' = Append(journal,
                   [i \in Ids |-> IF i \in S THEN calls[c].delta[i] ELSE NoLine])
    /\ LoseMemory
    /\ crashes' = crashes + 1
    /\ UNCHANGED <<snapshot, changes>>

\* rebuildPathIndex: live entries only; of two at one path either may come last.
Indexes(m) ==
    {f \in [Paths -> Ids \cup {NoId}] :
        \A p \in Paths :
            LET here == {i \in Ids : m[i] # NoEntry /\ m[i].path = p /\ ~m[i].deleted}
            IN  IF here = {} THEN f[p] = NoId ELSE f[p] \in here}

\* load; maybeCompactOnLoad may fold what it read back into the snapshot.
Load ==
    /\ ~running /\ running' = TRUE
    /\ entries' = OnDisk
    /\ pathIndex' \in Indexes(OnDisk)
    /\ hasRecords' = (\E k \in DOMAIN journal : journal[k] # NoDelta)
    /\ dirtyIds' = {}
    /\ \/ calls' = calls
       \/ hasRecords' /\ \E c \in Callers :
             Step(c, [Idle EXCEPT !.pc = "foldDir", !.load = TRUE])
    /\ UNCHANGED <<deferSave, disk, changes, crashes, unfolded>>

----------------------------------------------------------------------------
Mutate(c) ==
    \/ \E p \in Paths, id \in Ids : RegisterNew(c, p, id)
    \/ \E p \in Paths : RegisterResurrects(c, p)
    \/ \E p, q \in Paths : UpdatePath(c, p, q)
    \/ \E p \in Paths : UpdateContentHash(c, p)
    \/ \E p \in Paths : RecordStat(c, p)
    \/ \E p \in Paths : MarkDeleted(c, p)
    \/ \E id \in Ids, p \in Paths : AdoptRemote(c, id, p)
    \/ \E id \in Ids : SetHeadVersion(c, id)
    \/ \E id \in Ids : SetSyncedPath(c, id)
    \/ \E p \in Paths : MarkConflicted(c, p)
    \/ \E id \in Ids : ClearConflict(c, id)
    \/ \E vault \in SUBSET Paths : \E new \in [Untracked(vault) -> Fresh] :
          ReconcileWithVault(c, vault, new)

Persist(c) ==
    \/ Flush(c) \/ FlushSerialises(c) \/ AppendResolves(c) \/ CallRejects(c)
    \/ \E aged, pinned \in SUBSET Ids : Compact(c, aged, pinned)
    \/ CompactSerialises(c) \/ SnapshotWritten(c) \/ JournalTruncated(c)
    \/ ResetAll(c) \/ SnapshotRemoved(c) \/ JournalRemoved(c)

Next ==
    \/ \E c \in Callers : Mutate(c) \/ Persist(c) \/ SuspendSaves(c) \/ ResumeSaves(c)
    \/ Crash
    \/ Load

Spec == Init /\ [][Next]_vars

----------------------------------------------------------------------------
(* Properties *)

PCs == {"idle", "dir", "append", "foldDir", "snap", "trunc", "rmSnapshot", "rmJournal"}

CallRecords == [pc : PCs, delta : Deltas, fold : Maps, dropped : SUBSET Ids, load : BOOLEAN]

\* The types of the variables.
TypeOK ==
    /\ running \in BOOLEAN /\ deferSave \in BOOLEAN /\ hasRecords \in BOOLEAN
    /\ entries \in Maps /\ pathIndex \in [Paths -> Ids \cup {NoId}]
    /\ dirtyIds \subseteq Ids /\ unfolded \subseteq Ids
    /\ calls \in [Callers -> CallRecords]
    /\ snapshot \in Maps
    /\ journal \in Seq(Deltas)
    /\ changes \in Nat /\ crashes \in Nat

\* The ids whose entry the disk need not have: the dirty ones, the tombstones
\* reclaimed by a compaction that is not over, and all of them during a reset.
Owed ==
    IF \E c \in Callers : calls[c].pc \in {"rmSnapshot", "rmJournal"} THEN Ids
    ELSE dirtyIds \cup unfolded

\* dirtyIds is all the next checkpoint must journal: whatever is not in it a
\* restart brings back as memory has it.
UnmarkedIsSaved ==
    running => \A i \in Ids \ Owed : OnDisk[i] = entries[i]

\* The same between calls: every mutation whose save has returned is on disk.
SavedOnceReturned ==
    (running /\ \A c \in Callers : calls[c].pc = "idle") => UnmarkedIsSaved

\* Every index entry names an entry of the map, at that path: the lookups by
\* path assert it (`this.entries.get(id)!`) and would throw on a missing one.
IndexNamesAnEntry ==
    \A p \in Paths : pathIndex[p] # NoId =>
        Has(pathIndex[p]) /\ entries[pathIndex[p]].path = p

\* The registry's files keep a durable map of entries.
Durable == INSTANCE DurableMap WITH
    Keys <- Ids, Values <- Entries, Absent <- NoEntry,
    map <- IF running THEN entries ELSE OnDisk,
    saved <- OnDisk,
    owed <- IF running THEN Owed ELSE {}

\* Through flushes, compactions, resets, failed writes and crashes the snapshot
\* and the journal together behave as one map that is saved entry by entry.
ImplementsDurableMap == Durable!Spec
=============================================================================
