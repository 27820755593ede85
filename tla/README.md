# OpsBlobs: a TLA+ development beside the code

OpsBlobs keeps a vault of notes on several devices in step through a server
that stores encrypted operations and content blobs. Every device records its
edits as operations (`create`, `update`, `move`, `delete`, and merge nodes)
stamped with a hybrid logical clock; the operations of a file form a graph of
content versions; a sync round pushes and pulls operations and merges concurrent
heads of a file three ways. This directory models the parts whose correctness
depends on order: what is on disk when, what a round reads and when it uses it,
and what devices decide from the same graph. Paths below are relative to `src/`.

## 1. Inventory

| Component | State it keeps | Operations | Correct when |
|---|---|---|---|
| Pending-op log, `src/core/operation-logger.ts` | `pendingOps`, the NDJSON journal, `oplogPersistedCount`, the promise chain of persists | record, checkpoint, clear, prune, append, rewrite, load | the count says which ops are on disk; nothing written is lost, nothing erased returns, nothing is written twice |
| Edit capture, `src/core/operation-logger.ts` | debounce timers, the listening flag, the startup's dirty set | create, modify, delete, rename, flush, capture pass, recapture | every change on disk becomes one op of one line of history, whatever crash or order of events |
| File registry, `src/core/file-registry.ts` | entries, path index, dirty ids, snapshot and journal | register, adopt, rename, delete, set head, flush, compact, reclaim, load | an entry not marked dirty is on disk; the index names live files |
| Clock, `src/core/hlc.ts`, `src/network/hlc-store.ts` | the current stamp, `hlc.json` | `now`, `setCurrent`, save, seed | stamps (op ids) are unique; a new op is after all its device has seen |
| Version graph, `src/core/version-dag.ts`, `src/network/version-dag-store.ts` | nodes: parents, content hash, file; snapshot and journal | add, ancestors, merge base, leaves, append, compact, sweep, rebuild | answers do not depend on order of arrival or on a sweep; a lost file is noticed |
| Merge decision, `src/merge/state-merge.ts` | none | one action per file | the same heads give the same result on every device; unknown means keep both |
| Text merge, `src/merge/diff3.ts` | none | diff, three-way merge, markers, the panel's parser | no typed line vanishes; what does not touch merges, equally on both devices |
| Content store, `src/core/content-store.ts`, `pack-checkpoint.ts` | cache, buffer, index, packs | put, flush, get, gc, consolidate, load | what an op names can be read; a pack file is written once |
| Sync round, `src/network/server-sync.ts`, `vault-sync-host.ts`, `sync-coordinator.ts` | snapshot, pulled ops, saved cursor | capture, pull, push, merge, apply, fold, save cursor | no op is passed that is not applied; failures repeat safely; devices converge |
| Applicator, `src/network/sync-applicator.ts` | staged registry changes, deferred files, minted ops | one step per action, clear, re-emit, flush | an edit made during the round is not overwritten, nor is another file |
| Plugin lifecycle, `src/main.ts`, `sync-coordinator.ts`, the small stores | settings, binding, busy flags, decisions, GC clock | startup, trigger, cancel, gc, vault switch, rebuild, reset | a round merges only over its own vault's history and goes by the user's answers about it; flags do not stay set |
| Policy, encryption, HTTP, UI, adapters | single values or none | - | - |

How they interact. The watcher and the capture pass call the content store, the
registry and the op log, in that order, and the clock. A round asks the host for a
snapshot of the registry and the disk, awaits the server several times, and hands
the merge's actions to the applicator, which turns the watcher off, writes the
vault, clears the op log and records what it minted. The lifecycle decides when a
round, a collection or a wipe may begin. All of it runs on one event loop: an
`await` is the only place where something else can happen, so the models cut the
handlers exactly there. The files on disk are written one by one, so a crash can
fall between any two writes.

What is hard to test: ops recorded while a persist or a round awaits; a clear that
covers more than was pushed; a crash between a pair of writes; events of the watcher
in an order nobody expects; a push whose answer is lost; a missing blob; a sweep
beside what a failed round left; two devices that decide at the same time from
different halves of the graph; rounds that must end in one text. `PROJECT.json`
lists these hazards line by line.

## 2. Modules

| Module | Stands for |
|---|---|
| `OpLog`, `OpLogFaults` | the pending-op log of one device; the same with torn appends and rejected rewrites |
| `HLC` | the clocks of several devices, the files they are saved to, the rounds that move them |
| `FileRegistry`, `DurableMap` | the registry of one device; the abstract map it implements |
| `Capture` | from what a user does to one file to its ops, over registry and op log |
| `ContentStore` | blobs, packs, index and their collection on one device |
| `DagStore` | the version graph of one file on one device and its two files |
| `VersionDag` | the operators of the version graph (no state) |
| `Diff3` | the line algorithm of the three-way merge, its markers and their parser |
| `TextMerge` | contents as sets of edits, and their merge (no state) |
| `StateMerge` | the merge decision, over `VersionDag` and `TextMerge` |
| `Sync` | devices, users and the server: capture, round, applicator, crash |
| `Vault` | two devices with files that are created, renamed and deleted |
| `Lifecycle` | triggers, flags, binding, wipes, decisions and collections around rounds |
| `MC...` | the instances that TLC checks |
| `OpLog_proofs`, `HLC_proofs`, `FileRegistry_proofs`, `ContentStore_proofs`, `Capture_proofs`, `Lifecycle_proofs`, `DagStore_proofs`, `Sync_proofs` | theorems |

`Sync` and `Vault` compose the merge modules; `DagStore` uses the operators of
`VersionDag` that `Sync` merges with. Each store has a module of its own in which
an await ends a step, and the modules above it take its promise: in `Sync` an op is
durable when it is recorded and a clock is a counter that is never lost. What that
costs (the windows found below) is a cost of the whole system and is not repeated
there. `Capture` is where the promises of two stores meet.

### OpLog

`pendingOps`, `persisted` (= `oplogPersistedCount`), `queue` and `active` (the
promise chain: waiting persists, and the one whose write is in flight) are in
memory; `journal` and `openTail` are the file. `RecordOp`, `CapturePush`,
`CaptureCheckpoint`, `ClearOps` and `PruneCreateDeletePair` are the operations;
`StartAppend`/`AppendResolves`/`AppendRejects` and
`StartRewrite`/`RewriteResolves` are the two halves of a persist around its
`await`; `Crash` may cut an append between lines; `Load` replays. `used`,
`dropped`, `settled`, `written` and `erased` are history: which ops were recorded,
removed from the array, reported as recorded, put on disk, removed from disk.

### HLC

Each device has its clock in memory and on disk, the stamps of ops not yet on
disk, on disk and on the server, and a round that reads the clock at its start
and sets it at its end. `exposed` names the devices that met one of two windows:
an op stamped between a round's clock reading and `setCurrent`, or a crash while
`hlc.json` is behind a stamp that is durable or already below the cursor. The
invariants say that nothing but these two windows breaks uniqueness and dominance;
a wall clock that jumps back does not.

### FileRegistry and DurableMap

`entries`, `pathIndex`, `dirtyIds` and `deferSave` are the registry's fields of
those names, `snapshot` and `journal` its two files; an entry's hash, head, stamps
and stat are one revision number. A mutation changes memory and marks its id, and a
flush serialises what is marked, awaits the append and clears the marks; `compact`
writes the snapshot, then truncates the journal. Each of these ends at its await,
and a write may reject or the app crash there. `DurableMap` knows only a map, what
a restart brings back, and the keys still owed a write. The refinement takes
`entries` for the map while the plugin runs, the replay of journal over snapshot
for what is saved, and the dirty ids with the reclaimed ones the disk still holds
for the keys that are owed.

### Capture

`text` is the one file, `listed` the app's index of it, `events` what the watcher
has not delivered; `entry`/`saved` and `ops`/`durable` are the registry and the op
log in memory and on disk. A handler reads (`Reads`), registers or updates the
entry, saves the registry (`Saves`), appends the op (`Appends`) and saves the
registry again with the new head (`HeadSaved`); a delete checks the file
(`Exists`), and prunes or records (`SavesDeleted`). The capture pass lists, gates by
stat, reads, compares and records with saves suspended, then flushes the registry
before the op log (`Lists` to `Logs`). The startup runs it up to twice and listens; a
round runs it, pushes, clears and does not listen while it applies. Deletes and what
follows them come in any order, as the comment at `src/core/operation-logger.ts:769`
describes. `ops` and `durable` are sets, as ids tell the order. `unseen` observes
changes that only the next pass can find; `slips` observes six windows (section 3).

### ContentStore

`memCache`, `pending`, `packBuffer`, `index` and `nextPackId` are in memory, `packs`
(pack file to the blobs readable from it) and `lines` (the last index line of a
blob) on disk. `Put` and `Capture` are the two ways to store a blob before an op
names it, `Adopt` the applicator's; a flush is an append to a pack, an append to
the index, and the emptying of the buffer. The collection decides on a keep-set taken
before it starts, retires packs, compacts those less than half live and rewrites
the index; consolidation does so without regard to age. A crash keeps any part of
the append under way. `own` and `adopted` are the contents that ops and entries name.

### DagStore

`history` is every version there is, `snapshot` and `journal` the device's two
files, `dag`, `ops`, `end` and `edges` what a round or a collection holds in memory, and
`phase` where it stands. A round loads the graph (and starts at 0 if it is to be
rebuilt), pulls, pushes, clears, records the edges, perhaps compacts, merges or defers
or conflicts (a free choice), folds, saves the cursor, and may sweep to what registry
and pending ops name. `Crash` is also a failed request; `GraphLost` deletes the files.
`aside` observes versions that the cursor passed and no head descended from at the
time, and `Dropped` those that a fold cleared before they were pushed: the fold of a
third head takes the pending merge node of the second for obsolete (`sync_fold` in
section 3), and if the files are then lost nobody can bring it back.

### VersionDag, StateMerge, TextMerge

A content is the set of edits it carries, cut into regions; edit 0 of a region is
its marker block. Equal contents are equal hashes. `HasConflicts`, `Merged` and
`Marked` are what `diff3.ts` computes on the granularity of regions.
`classifyAndResolve` has one operator per branch of the code and takes, besides the
graph and the two entries, the sets of contents each side has staged, since a
missing blob changes the decision.

### Diff3

Ancestor, local and remote text are sequences of lines. `patienceAnchors` pairs the
lines unique in both texts and sorts them with `longestIncreasingSubsequence`, which
is written as the code does it and so may throw (`Answers` is FALSE then);
`myersLCS` fills what lies between. `toHunks`, `hunksInteract` and `mergeFromDiffs`
walk both hunk lists, `Render` writes the markers and `parseConflictMarkers` and
`resolveMarkedText` read them back.

### Sync

`disk` is the vault, `armed` the debounce timers, `dev` what the plugin keeps
(registry, pending ops, clock, held contents), `dag` and `cursor` the two files of
those names, `round` the round under way with the snapshot and the pulled ops it
carries, `log` the server. A round is `BeginRound` (flush, offline capture),
`Pull` (snapshot, cursor rewind, pull, fetch), `Push`, `Merge`, one `ApplyFile`
or `ApplyThrows` per action, `ApplyEmits` (flush of blobs, `clearOps`, minted and
recaptured ops), `ApplyFlushes` (registry), then `FoldPass`/`FoldFile`/`FoldMissing`
for concurrent heads and `SaveCursor`. `RoundFails`, `Crash`, `Start` and
`GraphLost` may come between. `typed`, `emitted` and `held` are history.

### Vault

`disk` maps paths to texts, `reg` is the registry in the order of its Map (the merge
iterates it), `index` the path index. Users create, edit, resolve, delete and rename;
a round runs capture, pull, push, the create-collision prepass, the merge of every
file over the branches of `StateMerge`, the actions in the applicator's order with
their drift guards, and the recorded ops. A handler and a round are one step each.

### Lifecycle

A call is one chain of awaits and `call[c].at` where it stands: `triggerSync` past
its guards, in the vault binding, with the key, capturing, in the round, recording,
collecting; or a switch, rebuild, reset or cache command and the clears of a wipe,
one store after the other. `stores` says which vaults' history each store holds.
`conflict`, `decision`, `listed` and `roundConflicts` are a conflict, the user's
decision for it, and what the sync state and the round know of it. Three variables
observe only: `spent` the decisions a round has applied, `listedBy` the vault of the
round that wrote the panel's list, `answer` the vault whose conflict the user answered.
An answer ends when it is applied, with a wipe, or when a round records an outcome that
does not defer its file. The last is what the code does to settled and vanished
conflicts, and also to those a round put off (a stranded file, a write that threw), which
the code's comment does not say: a disagreement of its own in section 3. A write of
`sync-state.json` is one step; one that rejects after memory has changed is left out.

## 3. Runs

| Run | Question | Result |
|---|---|---|
| `oplog` | Does the marker describe the file, does what was written stay and what was erased stay away, is no line doubled, are removals served? | holds, 129 424 states |
| `hlc` | Are stamps unique, and after all the device has seen, but for the two windows? | holds, 3 129 136 states |
| `registry` | Is an unmarked entry on disk, does the index name entries, is the registry a `DurableMap`? | holds, 219 694 states |
| `capture` | Do ops and registry tell what the vault holds once all is quiet, are the ops a line, does the text reach the server? | holds but for six windows, 566 980 states |
| `store` | Can every content that an op names be read, is each pack written once? | holds, 5.1 million states |
| `dag` | Does the next round know the history of all the vault names, and find its merge bases? | holds, 881 407 states |
| `diff` | Do hunks rebuild the text, do disjoint edits merge, is no typed line dropped, does the panel read the markers? | holds, 36 443 states |
| `diff_reorder` | Does every pair of texts have a diff? | violated: reordered lines take the sort of the anchors past its piles |
| `sync` | No faults: is no recorded edit lost, do settled devices agree, is no edit taken off an unconflicted file? | holds, 476 780 states |
| `sync_faults` | One fault of any kind: does every op get to the server unless a fold drops it, is nothing skipped below a cursor, are merge bases found, do the devices converge? | holds, 502 737 states |
| `vault` | Is the registry the vault, does an id mean the same on both devices, is nothing overwritten? | holds, 43 648 states |
| `lifecycle` | Does a round merge over its own vault only, does it go by the user's unused answers about that vault and no others, is every flag released? | holds, 147 201 states |

A passing run states what is left once the disagreements below are set aside:
`SettledDevicesAgreeUnlessAside` and `BasesKept` except versions that a two-headed
file or a cursor has put aside, `NamedHistoryIsKnown` and `BasesKept` end with the first
merge node that a fold drops before its push (`Dropped`), `EditsStay` excepts files with open heads,
`RecordedEditsSurvive` speaks of users' edits and not of minted nodes,
`OpsLeaveOnlyInFolds` excepts a fold of concurrent heads on the device that has the op
pending (`reconcileConcurrentHeads` clears all that is pending, see below), and
`SettledDevicesAgreeUnlessAside` speaks of states in which every op ever recorded is
still known to somebody (`NothingLost`; with one file this is no restriction, since it
is itself an invariant of both runs). The properties
of `Diff3` speak of diffs that give an answer, and those of `Capture` end with the
first window of `Excused` that is met:

* `registry first`: a crash after the registry's save and before the op's append;
* `head last`: a crash after the append and before the save of the head;
* `restored`: an update, or a capture pass, that meets the tombstone of a live file;
* `pruned`: a create taken back that an unanswered push had brought to the server;
* `twice`: a second delete event that meets the tombstone of the first;
* `create first`: a create delivered before the delete it followed.

`TypeOK` of `DagStore`, `Lifecycle` and `Capture` and `StampsCarryTheirDevice` of
`HLC` hold in these instances too, and are proved.

### Further configurations, run by hand

Each checks one statement of a comment, a document or a test, and TLC finds it
violated; unless noted, a finding in `PROJECT.json` quotes the statement and the line.
A name ending in `.cfg` is a file here; the others are a file with the change given.

| Configuration | Violated | What happens |
|---|---|---|
| `oplog.cfg` | `SettledIsDurable` | a prune during an append moves the marker past the array |
| `oplog_torn.cfg` | `TornTailTolerated` | the torn line swallows the next one |
| `hlc_rewind.cfg` | `SessionMonotone` | `setCurrent` with an old reading |
| `registry.cfg`, `Callers <- MCPair`, `WritesFail` FALSE | `SavedOnceReturned` | two callers: a mark set during an append is cleared unwritten |
| `capture.cfg`, one window less in `Excused` | its properties | the six windows above |
| `capture.cfg`, `Callers <- MCPair`, `MaxActs` 2, no fault | `OwnHistoryIsALine`, `TextReachesTheServer` | a handler beside another, or beside the pass of a round |
| `store_overlap.cfg` | `NamedIsStored` | two callers: consolidation retires a pack whose op is not yet recorded |
| `store.cfg`, two blobs, no symmetry | `AdoptedIsStored` | an index line whose bytes were torn is trusted |
| `dag.cfg`, `MaxVersions` 3, no fault | `AnswersKept` | a version passed below a missing one is swept |
| `dag_stranded.cfg` | `PassesWhatItFolds` | a fold that meets missing bytes ends, and the cursor passes the other head |
| `dag.cfg`, `CollectsEarly`, `SnapshotMayGo` or `LinesTear` TRUE | `NamedHistoryIsKnown`, `BasesKept` | a manual collection after a failed round; only the snapshot lost; a torn journal |
| `diff.cfg` | `OverlapsAreReported` | the rest of an overlapping hunk merges as if alone |
| `diff.cfg` | `MergeCommutes` | two inserts at one gap are joined local side first |
| `diff_heading.cfg` | `PanelResolves` | a user's line that looks like a separator |
| `sync_window.cfg` | `RecordedEditsSurvive` | `clearOps` drops an op that a timer captured in the round |
| `sync.cfg`, `Files = {f1, f2}`, `ApartSpec`, `EditsOfFirst` 2 | `RecordedEditsSurvive` | a fold of one file drops the recaptured edit of another |
| `sync_stuck.cfg` | `SettledDevicesAgree` | an edit held by a two-headed file and passed by the cursor |
| `sync_halfway.cfg` | `NoLostEdit` | text that lives only in a marked file |
| `sync_fold.cfg` | `RecordedOpsSurvive` | a fold in the same round clears a minted node |
| `sync_storm.cfg` | `NoMergeStorm` | each round unites the node of the round before |
| `sync_base.cfg` | `BaseIsFound` | a timer's head shows through in the snapshot, its version is in no graph |
| `vault_overwrite.cfg` | `NothingIsOverwritten` | a peer's rename and edit written over another local file |
| `vault.cfg`, `OpsOfFirst` 1 | `SettledDevicesAgree` | an equal create on both sides, deleted by one |
| `vault.cfg` | `RenamesArrive` | a rename before a merge node with a later stamp |
| `lifecycle_rounds.cfg`, and with `GcAlone` instead | `OneRound`, `GcAlone` | two triggers, or a trigger and a collection, between guard and flag |
| `lifecycle_rounds.cfg` with `OwnHistory` instead | `OwnHistory` | a round starts while a switch awaits its confirmation |
| `lifecycle_answer.cfg` | `AnswersOneConflict` | a decision applied by a failed round answers the next conflict |
| `lifecycle_answer.cfg` with `DropsWithTheConflict` instead | `DropsWithTheConflict` | a decision on a stranded file, or whose write threw, is dropped unused |
| `lifecycle.cfg`, no files, no crash | `OwnOperations` | an edit between two clears of a wipe keeps the old vault's parents (no finding: nothing claims otherwise) |

### Bounds, and why they are enough

* `oplog`: three ops on two files, one of them a create, so that a prune removes
  the create and a later update and keeps the other file's op; at most two
  persists wait before a clear or checkpoint adds one (`MaxQueue`; records and
  prunes are not bounded by it). With that an append is in flight while a rewrite and an
  append wait, which is the longest pattern the marker's arithmetic tells apart.
* `hlc`: two devices with `MaxOps` ops, wall readings 0 and 1, each free to go
  either way. A tie, a backward jump and a foreign stamp ahead of the wall clock
  all occur.
* `registry`: two ids and two paths, interchangeable, three changes, one crash: an
  adopt that drops another id, a rename onto a path just freed, and a change between
  the two writes of a compaction.
* `capture`: two texts, three acts of the user and one fault: a delete and a create
  around any step of the startup, a handler or a round. Four acts give 4.6 million states
  and the same answers.
* `store`: three interchangeable blobs, so that a pack can be less than half live
  and more; three packs, so that a compaction finds a place and the next pack follows
  it; one crash or rejected write.
* `dag`: four versions of one file: an ancestor, two heads that conflict, and an edit
  above one of them; one failed round, crash or loss. A merge node that a third head makes
  obsolete takes five versions, so `Dropped` stays empty in this run; the theorems of
  section 4 have no bound, and six million states of random behaviours with six versions
  and three faults keep their invariant.
* `diff`: five interchangeable lines, texts of at most three: hunks that touch, overlap
  and repeat a line. Four lines in each text are out of reach of a run.
* `sync`: two devices, one file; device 1 types one edit, device 2 two, in the same
  region as device 1 (a conflict) or another one (a clean merge). One edit after
  a resolution is what the held-version cases need. `sync_faults` gives each
  device one edit and one fault of any kind. Faults are a failed or half-done push,
  a crash, a throwing action, a missing blob (also during a fold) and a lost graph.
  By hand, `sync.cfg` with `Files = {f1, f2}`, `ApartSpec` (one device at a time in a
  round) and edits (1, 2) checks the safety properties of both runs on 403 311 states;
  with edits (2, 2) the six other than `RecordedEditsSurvive` hold on 5 241 533 states
  (a quarter of an hour), and that one fails (table above).
* `vault`: two devices, two paths, two acts each, files born at one of the paths;
  a user who defers delete conflicts or keeps the edit. A collision of creates, a
  delete against an edit, and a rename against either all occur.
* `lifecycle`: one call at a time, two vaults, one file with a standing policy and one
  without, two crashes, the second during what the first left.
* `MaxLog`: since devices with equal bytes may mint nodes without end
  (`sync_storm`), the number of ops on the server has to be bounded. Once it
  is reached only the smallest device still syncs, so the others can still be
  compared with it. `sync_storm` has 20.
* Symmetry is used where values are interchangeable and no liveness is checked
  (`registry`, `store`, `diff`); device ids break ties and are never permuted.

### Restrictions, by name

* One caller in the passing runs of `FileRegistry`, `ContentStore`, `Lifecycle` and
  `Capture`: the calls of one chain of awaits, with crashes, against what is on disk.
  Two callers is the application as it is; the table above shows what they break.
* `Turn` (`Sync`): from `Merge` on a round reads and writes only its own device's
  state, so these steps commute with those of other devices and are not interleaved
  with them. Edits of the same device's user are interleaved with every step.
* `Calm` (`Sync`): during a round users leave marked files alone, and a debounce timer
  armed during a round does not fire in it. The second is lifted in `sync_window`
  and `sync_base`, which show why it is there. The first hides a case
  listed as a hazard: a marked file whose bytes equal the remote's.
* A crash in `Sync` loses the round and the timers, never a durable file. The drift
  check and the write after it are one step. An entry and its op become durable
  together when captured (`Capture` says what that hides); when a round applies, the
  ops are recorded before the registry is written, as in the code.
* `Quiet` (`DagStore`): no edit of this device while a round still clears pending ops
  (`sync_window`). A manual collection waits until the device's own versions are
  recorded unless `CollectsEarly`; a journal line is appended whole unless `LinesTear`;
  both files are lost together unless `SnapshotMayGo`. Peers write at idle and before
  the push, since elsewhere it commutes. The bytes of the device's own file are at hand.
* `Diff3`: no line of a user looks like a marker, but in `diff_heading`.
* `Capture`: peers write nothing; a read of a listed file that is gone finds nothing,
  where the code's read rejects; ids of ops do not repeat (`HLC` has the windows).

### Fairness

`OpLog`: weak fairness of starting a queued persist and of ending a write,
because the event loop runs the chain; nothing is assumed of users or crashes.
`Sync`: a device that can sync has rounds again and again and each goes on or
fails, because of the auto-sync interval (`src/main.ts`, `setupAutoSync`) and
because every request has a timeout; a closed app is opened again; a user who sees
markers resolves them. No fairness is assumed of edits, timers or faults; the
latter are bounded, so they end. `EventuallyConverges` excepts runs that reach
`MaxLog` and versions left aside for good, which `sync_storm` and `sync_stuck`
are about.
`Lifecycle`: a call goes on (`Runs`), since requests time out and stores resolve or
reject, and the startup capture ends; modals, users and peers owe nothing.
`Capture`: a call goes on, the app is opened again and the interval starts rounds (weak
fairness); events are delivered and timers fire (strong fairness: with one call at a
time rounds that follow each other would otherwise keep them out, which the event
loop does not).

## 4. Proofs

`OpLog_proofs`, for any set of ops and files and any queue bound:

* `TypeCorrect`: types and `CleanInv`. `CleanInv` is the strengthening that makes the rest
  inductive: journal and array hold no op twice; an op of the array beyond
  `Covered` (the marker, moved by the append in flight) is neither on disk nor
  being written. Without the last part an append could repeat a line.
* `NoDuplicateLineHolds` follows from it.
* `WrittenStaysDurableHolds`, `ErasedStaysErasedHolds` and
  `MarkerMatchesJournalHolds` each add an invariant (`WrittenInv`, `ErasedInv`,
  `MarkerInv`) that says the same of the write in flight and of the rewrites that
  wait: what they write covers what was written and is not dropped; what they
  erase is in no array.

They rest on lemmas on slices, images and concatenations, and on the assumption
that `NoPersist` is no persist record. The module's `Ascending` and `Replay` are
written as functions, so that no proof needs induction over data.

`HLC_proofs`, for any number of devices and any wall clocks:

* `Invariance`: types, `OwnInv` (a clock and a stamp carry their own device) and
  `CoverInv`: the clock of a device that is not exposed is not before any stamp it
  has issued, has on disk or on the server, or has pulled below its cursor or
  merged, and a round's reading of the clock is still the clock. From this
  `UniqueStamps`, `OwnStamps` and the action property `Domination` follow.

`FileRegistry_proofs`, for any sets of ids and paths and any revisions:

* `TypesHold` and `IndexIsSound` for any callers, however their calls overlap. The two
  are one induction (`IndexInv`): the entry at a path has a type only because the
  index names an entry.
* `FilesAreADurableMap`: each step of the registry is a step of `DurableMap` or a
  stutter under the mapping of section 2, so the two files together behave as one map
  that is saved entry by entry. `UnmarkedIsSavedAlone` follows from it: `Settled`
  (what is not owed is on disk) is an invariant of `DurableMap`'s steps alone.
  The hypothesis is `Alone`, see below. The invariant is `CallsInv`: what a call carries
  over its await (the delta, the fold of a compaction, the ids it drops) is still
  true of memory when the await ends. The journal enters through
  two facts: an appended line overwrites the ids it names (`ReplayAppend`), and a new
  snapshot under an old journal shows only where the journal is silent (`ReplayBase`).

`ContentStore_proofs`, for any blobs and callers:

* `TypesHold` and `PacksAreNeverReused`: a pack file is written once. Each flush that
  is under way has an id of its own that no file has yet (`IdTaken`), also with callers
  that overlap and after a load that resumes behind the largest id it finds.
* `NamedIsKept`, under `Alone`: what an op names can be read, through flushes,
  collections, consolidations, crashes and rejected writes. `KeptInv` adds seven parts,
  the hard one being `CollectorInv`: until the packs are sorted the
  collection works on the index as it was; what it is about to remove
  holds nothing named that is not buffered again or in a later pack. A flush before the
  removal therefore has to succeed, and `Named` says what is promised once a crash or
  a rejected write has taken part of that away.

`Capture_proofs`, for any texts, acts and faults:

* `TypesHold`: types, for any callers and however their calls overlap. `CallFits` says
  what a call needs where it stands (a text it has read, an entry it will write to): no
  step but a crash takes the entry away, and a crash ends every call.
* `HistoryIsALine` (`OwnHistoryIsALine`), under `Alone` and `Excuses` (the first five
  windows are excused; the sixth needs no excuse). `LineInv` has at its centre that the
  head the registry names is a recorded op of its file and nobody's parent, so that the
  next op continues the line (`EntryInv`). The rest is what keeps this true: memory and
  op log hold the same ops but where a write is under way (`OpLogInv`), the parent a
  handler carries over its await is still the head (`ParentsInv`), and the entry on disk is as
  good as the one in memory wherever a crash is not one of the windows (`SavedInv`).
* `QuietTextIsToldHolds` (`QuietTextIsTold`), under `Alone` and with all six windows
  excused. Two invariants carry it. `TellsInv`: what the newest ops of the server and the
  pending set say is what the entry says, but between the change of an entry and the op
  that tells of it (`Untold`); and what a restart would find says the same of the entry
  on disk, but where a crash is a window (`Exposed`). `VaultInv`: the entry matches the
  file, or something still leads to a capture (`Pending`: an event on its way, the timer, a
  change nobody saw), or a call has the file in hand. For the last two it needs what the
  listing may be behind by (`ListedInv`), that equal times mean equal content (`Dated`),
  and where a file is that came back after its delete (`BackInv`).

`Lifecycle_proofs`, for any vaults, files and number of callers, crashes and calls:

* `TypesHold` and `CollectionsNeverOverlap`: the flag keeps two collections apart even
  when calls overlap, since guard and flag are one step there.
* `HistoriesStayApart` (`OwnHistory`), under `Alone`. `HistoryInv`: the stores hold
  nothing but the history of the vault the marker names; a round past the binding has
  settings and marker equal; a wipe that is about to set the marker has wiped every store.
* `AnswersAlwaysCount` (`AnswersCount`), under `Alone`. `AnswersInv`, over `HistoryInv`:
  the decisions not applied yet are the answers, all about the vault the marker names, and
  so is what the panel lists; a round describes nothing before its merge and afterwards
  what it defers; the marker is set when nothing is listed or answered.

`DagStore_proofs`, for any number of versions and faults:

* `TypesHold`, whatever is lost, torn or collected early. It rests on the log taking no
  op twice though a push repeats after a failure (`LogExtended`).
* `NamedHistoryIsKnownHolds` and `BasesKeptHolds`, under the negation of the three
  flags: no lost snapshot beside a journal, no collection between a failed round and the
  next, no torn line; the table above shows what each of them breaks. `GraphInv` is the
  invariant. Its centre is `DiskInv`: in each phase, the files together with what the next
  round adds to them reach every version of the named history that no round put aside.
  To *reach* is to walk down from the heads inside a set of nodes, stopping at
  what was put aside (`Reaches`), since a sweep keeps what a walk meets in the graph it
  has, not what the whole history holds. `RoundInv` says what the memory of a round is
  worth where it stands, `PendingInv` that pending ops belong to that history and the
  cursor has passed none, `LogInv` and `PassedInv` that what the server holds up to a seq,
  and what the cursor has passed, has its parents there.
* The lemmas below them are on walks: `WalkExists` shows that the recursion of
  `ancestors` has a solution for every finite graph, by the generations of a walk rather
  than by induction over data, and `WalkLeast` that the solution is the least closed set
  that holds the start. From these follow what an addition, a restriction to a part of the
  graph and a sweep do to walks (`WalkBorn`, `SubWalk`, `ReachMoves`, `ReachSwept`)
  and to `mergeBase` (`SubBase`).

`Sync_proofs`, for any devices, any finite set of files, any edits, faults and `MaxLog`:

* `PendingOpsReachTheServer`: an op once recorded stays pending on its device until the
  server has it, through pushes that are lost or half done, failed rounds,
  crashes and applied merges; only a fold on the device that has it pending can
  drop it. `PendingInv`: the push sends exactly what is pending (`clearOps` takes
  no list of ids, so anything recorded between snapshot and push would go unsent),
  and nothing is pending while a round merges and applies. This rests on `Calm`: no timer
  fires during a round. Without it `sync_window` shows the loss.
* `TypesHold` (`TypeOK`): cursors inside the log, heads and conflict heads that name a
  recorded version, two conflict heads or none, and no id pending twice. The last is the
  hard part: the id of a merge node is made of content and parents and not of a stamp, so
  that a save, a round and a restart may each record the same node. `KindsInv` is the
  invariant; it says of each device, and of each phase of a round, which versions the entries,
  the snapshot, the actions and the minted nodes may name (`IsDev`, `IsRound`). Two parts
  guard the ids: wherever a pending node is what a save of the same text over
  the same two heads would record again (`Redone`: a crash came before the registry was
  written), the file still holds that text and no markers (`KeepsRedone`); and while the
  app is open the entry holds it too, so no capture takes it for a change (`GuardsRedone`).
  This rests on both parts of `Calm`.
* `ServerTakesAnOpOnce`: no id comes twice in the server's log, though a round sends again
  what a failed one has sent. The server skips an id it has, but within one push only the
  distinctness of the pending ids keeps it from taking two.
* `PassedOpsAreInTheGraph`: every op below a device's saved cursor is a version of its graph,
  unless the graph is lost, and then the next round pulls from the start. A pull never brings
  such an op again, so a graph without it could give a later merge no base. `PassedInv` follows
  the pulled ops through a round: the cursor is where the pull began and the ops are those of
  the log after it; the merge puts them in the graph before the round moves the cursor
  (`recordVersionEdges` before `saveCursor`), and a pull for a lost graph starts at 0
  (`dagNeedsRebuild`). It is the first half of `AppliedUpToCursor`: that the heads take up what
  the graph holds stays with TLC.

The last three have the hypothesis `NullsApart`: the constants that stand for "no head" and
"no round" are neither a version id nor a round. In the runs they are model values. They
also use that the files of `Sync` are notes (`TextsAssumption`): binary contents lead to
`binary_conflict`, which the applicator of `Sync` does not have (section 5).

`Alone` says that there is one caller: calls follow each other, with crashes
between their steps. It is a hypothesis and not an assumption of the modules, since
the application has several callers. `store_overlap`, `lifecycle_rounds`, and `registry.cfg`
and `capture.cfg` with two callers show that the theorems under it fail without it.

Only model-checked, and why:

* `AppliedUpToCursor`, `BaseIsFound`, `EditsStay` and `SettledDevicesAgreeUnlessAside` of
  `Sync`: they compare contents along the history of every device, in every branch
  of the merge decision; `KindsInv` knows which versions there are, not what they say.
* `RecordedEditsSurvive` of `Sync` has no proof since it fails on larger instances
  (section 3); `OpsLeaveOnlyInFolds` is what holds of every instance.
* All of `Vault`: a round there is one fold over the registry's sequence, and what a fold
  computes for every input is induction over data.
* `PassesWhatItFolds`, which is violated, has nothing to prove.
* `Diff3`: the walks over hunks and texts are recursive operators.
* `RemovalsAreServed`, `EventuallyConverges`, `FlagsReleased` and `TextReachesTheServer`:
  liveness under fairness, as is `ENABLED`, is out of the prover's reach.

## 5. Not modelled

* Sync round: batches of a push, the 409 answer and the pull that follows it, the
  key check. A push of `Sync` succeeds, fails, or is taken and not answered.
* `binary_conflict` in the applicator: it takes the branches of `delete_conflict`
  with bytes in place of the deletion.
* Capture: size caps and exclusions, the placeholder hash, a listing that lacks
  some files only, the batches of `captureAllAsBaseline` (`Lifecycle` has its order).
* Registry: half a journal line, and a failing `remove` in `resetAll`.
* Text merge: line ends are not normalised; encodings and binary detection.
* More than two devices in a run. `Sync` takes any finite set of files, but its passing
  runs have one (section 3).
* Encryption, HTTP, settings, UI, adapters and probes have no ordering of their own
  that the properties depend on; the conflict inventory and the exclusion policy are
  pure functions of one entry or path.

## 6. Plan

1. Proofs: `RegistryIsTheVault` of `Vault`; on top of `KindsInv`, what a device holds between
   rounds (`BaseIsFound`, `AppliedUpToCursor`), with the lemmas on walks that
   `DagStore_proofs` and `Sync_proofs` share moved to a module on `VersionDag`.
2. An abstract specification of convergence (a set of edits every device comes to
   hold) that `Sync` implements, and three devices for folds of two extra heads.
3. Batches and the 409 retry in `Sync`; a theorem or a run that `TextMerge` and `Diff3`
   agree on texts whose regions are apart.
